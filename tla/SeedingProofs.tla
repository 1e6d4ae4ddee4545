---------------------------- MODULE SeedingProofs ----------------------------
(***************************************************************************)
(* Proofs about Seeding, for every list of seeds, every number of starts   *)
(* and every place a start may be cut.                                     *)
(*                                                                         *)
(* Each seed function asks the index for its first manifest only.  That    *)
(* says something of the others because they are registered after it: an   *)
(* index without the first has none of them (OrderInv), and unless a start *)
(* was cut an index with the first has them all.  What a seed function has *)
(* finished in this start (Done) is registered, logged and signed.         *)
(***************************************************************************)
EXTENDS Seeding, FiniteSetTheorems, SequenceTheorems, WellFoundedInduction, TLAPS

\* Which seed function registers a seed.
StageOf(m) ==
  IF m \in Elems(DemoSeeds) THEN 1
  ELSE IF m = AudioSeed THEN 2
  ELSE IF m = VideoSeed THEN 3
  ELSE 4

\* The seeds of the functions that were called in this start, and those finished.
Begun == {m \in Seed : StageOf(m) <= stage}

Done == Begun \ Elems(todo)

Conf == [persistent : BOOLEAN, storage : {"none", "memory", "b2"},
         keySource : {"configured", "ephemeral"}]

Index == [image : SUBSET Images, audio : SUBSET {AudioSeed}, video : SUBSET {VideoSeed}]

Signatures == UNION {[S -> Nat] : S \in SUBSET ManifestId}

Bucket == [assets : SUBSET ManifestId, manifests : SUBSET ManifestId, signed : Signatures]

Rebuild == [pc : {"idle", "walk", "root", "done"}, keys : SUBSET DOMAIN KeyOrder,
            listed : SUBSET ManifestId, log : Seq(Images), skipped : SUBSET (ManifestId \ Images),
            root : Seq(ManifestId), match : BOOLEAN]

TypeInv ==
  /\ conf \in Conf
  /\ phase \in {"down", "seeding", "serving"}
  /\ stage \in 0..4 /\ step \in 1..5
  /\ todo \in Seq(Seed)
  /\ index \in Index
  /\ leaves \in Seq(ManifestId)
  /\ bucket \in Bucket
  /\ key \in Nat /\ starts \in Nat /\ torn \in BOOLEAN
  /\ rebuild \in Rebuild

\* What is left to do is of the present seed function, and how far its first seed is.
WorkInv ==
  /\ Injective(todo)
  /\ phase = "serving" => todo = << >> /\ stage = 4
  /\ phase = "down" /\ ~torn => todo = << >>
  /\ phase = "seeding" =>
       /\ rebuild = NoRebuild
       /\ \A m \in Elems(todo) : StageOf(m) = stage
       /\ step = 1 \/ (todo # << >> /\ step <= Len(Writes))
       /\ step > 1 => todo[1] \in Registered
       /\ step > 2 => todo[1] \in Elems(leaves)
       /\ step > 3 => todo[1] \in bucket.assets

\* An image is registered and logged after the first of its seed function.
OrderInv ==
  /\ \A s \in {DemoSeeds, ProviderSeeds} :
       /\ s[1] \notin index.image => Elems(s) \cap index.image = {}
       /\ conf.persistent /\ ~torn /\ s[1] \in index.image =>
            Elems(s) \ Elems(todo) \subseteq index.image \cap Elems(leaves)
       /\ phase = "seeding" /\ todo # << >> /\ todo[1] \in Elems(s) =>
            s[1] \in index.image \/ todo = s
  /\ phase = "seeding" =>
       \A m \in Elems(todo) \cap index.image : m = todo[1] /\ step > 1

\* Every image in the log is registered, and no manifest has two leaves.
LogInv ==
  /\ Injective(leaves)
  /\ Elems(leaves) \cap Images \subseteq index.image
  /\ phase = "seeding" /\ step = 2 /\ todo[1] \in Images => todo[1] \notin Elems(leaves)

\* What is finished is registered and logged; what was not begun is not registered in
\* an index that started empty.
DoneInv ==
  /\ phase # "down" =>
       \A m \in Done : m \in {AudioSeed, VideoSeed} \/ ~(conf.persistent /\ torn) =>
                         m \in Registered \cap Elems(leaves)
  /\ phase = "seeding" =>
       /\ index.audio \cup index.video \subseteq Begun
       /\ ~conf.persistent => index.image \subseteq Begun

\* A stored manifest has its asset, and its leaf if the log is durable.
BucketInv ==
  /\ conf.storage = "none" => bucket = EmptyBucket
  /\ bucket.manifests \subseteq bucket.assets
  /\ conf.persistent => bucket.manifests \subseteq Elems(leaves)

SignInv ==
  /\ conf.keySource = "configured" =>
       key = 0 /\ \A m \in DOMAIN bucket.signed : bucket.signed[m] = 0
  /\ ~conf.persistent /\ phase # "down" =>
       \A m \in Done \cap DOMAIN bucket.signed : bucket.signed[m] = key

\* A rebuild has restored, skipped or still to read what it listed, and the live log
\* has not lost what it saw of it.
RebuildInv ==
  /\ Cardinality(rebuild.listed) <= RebuildCap
  /\ rebuild.listed = {KeyOrder[i] : i \in rebuild.keys}
                        \cup Elems(rebuild.log) \cup rebuild.skipped
  /\ rebuild.pc \in {"root", "done"} => rebuild.keys = {}
  /\ phase = "serving" =>
       /\ rebuild.listed \subseteq bucket.manifests
       /\ rebuild.listed \cap Seed \subseteq Elems(leaves)
       /\ rebuild.pc \in {"root", "done"} =>
            Len(rebuild.root) <= Len(leaves) /\ rebuild.root = SubSeq(leaves, 1, Len(rebuild.root))
       /\ rebuild.pc = "done" /\ rebuild.match => rebuild.log = rebuild.root

SeedInv ==
  /\ TypeInv /\ WorkInv /\ OrderInv /\ LogInv /\ DoneInv /\ BucketInv /\ SignInv /\ RebuildInv

-----------------------------------------------------------------------------
\* Sequences, seeds and writes.

\* What appending does to the set of elements, and to a sequence without repetitions.
LEMMA AppendFacts ==
  ASSUME NEW S, NEW s \in Seq(S), NEW x \in S
  PROVE  /\ Append(s, x) \in Seq(S)
         /\ Elems(Append(s, x)) = Elems(s) \cup {x}
         /\ Injective(s) /\ x \notin Elems(s) => Injective(Append(s, x))
<1> DEFINE t == Append(s, x)
<1>1. t \in Seq(S) /\ Len(t) = Len(s) + 1 /\ DOMAIN t = 1..(Len(s) + 1)
  OBVIOUS
<1>2. \A i \in 1..Len(s) : t[i] = s[i]
  OBVIOUS
<1>3. t[Len(s) + 1] = x
  OBVIOUS
<1> HIDE DEF t
<1>4. DOMAIN s = 1..Len(s) /\ Len(s) \in Nat
  OBVIOUS
<1>5. DOMAIN t = DOMAIN s \cup {Len(s) + 1} /\ Len(s) + 1 \notin DOMAIN s
  BY <1>1, <1>4
<1>6. Elems(t) = Elems(s) \cup {x}
  <2>1. ASSUME NEW y \in Elems(t) PROVE y \in Elems(s) \cup {x}
    BY <1>2, <1>3, <1>4, <1>5, <2>1 DEF Elems
  <2>2. ASSUME NEW y \in Elems(s) \cup {x} PROVE y \in Elems(t)
    BY <1>2, <1>3, <1>4, <1>5, <2>2 DEF Elems
  <2> QED BY <2>1, <2>2
<1>7. ASSUME Injective(s), x \notin Elems(s) PROVE Injective(t)
  BY <1>2, <1>3, <1>4, <1>5, <1>7 DEF Injective, Elems
<1> QED BY <1>1, <1>6, <1>7 DEF t

\* The rest of a sequence without repetitions has all its elements but the first.
LEMMA TailFacts ==
  ASSUME NEW S, NEW s \in Seq(S), s # << >>, Injective(s)
  PROVE  /\ Tail(s) \in Seq(S) /\ Injective(Tail(s))
         /\ Elems(Tail(s)) = Elems(s) \ {s[1]}
         /\ s[1] \in Elems(s)
<1> DEFINE t == Tail(s)
<1>1. t \in Seq(S) /\ Len(t) = Len(s) - 1 /\ DOMAIN t = 1..(Len(s) - 1)
  OBVIOUS
<1>2. \A i \in 1..(Len(s) - 1) : t[i] = s[i + 1]
  OBVIOUS
<1>3. DOMAIN s = 1..Len(s) /\ Len(s) \in Nat /\ Len(s) > 0
  OBVIOUS
<1> HIDE DEF t
<1>4. Injective(t)
  <2> SUFFICES ASSUME NEW i \in DOMAIN t, NEW j \in DOMAIN t, t[i] = t[j] PROVE i = j
    BY DEF Injective
  <2>1. i \in 1..(Len(s) - 1) /\ j \in 1..(Len(s) - 1)
    BY <1>1
  <2>2. i + 1 \in DOMAIN s /\ j + 1 \in DOMAIN s /\ s[i + 1] = s[j + 1]
    BY <1>2, <1>3, <2>1
  <2>3. i + 1 = j + 1
    BY <2>2 DEF Injective
  <2> QED BY <2>1, <2>3
<1>5. Elems(t) = Elems(s) \ {s[1]}
  <2>1. ASSUME NEW y \in Elems(t) PROVE y \in Elems(s) \ {s[1]}
    <3>1. PICK i \in 1..(Len(s) - 1) : y = t[i]
      BY <1>1 DEF Elems
    <3>2. i + 1 \in DOMAIN s /\ 1 \in DOMAIN s /\ i + 1 # 1 /\ y = s[i + 1]
      BY <1>2, <1>3, <3>1
    <3> QED BY <3>2 DEF Elems, Injective
  <2>2. ASSUME NEW y \in Elems(s) \ {s[1]} PROVE y \in Elems(t)
    <3>1. PICK i \in 1..Len(s) : y = s[i]
      BY <1>3 DEF Elems
    <3>2. i # 1
      BY <3>1
    <3>3. i - 1 \in 1..(Len(s) - 1) /\ (i - 1) + 1 = i
      BY <1>3, <3>2
    <3>4. t[i - 1] = y
      BY <1>2, <3>1, <3>3
    <3> QED BY <1>1, <3>3, <3>4 DEF Elems
  <2> QED BY <2>1, <2>2
<1>6. s[1] \in Elems(s)
  BY <1>3 DEF Elems
<1> QED BY <1>1, <1>4, <1>5, <1>6 DEF t

\* Which seeds are of which function, and of which modality.
LEMMA StageFacts ==
  ASSUME SeedingAssumption
  PROVE  /\ \A m \in Seed : StageOf(m) \in 1..4
         /\ \A m \in Elems(DemoSeeds) : m \in Seed /\ StageOf(m) = 1
         /\ \A m \in Elems(ProviderSeeds) : m \in Seed /\ StageOf(m) = 4
         /\ AudioSeed \in Seed /\ StageOf(AudioSeed) = 2
         /\ VideoSeed \in Seed /\ StageOf(VideoSeed) = 3
         /\ \A m \in Seed : \/ m \in Elems(DemoSeeds) /\ m \in Images
                            \/ m \in Elems(ProviderSeeds) /\ m \in Images
                            \/ m = AudioSeed /\ m \notin Images
                            \/ m = VideoSeed /\ m \notin Images
         /\ \A m \in Images : Modality(m) = "image"
         /\ Modality(AudioSeed) = "audio" /\ Modality(VideoSeed) = "video"
BY DEF SeedingAssumption, StageOf, Seed, Images, Modality

\* The seeds of each function.
LEMMA SeedsOfStage ==
  ASSUME SeedingAssumption
  PROVE  /\ \A m \in Seed : StageOf(m) = 1 <=> m \in Elems(DemoSeeds)
         /\ \A m \in Seed : StageOf(m) = 2 <=> m = AudioSeed
         /\ \A m \in Seed : StageOf(m) = 3 <=> m = VideoSeed
         /\ \A m \in Seed : StageOf(m) = 4 <=> m \in Elems(ProviderSeeds)
<1>1. ASSUME NEW m \in Seed
      PROVE  \/ m \in Elems(DemoSeeds) /\ StageOf(m) = 1 /\ m \notin Elems(ProviderSeeds)
                /\ m # AudioSeed /\ m # VideoSeed
             \/ m \in Elems(ProviderSeeds) /\ StageOf(m) = 4 /\ m \notin Elems(DemoSeeds)
                /\ m # AudioSeed /\ m # VideoSeed
             \/ m = AudioSeed /\ StageOf(m) = 2 /\ m \notin Images /\ m # VideoSeed
             \/ m = VideoSeed /\ StageOf(m) = 3 /\ m \notin Images /\ m # AudioSeed
  BY StageFacts DEF SeedingAssumption, Seed, Images
<1>2. Elems(DemoSeeds) \subseteq Images /\ Elems(ProviderSeeds) \subseteq Images
  BY DEF Images
<1>3. 1 # 2 /\ 1 # 3 /\ 1 # 4 /\ 2 # 3 /\ 2 # 4 /\ 3 # 4
  OBVIOUS
<1> QED BY <1>1, <1>2, <1>3

\* The lists of seeds.
LEMMA SeedLists ==
  ASSUME SeedingAssumption
  PROVE  /\ \A s \in {DemoSeeds, ProviderSeeds} :
              s \in Seq(Seed) /\ s # << >> /\ Injective(s) /\ s[1] \in Elems(s)
         /\ \A m \in {AudioSeed, VideoSeed} :
              <<m>> \in Seq(Seed) /\ <<m>> # << >> /\ Injective(<<m>>) /\ Elems(<<m>>) = {m}
<1>1. ASSUME NEW s \in {DemoSeeds, ProviderSeeds}
      PROVE  s \in Seq(Seed) /\ s # << >> /\ Injective(s) /\ s[1] \in Elems(s)
  <2>1. s \in Seq(Elems(s)) /\ s # << >> /\ Injective(s) /\ Elems(s) \subseteq Seed
    BY DEF SeedingAssumption, Seed
  <2>2. s[1] \in Elems(s)
    BY <2>1
  <2>3. s \in Seq(Seed)
    BY <2>1
  <2> QED BY <2>1, <2>2, <2>3
<1>2. ASSUME NEW m \in {AudioSeed, VideoSeed}
      PROVE  <<m>> \in Seq(Seed) /\ <<m>> # << >> /\ Injective(<<m>>) /\ Elems(<<m>>) = {m}
  <2>1. m \in Seed
    BY DEF Seed
  <2>2. DOMAIN <<m>> = {1} /\ <<m>>[1] = m
    OBVIOUS
  <2> QED BY <2>1, <2>2 DEF Injective, Elems
<1> QED BY <1>1, <1>2

\* Two writes without object storage, five with it.
LEMMA WritesFacts ==
  /\ conf.storage = "none" => Len(Writes) = 2 /\ Writes[1] = "register" /\ Writes[2] = "append"
  /\ conf.storage # "none" =>
       /\ Len(Writes) = 5
       /\ Writes[1] = "register" /\ Writes[2] = "append" /\ Writes[3] = "asset"
       /\ Writes[4] = "manifest" /\ Writes[5] = "signature"
BY DEF Writes, WriteOrder

-----------------------------------------------------------------------------
\* The writes of a seed.

\* Where a write stands, and how the seed function goes on after it.
LEMMA WriteStep ==
  ASSUME SeedingAssumption, TypeInv, WorkInv, NEW k \in 1..5, Writing(WriteOrder[k]), Proceed
  PROVE  /\ phase = "seeding" /\ todo # << >> /\ step = k
         /\ conf.storage = "none" => k <= 2
         /\ todo[1] \in Elems(todo) /\ todo[1] \in Seed /\ StageOf(todo[1]) = stage
         /\ \/ step' = k + 1 /\ step' <= Len(Writes) /\ todo' = todo
            \/ /\ k \in {2, 5} /\ k = Len(Writes) /\ step' = 1 /\ todo' = Tail(todo)
               /\ Elems(todo') = Elems(todo) \ {todo[1]}
         /\ todo' \in Seq(Seed) /\ Injective(todo') /\ Elems(todo') \subseteq Elems(todo)
<1>1. phase = "seeding" /\ todo # << >> /\ Writes[step] = WriteOrder[k]
  BY DEF Writing
<1>2. step \in 1..5 /\ step <= Len(Writes)
  BY <1>1, WritesFacts DEF TypeInv, WorkInv
<1>3. step = k /\ (conf.storage = "none" => k <= 2)
  <2>1. /\ WriteOrder[1] = "register" /\ WriteOrder[2] = "append" /\ WriteOrder[3] = "asset"
        /\ WriteOrder[4] = "manifest" /\ WriteOrder[5] = "signature"
    BY DEF WriteOrder
  <2>2. CASE conf.storage = "none"
    <3>0. Len(Writes) = 2
      BY <2>2, WritesFacts
    <3>1. step \in {1, 2}
      BY <1>2, <3>0
    <3>2. k \in {1, 2, 3, 4, 5}
      OBVIOUS
    <3> QED BY <1>1, <2>1, <2>2, <3>1, <3>2, WritesFacts
  <2>3. CASE conf.storage # "none"
    <3>1. step \in {1, 2, 3, 4, 5} /\ k \in {1, 2, 3, 4, 5}
      BY <1>2
    <3> QED BY <1>1, <2>1, <2>3, <3>1, WritesFacts
  <2> QED BY <2>2, <2>3
<1>4. todo[1] \in Elems(todo) /\ Tail(todo) \in Seq(Seed) /\ Injective(Tail(todo))
      /\ Elems(Tail(todo)) = Elems(todo) \ {todo[1]}
  BY <1>1, TailFacts DEF TypeInv, WorkInv
<1>5. todo[1] \in Seed /\ StageOf(todo[1]) = stage
  <2>1. Elems(todo) \subseteq Seed
    BY DEF TypeInv, Elems
  <2> QED BY <1>1, <1>4, <2>1 DEF WorkInv
<1>6. CASE step < Len(Writes)
  <2>1. step' = step + 1 /\ todo' = todo
    BY <1>6 DEF Proceed
  <2>2. step + 1 <= Len(Writes)
    <3>1. Len(Writes) \in {2, 5}
      BY WritesFacts
    <3> QED BY <1>2, <1>6, <3>1
  <2>3. todo' \in Seq(Seed) /\ Injective(todo') /\ Elems(todo') \subseteq Elems(todo)
    BY <2>1 DEF TypeInv, WorkInv
  <2>4. step' = k + 1 /\ step' <= Len(Writes)
    BY <1>3, <2>1, <2>2
  <2> QED BY <1>1, <1>3, <1>4, <1>5, <2>1, <2>3, <2>4
<1>7. CASE ~(step < Len(Writes))
  <2>1. step' = 1 /\ todo' = Tail(todo)
    BY <1>7 DEF Proceed
  <2>2. step \in {2, 5} /\ step = Len(Writes)
    <3>1. PICK n \in {2, 5} : n = Len(Writes)
      BY WritesFacts
    <3>2. step <= n /\ ~(step < n)
      BY <1>2, <1>7, <3>1
    <3>3. step \in Nat /\ n \in Nat
      BY <1>2, <3>1
    <3>4. step = n
      BY <3>2, <3>3
    <3> QED BY <3>1, <3>4
  <2> QED BY <1>1, <1>3, <1>4, <1>5, <2>1, <2>2
<1> QED BY <1>6, <1>7

\* What the k-th write does to index, log and bucket.
Effect(k) ==
  LET m == todo[1]
  IN /\ index' \in Index /\ leaves' \in Seq(ManifestId) /\ bucket' \in Bucket
     /\ IF k = 1
          THEN /\ index'.image = index.image \cup ({m} \cap Images)
               /\ index'.audio \cup index'.video \subseteq index.audio \cup index.video \cup {m}
               /\ Registered' = Registered \cup {m}
          ELSE index' = index
     /\ IF k = 2
          THEN Injective(leaves') /\ Elems(leaves') = Elems(leaves) \cup {m}
          ELSE leaves' = leaves
     /\ k < 3 => bucket' = bucket
     /\ bucket'.assets = IF k = 3 THEN bucket.assets \cup {m} ELSE bucket.assets
     /\ bucket'.manifests = IF k = 4 THEN bucket.manifests \cup {m} ELSE bucket.manifests
     /\ IF k = 5
          THEN /\ DOMAIN bucket'.signed = DOMAIN bucket.signed \cup {m}
               /\ bucket'.signed[m] = key
               /\ \A x \in DOMAIN bucket.signed : x # m => bucket'.signed[x] = bucket.signed[x]
          ELSE bucket'.signed = bucket.signed

\* After the k-th write its seed is registered, from the second on logged, from the
\* third on stored, and nothing else changed.
LEMMA WriteFacts ==
  ASSUME SeedingAssumption, SeedInv,
         NEW k \in 1..5, Writing(WriteOrder[k]), Proceed, Effect(k)
  PROVE  /\ todo[1] \in Registered' /\ Registered' \subseteq Registered \cup {todo[1]}
         /\ Registered \subseteq Registered'
         /\ index.image \subseteq index'.image
         /\ index'.image \subseteq index.image \cup {todo[1]}
         /\ todo[1] \in Images => todo[1] \in index'.image
         /\ k > 1 => index' = index
         /\ Elems(leaves) \subseteq Elems(leaves')
         /\ Elems(leaves') \subseteq Elems(leaves) \cup {todo[1]}
         /\ k >= 2 => todo[1] \in Elems(leaves')
         /\ bucket.assets \subseteq bucket'.assets
         /\ k >= 3 => todo[1] \in bucket'.assets
<1> DEFINE m == todo[1]
<1>1. TypeInv /\ WorkInv
  BY DEF SeedInv
<1>2. phase = "seeding" /\ step = k /\ m \in Seed
  BY <1>1, WriteStep
<1>3. \/ k = 1 \/ k = 2 \/ k = 3 \/ k = 4 \/ k = 5
  OBVIOUS
<1>4. k > 1 => m \in Registered
  BY <1>1, <1>2 DEF WorkInv
<1>5. k > 2 => m \in Elems(leaves)
  BY <1>1, <1>2 DEF WorkInv
<1>6. k > 3 => m \in bucket.assets
  BY <1>1, <1>2 DEF WorkInv
<1>7. m \in Images /\ m \in Registered => m \in index.image
  BY <1>1 DEF TypeInv, Index, Registered, SeedingAssumption
<1>8. k # 1 => index' = index /\ Registered' = Registered
  BY DEF Effect, Registered
<1>9. k = 1 => /\ index'.image = index.image \cup ({m} \cap Images)
               /\ Registered' = Registered \cup {m}
  BY DEF Effect
<1>10. /\ m \in Registered' /\ Registered' \subseteq Registered \cup {m}
       /\ Registered \subseteq Registered'
       /\ index.image \subseteq index'.image
       /\ index'.image \subseteq index.image \cup {m}
       /\ m \in Images => m \in index'.image
       /\ k > 1 => index' = index
  <2>1. CASE k = 1
    BY <1>9, <2>1
  <2>2. CASE k # 1
    <3>1. m \in Registered
      BY <1>3, <1>4, <2>2
    <3> HIDE DEF m
    <3>2. QED
      BY <1>7, <1>8, <2>2, <3>1
  <2> QED BY <2>1, <2>2
<1>11. /\ Elems(leaves) \subseteq Elems(leaves')
       /\ Elems(leaves') \subseteq Elems(leaves) \cup {m}
       /\ k >= 2 => m \in Elems(leaves')
  <2>1. CASE k = 2
    BY <2>1 DEF Effect
  <2>2. CASE k # 2
    <3>1. leaves' = leaves /\ (k >= 2 => m \in Elems(leaves))
      BY <1>3, <1>5, <2>2 DEF Effect
    <3> QED BY <3>1
  <2> QED BY <2>1, <2>2
<1>12. bucket.assets \subseteq bucket'.assets /\ (k >= 3 => m \in bucket'.assets)
  <2>1. CASE k = 3
    BY <2>1 DEF Effect
  <2>2. CASE k # 3
    <3>1. bucket'.assets = bucket.assets /\ (k >= 3 => m \in bucket.assets)
      BY <1>3, <1>6, <2>2 DEF Effect
    <3> QED BY <3>1
  <2> QED BY <2>1, <2>2
<1> QED BY <1>10, <1>11, <1>12

\* What is finished after a write: what was, and the seed of the last write.
LEMMA WriteDone ==
  ASSUME SeedingAssumption, TypeInv, WorkInv,
         NEW k \in 1..5, Writing(WriteOrder[k]), Proceed
  PROVE  /\ Begun' = Begun /\ todo[1] \in Begun
         /\ Done' \subseteq Done \cup {todo[1]}
         /\ todo[1] \in Done' => k \in {2, 5}
<1>1. stage' = stage /\ stage \in 0..4
  BY DEF Proceed, TypeInv
<1>2. Begun' = Begun
  BY <1>1 DEF Begun
<1>3. todo[1] \in Begun
  <2>1. todo[1] \in Seed /\ StageOf(todo[1]) = stage
    BY WriteStep
  <2>2. stage <= stage
    BY <1>1
  <2> QED BY <2>1, <2>2 DEF Begun
<1>4. CASE todo' = todo
  <2>1. Done' = Done /\ todo[1] \notin Done
    BY <1>2, <1>4, WriteStep DEF Done
  <2> QED BY <1>2, <1>3, <2>1
<1>5. CASE k \in {2, 5} /\ Elems(todo') = Elems(todo) \ {todo[1]}
  BY <1>2, <1>3, <1>5 DEF Done
<1> QED BY <1>2, <1>3, <1>4, <1>5, WriteStep

\* A write of a seed is one step of the work that is left.
LEMMA WriteKeepsWork ==
  ASSUME SeedingAssumption, SeedInv,
         NEW k \in 1..5, Writing(WriteOrder[k]), Proceed, Effect(k)
  PROVE  TypeInv' /\ WorkInv'
<1>1. TypeInv /\ WorkInv
  BY DEF SeedInv
<1>2. /\ conf' = conf /\ phase' = phase /\ stage' = stage /\ key' = key
      /\ starts' = starts /\ torn' = torn /\ rebuild' = rebuild /\ Writes' = Writes
  BY DEF Proceed, Writes
<1>3. TypeInv'
  <2>1. step' \in 1..5
    <3>1. CASE step' = 1
      BY <3>1
    <3>2. CASE step' = k + 1 /\ step' <= Len(Writes)
      <4>1. PICK n \in {2, 5} : n = Len(Writes)
        BY WritesFacts
      <4>2. k + 1 <= n
        BY <3>2, <4>1
      <4>3. n = 2 \/ n = 5
        BY <4>1
      <4>4. k + 1 <= 5
        BY <4>2, <4>3
      <4> QED BY <3>2, <4>4
    <3> QED BY <1>1, <3>1, <3>2, WriteStep
  <2>2. todo' \in Seq(Seed)
    BY <1>1, WriteStep
  <2>3. index' \in Index /\ leaves' \in Seq(ManifestId) /\ bucket' \in Bucket
    BY DEF Effect
  <2> QED BY <1>1, <1>2, <2>1, <2>2, <2>3 DEF TypeInv
<1>4. WorkInv'
  <2>1. phase = "seeding" /\ todo # << >> /\ step = k
    BY <1>1, WriteStep
  <2>2. Injective(todo') /\ \A m \in Elems(todo') : StageOf(m) = stage
    BY <1>1, <2>1, WriteStep DEF WorkInv
  <2>3. CASE step' = 1
    BY <1>1, <1>2, <2>1, <2>2, <2>3 DEF WorkInv
  <2>4. CASE step' = k + 1 /\ step' <= Len(Writes) /\ todo' = todo
    <3>1. step' > 2 => todo[1] \in Elems(leaves')
      BY <2>4, WriteFacts
    <3>2. step' > 3 => todo[1] \in bucket'.assets
      BY <2>4, WriteFacts
    <3>3. todo[1] \in Registered'
      BY WriteFacts
    <3> QED BY <1>1, <1>2, <2>1, <2>2, <2>4, <3>1, <3>2, <3>3 DEF WorkInv
  <2> QED BY <1>1, <2>3, <2>4, WriteStep
<1> QED BY <1>3, <1>4

\* An image function registers its first manifest first.
LEMMA WriteKeepsOrder ==
  ASSUME SeedingAssumption, SeedInv,
         NEW k \in 1..5, Writing(WriteOrder[k]), Proceed, Effect(k)
  PROVE  OrderInv'
<1> DEFINE m == todo[1]
<1>1. TypeInv /\ WorkInv /\ OrderInv
  BY DEF SeedInv
<1>2. /\ conf' = conf /\ phase' = phase /\ stage' = stage /\ torn' = torn
  BY DEF Proceed
<1>3. /\ phase = "seeding" /\ todo # << >> /\ step = k
      /\ m \in Elems(todo) /\ m \in Seed /\ StageOf(m) = stage
      /\ Elems(todo') \subseteq Elems(todo)
      /\ todo' \in Seq(Seed)
  BY <1>1, WriteStep
<1>4. \/ step' = k + 1 /\ todo' = todo
      \/ k \in {2, 5} /\ Elems(todo') = Elems(todo) \ {m}
  BY <1>1, WriteStep
<1>5. /\ index.image \subseteq index'.image
      /\ index'.image \subseteq index.image \cup {m}
      /\ m \in Images => m \in index'.image
      /\ k > 1 => index' = index
      /\ Elems(leaves) \subseteq Elems(leaves')
      /\ k >= 2 => m \in Elems(leaves')
  BY WriteFacts
<1> HIDE DEF m
<1>6. ASSUME NEW s \in {DemoSeeds, ProviderSeeds}
      PROVE  /\ s[1] \notin index'.image => Elems(s) \cap index'.image = {}
             /\ conf.persistent /\ ~torn /\ s[1] \in index'.image =>
                  Elems(s) \ Elems(todo') \subseteq index'.image \cap Elems(leaves')
             /\ todo' # << >> /\ todo'[1] \in Elems(s) => s[1] \in index'.image \/ todo' = s
  <2>1. s[1] \in Elems(s) /\ Elems(s) \subseteq Images
    BY SeedLists DEF Images
  <2>2. s[1] \notin index.image => Elems(s) \cap index.image = {}
    BY <1>1 DEF OrderInv
  <2>3. m \in Elems(s) => s[1] \in index.image \/ todo = s
    BY <1>1, <1>3 DEF OrderInv, m
  <2>4. todo = s => m = s[1] /\ m \in index'.image
    BY <1>5, <2>1 DEF m
  <2>5. s[1] \notin index'.image => Elems(s) \cap index'.image = {}
    BY <1>5, <2>2, <2>3, <2>4
  <2>6. ASSUME conf.persistent, ~torn, s[1] \in index'.image, NEW x \in Elems(s) \ Elems(todo')
        PROVE  x \in index'.image \cap Elems(leaves')
    <3>1. CASE x \in Elems(todo)
      <4>1. x = m /\ k \in {2, 5}
        BY <1>4, <2>6, <3>1
      <4>2. k >= 2
        BY <4>1
      <4> QED BY <1>5, <2>1, <4>1, <4>2
    <3>2. CASE x \notin Elems(todo)
      <4>1. s[1] \in index.image
        BY <1>5, <2>1, <2>3, <2>6, <3>2
      <4>2. Elems(s) \ Elems(todo) \subseteq index.image \cap Elems(leaves)
        BY <1>1, <2>6, <4>1 DEF OrderInv
      <4> QED BY <1>5, <3>2, <4>2
    <3> QED BY <3>1, <3>2
  <2>7. ASSUME todo' # << >>, todo'[1] \in Elems(s)
        PROVE  s[1] \in index'.image \/ todo' = s
    <3>1. todo'[1] \in Elems(todo)
      <4>1. 1 \in DOMAIN todo'
        BY <1>3, <2>7
      <4>2. todo'[1] \in Elems(todo')
        BY <4>1 DEF Elems
      <4> QED BY <1>3, <4>2
    <3>2. StageOf(todo'[1]) = stage
      BY <1>1, <1>3, <3>1 DEF WorkInv
    <3>3. m \in Elems(s)
      <4>1. CASE s = DemoSeeds
        <5>1. stage = 1
          BY <2>7, <3>2, <4>1, StageFacts
        <5> QED BY <1>3, <4>1, <5>1, SeedsOfStage
      <4>2. CASE s = ProviderSeeds
        <5>1. stage = 4
          BY <2>7, <3>2, <4>2, StageFacts
        <5> QED BY <1>3, <4>2, <5>1, SeedsOfStage
      <4> QED BY <4>1, <4>2
    <3> QED BY <1>5, <2>3, <2>4, <3>3
  <2> QED BY <2>5, <2>6, <2>7
<1>7. ASSUME NEW x \in Elems(todo') \cap index'.image
      PROVE  x = todo'[1] /\ step' > 1
  <2>1. x = m /\ (x \in index.image => k > 1)
    BY <1>1, <1>3, <1>5, <1>7 DEF OrderInv, m
  <2>2. step' = k + 1 /\ todo' = todo
    BY <1>4, <1>7, <2>1
  <2>3. step' > 1
    BY <2>2
  <2> QED BY <2>1, <2>2, <2>3 DEF m
<1> QED BY <1>2, <1>6, <1>7 DEF OrderInv

\* An image that is to be logged is not in the log: it was not registered before.
LEMMA WriteKeepsLog ==
  ASSUME SeedingAssumption, SeedInv,
         NEW k \in 1..5, Writing(WriteOrder[k]), Proceed, Effect(k)
  PROVE  LogInv'
<1>1. TypeInv /\ WorkInv /\ OrderInv /\ LogInv
  BY DEF SeedInv
<1>2. Injective(leaves')
  BY <1>1 DEF Effect, LogInv
<1>3. Elems(leaves') \cap Images \subseteq index'.image
  BY <1>1, WriteFacts DEF LogInv
<1>4. ASSUME step' = 2, todo'[1] \in Images PROVE todo'[1] \notin Elems(leaves')
  <2>1. k + 1 = 2 /\ todo' = todo /\ step = k /\ todo[1] \in Elems(todo) /\ phase = "seeding"
    BY <1>1, <1>4, WriteStep
  <2>2. k = 1
    BY <2>1
  <2>3. leaves' = leaves
    BY <2>2 DEF Effect
  <2>4. todo[1] \notin index.image
    BY <1>1, <2>1, <2>2 DEF OrderInv
  <2> QED BY <1>1, <1>4, <2>1, <2>3, <2>4 DEF LogInv
<1> QED BY <1>2, <1>3, <1>4 DEF LogInv

\* The last write of a seed finishes it.
LEMMA WriteKeepsDone ==
  ASSUME SeedingAssumption, SeedInv,
         NEW k \in 1..5, Writing(WriteOrder[k]), Proceed, Effect(k)
  PROVE  DoneInv'
<1> DEFINE m == todo[1]
<1>1. TypeInv /\ WorkInv /\ DoneInv
  BY DEF SeedInv
<1>2. conf' = conf /\ phase' = phase /\ torn' = torn /\ phase = "seeding"
  BY <1>1, WriteStep DEF Proceed
<1>3. Begun' = Begun /\ m \in Begun /\ Done' \subseteq Done \cup {m}
      /\ (m \in Done' => k \in {2, 5})
  BY <1>1, WriteDone
<1>4. /\ m \in Registered' /\ Registered \subseteq Registered'
      /\ index'.image \subseteq index.image \cup {m}
      /\ Elems(leaves) \subseteq Elems(leaves')
      /\ k >= 2 => m \in Elems(leaves')
  BY WriteFacts
<1>5. index'.audio \cup index'.video \subseteq index.audio \cup index.video \cup {m}
  BY DEF Effect
<1> HIDE DEF m
<1>6. m \in Done' => m \in Elems(leaves')
  <2>1. k \in {2, 5} => k >= 2
    OBVIOUS
  <2> QED BY <1>3, <1>4, <2>1
<1>7. ASSUME NEW x \in Done', x \in {AudioSeed, VideoSeed} \/ ~(conf.persistent /\ torn)
      PROVE  x \in Registered' \cap Elems(leaves')
  BY <1>1, <1>2, <1>3, <1>4, <1>6, <1>7 DEF DoneInv
<1>8. index'.audio \cup index'.video \subseteq Begun'
  BY <1>1, <1>2, <1>3, <1>5 DEF DoneInv
<1>9. ~conf.persistent => index'.image \subseteq Begun'
  BY <1>1, <1>2, <1>3, <1>4 DEF DoneInv
<1> QED BY <1>2, <1>7, <1>8, <1>9 DEF DoneInv

\* The asset is stored before the manifest, both after the leaf, and the signature last.
LEMMA WriteKeepsBucket ==
  ASSUME SeedingAssumption, SeedInv,
         NEW k \in 1..5, Writing(WriteOrder[k]), Proceed, Effect(k)
  PROVE  BucketInv' /\ SignInv' /\ RebuildInv'
<1> DEFINE m == todo[1]
<1>1. TypeInv /\ WorkInv /\ BucketInv /\ SignInv /\ RebuildInv
  BY DEF SeedInv
<1>2. /\ conf' = conf /\ phase' = phase /\ key' = key /\ rebuild' = rebuild
      /\ phase = "seeding"
  BY <1>1, WriteStep DEF Proceed
<1>3. conf.storage = "none" => k <= 2
  BY <1>1, WriteStep
<1>4. /\ Elems(leaves) \subseteq Elems(leaves')
      /\ k >= 2 => m \in Elems(leaves')
      /\ bucket.assets \subseteq bucket'.assets
      /\ k >= 3 => m \in bucket'.assets
  BY WriteFacts
<1>5. /\ k < 3 => bucket' = bucket
      /\ bucket'.manifests \subseteq bucket.manifests \cup {m}
      /\ bucket'.manifests = bucket.manifests \/ k = 4
  BY DEF Effect
<1>6. \/ bucket'.signed = bucket.signed /\ k # 5
      \/ /\ k = 5
         /\ DOMAIN bucket'.signed = DOMAIN bucket.signed \cup {m}
         /\ bucket'.signed[m] = key
         /\ \A x \in DOMAIN bucket.signed : x # m => bucket'.signed[x] = bucket.signed[x]
  BY DEF Effect
<1>7. Done' \subseteq Done \cup {m} /\ (m \in Done' => k \in {2, 5})
  BY <1>1, WriteDone
<1>8. k = 2 /\ m \in Done' => conf.storage = "none"
  <2>1. ASSUME k = 2, m \in Done' PROVE conf.storage = "none"
    <3>1. m \notin Elems(todo')
      BY <2>1 DEF Done
    <3>2. k = Len(Writes)
      BY <1>1, <3>1, WriteStep
    <3> QED BY <2>1, <3>2, WritesFacts
  <2> QED BY <2>1
<1> HIDE DEF m
<1>9. BucketInv'
  <2>1. conf.storage = "none" => bucket' = EmptyBucket
    <3>1. k <= 2 => k < 3
      OBVIOUS
    <3> QED BY <1>1, <1>3, <1>5, <3>1 DEF BucketInv
  <2>2. k = 4 => m \in bucket'.assets /\ m \in Elems(leaves')
    <3>1. k = 4 => k >= 2 /\ k >= 3
      OBVIOUS
    <3> QED BY <1>4, <3>1
  <2>3. bucket'.manifests \subseteq bucket'.assets
    BY <1>1, <1>4, <1>5, <2>2 DEF BucketInv
  <2>4. conf.persistent => bucket'.manifests \subseteq Elems(leaves')
    BY <1>1, <1>4, <1>5, <2>2 DEF BucketInv
  <2> QED BY <1>2, <2>1, <2>3, <2>4 DEF BucketInv, EmptyBucket
<1>10. SignInv'
  <2>1. ASSUME conf.keySource = "configured"
        PROVE  key = 0 /\ \A x \in DOMAIN bucket'.signed : bucket'.signed[x] = 0
    BY <1>1, <1>6, <2>1 DEF SignInv
  <2>2. ASSUME ~conf.persistent, NEW x \in Done' \cap DOMAIN bucket'.signed
        PROVE  bucket'.signed[x] = key
    <3>1. CASE k = 5
      BY <1>1, <1>2, <1>6, <1>7, <2>2, <3>1 DEF SignInv
    <3>2. CASE k # 5
      <4>1. bucket'.signed = bucket.signed
        BY <1>6, <3>2
      <4>2. x \in Done
        <5>1. ASSUME x = m PROVE FALSE
          <6>1. conf.storage = "none"
            BY <1>7, <1>8, <2>2, <3>2, <5>1
          <6>2. DOMAIN bucket.signed = {}
            BY <1>1, <6>1 DEF BucketInv, EmptyBucket
          <6> QED BY <2>2, <4>1, <6>2
        <5> QED BY <1>7, <2>2, <5>1
      <4> QED BY <1>1, <1>2, <2>2, <4>1, <4>2 DEF SignInv
    <3> QED BY <3>1, <3>2
  <2> QED BY <1>2, <2>1, <2>2 DEF SignInv
<1>11. RebuildInv'
  BY <1>1, <1>2 DEF RebuildInv
<1> QED BY <1>9, <1>10, <1>11

\* A write with its effect keeps the invariant.
LEMMA WriteKeepsInv ==
  ASSUME SeedingAssumption, SeedInv,
         NEW k \in 1..5, Writing(WriteOrder[k]), Proceed, Effect(k)
  PROVE  SeedInv'
BY WriteKeepsWork, WriteKeepsOrder, WriteKeepsLog, WriteKeepsDone, WriteKeepsBucket DEF SeedInv

\* The seed that is written, and what the manifests are.
LEMMA WrittenSeed ==
  ASSUME SeedingAssumption, SeedInv, NEW k \in 1..5, Writing(WriteOrder[k]), Proceed
  PROVE  /\ todo[1] \in Seed /\ todo[1] \in ManifestId /\ step = k /\ phase = "seeding"
         /\ index \in Index /\ leaves \in Seq(ManifestId) /\ bucket \in Bucket
         /\ key \in Nat
BY WriteStep DEF SeedInv, TypeInv, ManifestId

\* Signatures in which m's is by k and the others are as they are.
IsSigned(sigs, m, k) ==
  /\ sigs \in Signatures
  /\ DOMAIN sigs = DOMAIN bucket.signed \cup {m}
  /\ sigs[m] = k
  /\ \A x \in DOMAIN bucket.signed : x # m => sigs[x] = bucket.signed[x]

\* What is in the bucket of a manifest is its own, signed by one key.
LEMMA SignedFacts ==
  ASSUME bucket.signed \in Signatures
  PROVE  \A m \in ManifestId, k \in Nat : IsSigned(Signed(m, k), m, k)
<1> SUFFICES ASSUME NEW m \in ManifestId, NEW k \in Nat
             PROVE  IsSigned(Signed(m, k), m, k)
  OBVIOUS
<1>1. PICK S \in SUBSET ManifestId : bucket.signed \in [S -> Nat]
  BY DEF Signatures
<1>2. DOMAIN bucket.signed = S /\ \A x \in S : bucket.signed[x] \in Nat
  BY <1>1
<1>3. S \cup {m} \in SUBSET ManifestId
  OBVIOUS
<1>4. Signed(m, k) \in [S \cup {m} -> Nat]
  BY <1>2 DEF Signed
<1>5. Signed(m, k) \in Signatures
  BY <1>3, <1>4 DEF Signatures
<1>6. /\ DOMAIN Signed(m, k) = S \cup {m}
      /\ Signed(m, k)[m] = k
      /\ \A x \in S : x # m => Signed(m, k)[x] = bucket.signed[x]
  BY <1>2 DEF Signed
<1> QED BY <1>2, <1>5, <1>6 DEF IsSigned

\* A seed is registered in its turn.
LEMMA RegisterKeepsInv ==
  ASSUME SeedingAssumption, SeedInv, Register
  PROVE  SeedInv'
<1>1. Writing(WriteOrder[1]) /\ Proceed
  BY DEF Register, WriteOrder
<1> DEFINE m == todo[1]
<1>2. m \in Seed /\ index \in Index /\ leaves \in Seq(ManifestId) /\ bucket \in Bucket
  BY <1>1, WrittenSeed
<1>3. index' = [index EXCEPT ![Modality(m)] = @ \cup {m}]
      /\ leaves' = leaves /\ bucket' = bucket
  BY DEF Register
<1> HIDE DEF m
<1>4. /\ index' \in Index
      /\ index'.image = index.image \cup ({m} \cap Images)
      /\ index'.audio \cup index'.video \subseteq index.audio \cup index.video \cup {m}
      /\ index'.image \cup index'.audio \cup index'.video
           = index.image \cup index.audio \cup index.video \cup {m}
  <2>1. CASE m \in Images
    <3>1. index' = [index EXCEPT !["image"] = @ \cup {m}]
      BY <1>3, <2>1, StageFacts
    <3>2. /\ index'.image = index.image \cup {m}
          /\ index'.audio = index.audio /\ index'.video = index.video
      BY <1>2, <3>1 DEF Index
    <3>3. index' \in Index
      BY <1>2, <2>1, <3>1 DEF Index
    <3> QED BY <2>1, <3>2, <3>3
  <2>2. CASE m = AudioSeed /\ m \notin Images
    <3>1. index' = [index EXCEPT !["audio"] = @ \cup {m}]
      BY <1>3, <2>2, StageFacts
    <3>2. /\ index'.audio = index.audio \cup {m}
          /\ index'.image = index.image /\ index'.video = index.video
      BY <1>2, <3>1 DEF Index
    <3>3. index' \in Index
      BY <1>2, <2>2, <3>1 DEF Index
    <3> QED BY <2>2, <3>2, <3>3
  <2>3. CASE m = VideoSeed /\ m \notin Images
    <3>1. index' = [index EXCEPT !["video"] = @ \cup {m}]
      BY <1>3, <2>3, StageFacts
    <3>2. /\ index'.video = index.video \cup {m}
          /\ index'.image = index.image /\ index'.audio = index.audio
      BY <1>2, <3>1 DEF Index
    <3>3. index' \in Index
      BY <1>2, <2>3, <3>1 DEF Index
    <3> QED BY <2>3, <3>2, <3>3
  <2> QED BY <1>2, <2>1, <2>2, <2>3, StageFacts
<1>5. Effect(1)
  BY <1>2, <1>3, <1>4 DEF Effect, Registered, m
<1> QED BY <1>1, <1>5, WriteKeepsInv

\* The leaf of a seed follows its registration.
LEMMA AppendKeepsInv ==
  ASSUME SeedingAssumption, SeedInv, AppendLeaf
  PROVE  SeedInv'
<1>1. Writing(WriteOrder[2]) /\ Proceed
  BY DEF AppendLeaf, WriteOrder
<1> DEFINE m == todo[1]
<1>2. /\ m \in Seed /\ m \in ManifestId /\ step = 2 /\ phase = "seeding"
      /\ index \in Index /\ leaves \in Seq(ManifestId) /\ bucket \in Bucket
  BY <1>1, WrittenSeed
<1>3. Injective(leaves) /\ (m \in Images => m \notin Elems(leaves))
  BY <1>2 DEF SeedInv, LogInv
<1>4. /\ leaves' = IF Modality(m) # "image" /\ m \in Elems(leaves) THEN leaves
                   ELSE Append(leaves, m)
      /\ index' = index /\ bucket' = bucket
  BY DEF AppendLeaf
<1> HIDE DEF m
<1>5. m \in Images <=> Modality(m) = "image"
  BY <1>2, StageFacts
<1>6. /\ leaves' \in Seq(ManifestId) /\ Injective(leaves')
      /\ Elems(leaves') = Elems(leaves) \cup {m}
  <2>1. CASE m \in Elems(leaves)
    <3>1. leaves' = leaves
      BY <1>3, <1>4, <1>5, <2>1
    <3> QED BY <1>2, <1>3, <2>1, <3>1
  <2>2. CASE m \notin Elems(leaves)
    <3>1. leaves' = Append(leaves, m)
      BY <1>4, <2>2
    <3> QED BY <1>2, <1>3, <2>2, <3>1, AppendFacts
  <2> QED BY <2>1, <2>2
<1>7. Effect(2)
  BY <1>2, <1>4, <1>6 DEF Effect, m
<1> QED BY <1>1, <1>7, WriteKeepsInv

\* The asset is stored before the manifest that names it.
LEMMA PutAssetKeepsInv ==
  ASSUME SeedingAssumption, SeedInv, PutAsset
  PROVE  SeedInv'
<1>1. Writing(WriteOrder[3]) /\ Proceed
  BY DEF PutAsset, WriteOrder
<1>2. /\ todo[1] \in ManifestId
      /\ index \in Index /\ leaves \in Seq(ManifestId) /\ bucket \in Bucket
  BY <1>1, WrittenSeed
<1>3. bucket' = [bucket EXCEPT !.assets = @ \cup {todo[1]}] /\ index' = index /\ leaves' = leaves
  BY DEF PutAsset
<1>4. bucket' \in Bucket
  BY <1>2, <1>3 DEF Bucket
<1>5. /\ bucket'.assets = bucket.assets \cup {todo[1]}
      /\ bucket'.manifests = bucket.manifests /\ bucket'.signed = bucket.signed
  BY <1>2, <1>3 DEF Bucket
<1>6. Effect(3)
  BY <1>2, <1>3, <1>4, <1>5 DEF Effect
<1> QED BY <1>1, <1>6, WriteKeepsInv

\* A manifest is stored under the signature of the key of this start.
LEMMA PutManifestKeepsInv ==
  ASSUME SeedingAssumption, SeedInv, PutManifest
  PROVE  SeedInv'
<1>1. Writing(WriteOrder[4]) /\ Proceed
  BY DEF PutManifest, WriteOrder
<1>2. /\ todo[1] \in ManifestId
      /\ index \in Index /\ leaves \in Seq(ManifestId) /\ bucket \in Bucket
  BY <1>1, WrittenSeed
<1>3. bucket' = [bucket EXCEPT !.manifests = @ \cup {todo[1]}] /\ index' = index /\ leaves' = leaves
  BY DEF PutManifest
<1>4. bucket' \in Bucket
  BY <1>2, <1>3 DEF Bucket
<1>5. /\ bucket'.manifests = bucket.manifests \cup {todo[1]}
      /\ bucket'.assets = bucket.assets /\ bucket'.signed = bucket.signed
  BY <1>2, <1>3 DEF Bucket
<1>6. Effect(4)
  BY <1>2, <1>3, <1>4, <1>5 DEF Effect
<1> QED BY <1>1, <1>6, WriteKeepsInv

\* A signature that is left alone is by the configured key.
LEMMA PutSignatureKeepsInv ==
  ASSUME SeedingAssumption, SeedInv, PutSignature
  PROVE  SeedInv'
<1>1. Writing(WriteOrder[5]) /\ Proceed
  BY DEF PutSignature, WriteOrder
<1> DEFINE m == todo[1]
<1>2. /\ m \in ManifestId /\ key \in Nat
      /\ index \in Index /\ leaves \in Seq(ManifestId) /\ bucket \in Bucket
  BY <1>1, WrittenSeed
<1>3. /\ bucket' = IF conf.keySource = "configured" /\ m \in DOMAIN bucket.signed THEN bucket
                   ELSE [bucket EXCEPT !.signed = Signed(m, key)]
      /\ index' = index /\ leaves' = leaves
  BY DEF PutSignature
<1> HIDE DEF m
<1>4. bucket.signed \in Signatures
  BY <1>2 DEF Bucket
<1>5. /\ bucket' \in Bucket
      /\ bucket'.assets = bucket.assets /\ bucket'.manifests = bucket.manifests
      /\ DOMAIN bucket'.signed = DOMAIN bucket.signed \cup {m}
      /\ bucket'.signed[m] = key
      /\ \A x \in DOMAIN bucket.signed : x # m => bucket'.signed[x] = bucket.signed[x]
  <2>1. CASE conf.keySource = "configured" /\ m \in DOMAIN bucket.signed
    <3>1. bucket' = bucket
      BY <1>3, <2>1
    <3>2. bucket.signed[m] = key
      BY <2>1 DEF SeedInv, SignInv
    <3> QED BY <1>2, <2>1, <3>1, <3>2
  <2>2. CASE ~(conf.keySource = "configured" /\ m \in DOMAIN bucket.signed)
    <3>1. bucket' = [bucket EXCEPT !.signed = Signed(m, key)]
      BY <1>3, <2>2
    <3>2. IsSigned(Signed(m, key), m, key)
      BY <1>2, <1>4, SignedFacts
    <3>3. bucket' \in Bucket
      BY <1>2, <3>1, <3>2 DEF Bucket, IsSigned
    <3>4. /\ bucket'.assets = bucket.assets /\ bucket'.manifests = bucket.manifests
          /\ bucket'.signed = Signed(m, key)
      BY <1>2, <3>1 DEF Bucket
    <3> QED BY <3>2, <3>3, <3>4 DEF IsSigned
  <2> QED BY <2>1, <2>2
<1>6. Effect(5)
  BY <1>2, <1>3, <1>5 DEF Effect, m
<1> QED BY <1>1, <1>6, WriteKeepsInv

-----------------------------------------------------------------------------
\* Starts and crashes.

\* What an empty log, bucket and rebuild are.
LEMMA EmptyFacts ==
  ASSUME SeedingAssumption
  PROVE  /\ << >> \in Seq(Seed) /\ << >> \in Seq(ManifestId) /\ << >> \in Seq(Images)
         /\ Elems(<< >>) = {} /\ Injective(<< >>)
         /\ EmptyBucket \in Bucket /\ DOMAIN EmptyBucket.signed = {}
         /\ EmptyBucket.assets = {} /\ EmptyBucket.manifests = {}
         /\ NoRebuild \in Rebuild
         /\ rebuild = NoRebuild /\ phase # "serving" => RebuildInv
<1>1. /\ << >> \in Seq(Seed) /\ << >> \in Seq(ManifestId) /\ << >> \in Seq(Images)
      /\ Elems(<< >>) = {} /\ Injective(<< >>)
  BY DEF Elems, Injective
<1>2. EmptyBucket \in Bucket /\ DOMAIN EmptyBucket.signed = {}
  <2>1. << >> \in [{} -> Nat] /\ DOMAIN << >> = {}
    OBVIOUS
  <2>2. << >> \in Signatures
    <3>1. {} \in SUBSET ManifestId
      OBVIOUS
    <3> QED BY <2>1, <3>1 DEF Signatures
  <2> QED BY <2>1, <2>2 DEF EmptyBucket, Bucket
<1>3. NoRebuild \in Rebuild
  BY <1>1 DEF NoRebuild, Rebuild
<1>4. Cardinality({}) = 0 /\ 0 <= RebuildCap
  BY FS_EmptySet DEF SeedingAssumption
<1>5. ASSUME rebuild = NoRebuild, phase # "serving" PROVE RebuildInv
  <2>1. /\ rebuild.listed = {} /\ rebuild.keys = {} /\ Elems(rebuild.log) = {}
        /\ rebuild.skipped = {} /\ rebuild.pc = "idle"
    BY <1>1, <1>5 DEF NoRebuild
  <2> QED BY <1>4, <1>5, <2>1 DEF RebuildInv
<1> QED BY <1>1, <1>2, <1>3, <1>5 DEF EmptyBucket

\* At first nothing is registered.
LEMMA InitKeepsInv ==
  ASSUME SeedingAssumption, Init
  PROVE  SeedInv
<1>1. /\ conf \in Conf /\ phase = "down" /\ stage = 0 /\ todo = << >> /\ step = 1
      /\ index = EmptyIndex /\ leaves = << >> /\ bucket = EmptyBucket
      /\ key = 0 /\ starts = 0 /\ torn = FALSE /\ rebuild = NoRebuild
  BY DEF Init, Conf
<1>2. TypeInv
  <2>1. index \in Index
    BY <1>1 DEF EmptyIndex, Index
  <2>2. /\ todo \in Seq(Seed) /\ leaves \in Seq(ManifestId) /\ bucket \in Bucket
        /\ rebuild \in Rebuild
    BY <1>1, EmptyFacts
  <2>3. stage \in 0..4 /\ step \in 1..5 /\ key \in Nat /\ starts \in Nat /\ torn \in BOOLEAN
    <3>1. stage \in 0..4
      BY <1>1
    <3>2. step \in 1..5
      BY <1>1
    <3>3. key \in Nat /\ starts \in Nat
      BY <1>1
    <3>4. torn \in BOOLEAN
      BY <1>1
    <3> QED BY <3>1, <3>2, <3>3, <3>4
  <2> QED BY <1>1, <2>1, <2>2, <2>3 DEF TypeInv
<1>3. WorkInv
  BY <1>1, EmptyFacts DEF WorkInv
<1>4. OrderInv
  BY <1>1 DEF OrderInv, EmptyIndex
<1>5. LogInv /\ DoneInv
  BY <1>1, EmptyFacts DEF LogInv, DoneInv
<1>6. BucketInv
  BY <1>1, EmptyFacts DEF BucketInv
<1>7. SignInv
  BY <1>1, EmptyFacts DEF SignInv
<1>8. RebuildInv
  BY <1>1, EmptyFacts
<1> QED BY <1>2, <1>3, <1>4, <1>5, <1>6, <1>7, <1>8 DEF SeedInv

\* A start keeps what is durable, and has begun nothing.
LEMMA StartKeepsInv ==
  ASSUME SeedingAssumption, SeedInv, Start
  PROVE  SeedInv'
<1>1. TypeInv /\ WorkInv /\ OrderInv /\ LogInv /\ BucketInv /\ SignInv
  BY DEF SeedInv
<1>2. /\ phase = "down" /\ phase' = "seeding" /\ stage' = 0 /\ todo' = << >> /\ step' = 1
      /\ starts' = starts + 1 /\ conf' = conf /\ torn' = torn /\ rebuild' = NoRebuild
      /\ index' = [EmptyIndex EXCEPT !.image = IF conf.persistent THEN index.image ELSE {}]
      /\ leaves' = IF conf.persistent THEN leaves ELSE << >>
      /\ bucket' = IF conf.storage = "b2" THEN bucket ELSE EmptyBucket
      /\ key' = IF conf.keySource = "ephemeral" THEN starts + 1 ELSE 0
  BY DEF Start
<1>3. /\ Elems(todo') = {} /\ Injective(todo') /\ Elems(<< >>) = {} /\ Injective(<< >>)
      /\ DOMAIN EmptyBucket.signed = {}
      /\ EmptyBucket.assets = {} /\ EmptyBucket.manifests = {}
  BY <1>2, EmptyFacts
<1>6. /\ index'.audio = {} /\ index'.video = {}
      /\ index'.image = IF conf.persistent THEN index.image ELSE {}
  BY <1>2 DEF EmptyIndex
<1>7. index' \in Index
  BY <1>1, <1>2 DEF EmptyIndex, Index, TypeInv
<1>8. TypeInv'
  <2>1. key' \in Nat /\ starts' \in Nat
    BY <1>1, <1>2 DEF TypeInv
  <2>2. /\ leaves' \in Seq(ManifestId) /\ bucket' \in Bucket /\ todo' \in Seq(Seed)
        /\ rebuild' \in Rebuild
    BY <1>1, <1>2, EmptyFacts DEF TypeInv
  <2> QED BY <1>1, <1>2, <1>7, <2>1, <2>2 DEF TypeInv
<1>9. Begun' = {} /\ Done' = {}
  <2>1. \A m \in Seed : StageOf(m) \in 1..4
    BY StageFacts
  <2>2. \A m \in Seed : ~(StageOf(m) <= 0)
    BY <2>1
  <2>3. Begun' = {}
    BY <1>2, <2>2 DEF Begun
  <2> QED BY <2>3 DEF Done
<1>10. WorkInv'
  BY <1>2, <1>3 DEF WorkInv
<1>11. OrderInv'
  <2>1. ASSUME NEW s \in {DemoSeeds, ProviderSeeds}
        PROVE  /\ s[1] \notin index'.image => Elems(s) \cap index'.image = {}
               /\ conf.persistent /\ ~torn /\ s[1] \in index'.image =>
                    Elems(s) \ Elems(todo') \subseteq index'.image \cap Elems(leaves')
    <3>1. CASE conf.persistent
      <4>1. ~torn => todo = todo'
        BY <1>1, <1>2 DEF WorkInv
      <4> QED BY <1>1, <1>2, <1>6, <3>1, <4>1 DEF OrderInv
    <3>2. CASE ~conf.persistent
      BY <1>6, <3>2
    <3> QED BY <3>1, <3>2
  <2> QED BY <1>2, <1>3, <2>1 DEF OrderInv
<1>12. LogInv'
  BY <1>1, <1>2, <1>3, <1>6 DEF LogInv
<1>13. DoneInv'
  BY <1>2, <1>6, <1>9 DEF DoneInv
<1>14. BucketInv'
  BY <1>1, <1>2, <1>3 DEF BucketInv
<1>15. SignInv'
  <2>1. conf.keySource = "configured" =>
          key' = 0 /\ \A m \in DOMAIN bucket'.signed : bucket'.signed[m] = 0
    <3>1. CASE conf.storage = "b2"
      BY <1>1, <1>2, <3>1 DEF SignInv
    <3>2. CASE conf.storage # "b2"
      BY <1>2, <1>3, <3>2
    <3> QED BY <3>1, <3>2
  <2> QED BY <1>2, <1>9, <2>1 DEF SignInv
<1>16. RebuildInv'
  <2>1. /\ Cardinality({}) = 0 /\ 0 <= RebuildCap
        /\ rebuild'.listed = {} /\ rebuild'.keys = {} /\ Elems(rebuild'.log) = {}
        /\ rebuild'.skipped = {} /\ rebuild'.pc = "idle"
    BY <1>2, <1>3, FS_EmptySet DEF NoRebuild, SeedingAssumption
  <2> QED BY <1>2, <2>1 DEF RebuildInv
<1> QED BY <1>8, <1>10, <1>11, <1>12, <1>13, <1>14, <1>15, <1>16 DEF SeedInv

\* A crash remembers that it cut a seed function short.
LEMMA CrashKeepsInv ==
  ASSUME SeedingAssumption, SeedInv, Crash
  PROVE  SeedInv'
<1>1. /\ TypeInv /\ WorkInv /\ OrderInv /\ LogInv /\ DoneInv /\ BucketInv /\ SignInv
      /\ RebuildInv
  BY DEF SeedInv
<1>2. /\ phase' = "down" /\ torn' = (torn \/ todo # << >>)
      /\ conf' = conf /\ stage' = stage /\ todo' = todo /\ step' = step /\ index' = index
      /\ leaves' = leaves /\ bucket' = bucket /\ key' = key /\ starts' = starts
      /\ rebuild' = rebuild
  BY DEF Crash
<1>3. TypeInv'
  BY <1>1, <1>2 DEF TypeInv
<1>4. WorkInv'
  BY <1>1, <1>2 DEF WorkInv
<1>5. OrderInv'
  BY <1>1, <1>2 DEF OrderInv
<1>6. LogInv' /\ DoneInv' /\ BucketInv' /\ SignInv'
  BY <1>1, <1>2 DEF LogInv, DoneInv, BucketInv, SignInv
<1>7. RebuildInv'
  BY <1>1, <1>2 DEF RebuildInv
<1> QED BY <1>3, <1>4, <1>5, <1>6, <1>7 DEF SeedInv

-----------------------------------------------------------------------------
\* The seed functions one after the other.

\* A seed function that returns at once was finished by an earlier start, unless it
\* was cut; one that does not has registered nothing.
LEMMA BeginKeepsInv ==
  ASSUME SeedingAssumption, SeedInv, NEW n \in 1..4, NEW seeds, Begin(n, seeds),
         \/ n = 1 /\ seeds = DemoSeeds
         \/ n = 2 /\ seeds = <<AudioSeed>>
         \/ n = 3 /\ seeds = <<VideoSeed>>
         \/ n = 4 /\ seeds = ProviderSeeds
  PROVE  SeedInv'
<1> DEFINE Known == seeds[1] \in index[Modality(seeds[1])]
<1>1. /\ TypeInv /\ WorkInv /\ OrderInv /\ LogInv /\ DoneInv /\ BucketInv /\ SignInv
      /\ RebuildInv
  BY DEF SeedInv
<1>2. /\ phase = "seeding" /\ todo = << >> /\ stage = n - 1 /\ stage' = n
      /\ todo' = IF Known THEN << >> ELSE seeds
      /\ conf' = conf /\ phase' = phase /\ step' = step /\ index' = index
      /\ leaves' = leaves /\ bucket' = bucket /\ key' = key /\ starts' = starts
      /\ torn' = torn /\ rebuild' = rebuild
  BY DEF Begin
<1>3. step = 1 /\ Elems(todo) = {}
  BY <1>1, <1>2, EmptyFacts DEF WorkInv
<1>4. seeds \in Seq(Seed) /\ seeds # << >> /\ Injective(seeds) /\ seeds[1] \in Elems(seeds)
  <2>1. CASE seeds \in {DemoSeeds, ProviderSeeds}
    BY <2>1, SeedLists
  <2>2. CASE seeds = <<AudioSeed>>
    BY <2>2, SeedLists
  <2>3. CASE seeds = <<VideoSeed>>
    BY <2>3, SeedLists
  <2> QED BY <2>1, <2>2, <2>3
<1>5. Elems(seeds) = {m \in Seed : StageOf(m) = n}
  <2>1. CASE n = 1 /\ seeds = DemoSeeds
    <3>1. Elems(DemoSeeds) \subseteq Seed
      BY DEF Seed
    <3> QED BY <2>1, <3>1, SeedsOfStage
  <2>2. CASE n = 2 /\ seeds = <<AudioSeed>>
    <3>1. Elems(seeds) = {AudioSeed}
      BY <2>2, SeedLists
    <3>2. AudioSeed \in Seed
      BY StageFacts
    <3> QED BY <2>2, <3>1, <3>2, SeedsOfStage
  <2>3. CASE n = 3 /\ seeds = <<VideoSeed>>
    <3>1. Elems(seeds) = {VideoSeed}
      BY <2>3, SeedLists
    <3>2. VideoSeed \in Seed
      BY StageFacts
    <3> QED BY <2>3, <3>1, <3>2, SeedsOfStage
  <2>4. CASE n = 4 /\ seeds = ProviderSeeds
    <3>1. Elems(ProviderSeeds) \subseteq Seed
      BY DEF Seed
    <3> QED BY <2>4, <3>1, SeedsOfStage
  <2> QED BY <2>1, <2>2, <2>3, <2>4
<1>6. /\ Begun' = Begun \cup Elems(seeds) /\ Begun \cap Elems(seeds) = {}
      /\ Done = Begun /\ Done' = Begun' \ Elems(todo')
  <2>1. \A m \in Seed : StageOf(m) \in 1..4
    BY StageFacts
  <2>2. \A m \in Seed : StageOf(m) <= n <=> StageOf(m) <= n - 1 \/ StageOf(m) = n
    BY <2>1
  <2>3. \A m \in Seed : ~(StageOf(m) <= n - 1 /\ StageOf(m) = n)
    BY <2>1
  <2>4. Begun = {m \in Seed : StageOf(m) <= n - 1} /\ Begun' = {m \in Seed : StageOf(m) <= n}
    BY <1>2 DEF Begun
  <2>5. Begun' = Begun \cup Elems(seeds) /\ Begun \cap Elems(seeds) = {}
    BY <1>5, <2>2, <2>3, <2>4
  <2> QED BY <1>3, <2>5 DEF Done
<1>7. \/ seeds \in {DemoSeeds, ProviderSeeds} /\ Elems(seeds) \subseteq Images
         /\ (Known <=> seeds[1] \in index.image)
      \/ Elems(seeds) \cap Images = {} /\ ~Known
  <2>1. CASE seeds \in {DemoSeeds, ProviderSeeds}
    <3>1. Elems(seeds) \subseteq Images
      BY <2>1 DEF Images
    <3> QED BY <1>4, <2>1, <3>1, StageFacts
  <2>2. CASE seeds = <<AudioSeed>>
    <3>1. Elems(seeds) = {AudioSeed} /\ seeds[1] = AudioSeed
      BY <2>2, SeedLists
    <3>2. Modality(seeds[1]) = "audio" /\ AudioSeed \notin Images
      BY <3>1, StageFacts DEF SeedingAssumption
    <3>3. AudioSeed \notin index.audio
      BY <1>1, <1>2, <1>6, <3>1 DEF DoneInv
    <3> QED BY <3>1, <3>2, <3>3
  <2>3. CASE seeds = <<VideoSeed>>
    <3>1. Elems(seeds) = {VideoSeed} /\ seeds[1] = VideoSeed
      BY <2>3, SeedLists
    <3>2. Modality(seeds[1]) = "video" /\ VideoSeed \notin Images
      BY <3>1, StageFacts DEF SeedingAssumption
    <3>3. VideoSeed \notin index.video
      BY <1>1, <1>2, <1>6, <3>1 DEF DoneInv
    <3> QED BY <3>1, <3>2, <3>3
  <2> QED BY <2>1, <2>2, <2>3
<1>8. Known => conf.persistent
  BY <1>1, <1>2, <1>4, <1>6, <1>7 DEF DoneInv
<1>9. ~Known => Elems(seeds) \cap index.image = {}
  <2>1. index.image \subseteq Images
    BY <1>1 DEF TypeInv, Index
  <2> QED BY <1>1, <1>7, <2>1 DEF OrderInv
<1> HIDE DEF Known
<1>10. \/ Known /\ todo' = << >> /\ Elems(todo') = {} /\ Injective(todo')
       \/ ~Known /\ todo' = seeds
  BY <1>2, EmptyFacts
<1>11. TypeInv'
  <2>1. todo' \in Seq(Seed)
    BY <1>4, <1>10, EmptyFacts
  <2>2. stage' \in 0..4
    BY <1>2
  <2> QED BY <1>1, <1>2, <2>1, <2>2 DEF TypeInv
<1>12. WorkInv'
  <2>1. Injective(todo') /\ \A m \in Elems(todo') : StageOf(m) = n
    BY <1>4, <1>5, <1>10
  <2>2. rebuild = NoRebuild
    BY <1>1, <1>2 DEF WorkInv
  <2> QED BY <1>2, <1>3, <2>1, <2>2 DEF WorkInv
<1>13. OrderInv'
  <2>1. ASSUME NEW s \in {DemoSeeds, ProviderSeeds}, todo' # << >>, todo'[1] \in Elems(s)
        PROVE  todo' = s
    <3>1. todo' = seeds /\ seeds[1] \in Elems(s) /\ StageOf(seeds[1]) = n
      BY <1>4, <1>5, <1>10, <2>1
    <3>2. CASE s = DemoSeeds
      <4>1. n = 1
        BY <3>1, <3>2, StageFacts
      <4> QED BY <3>1, <3>2, <4>1
    <3>3. CASE s = ProviderSeeds
      <4>1. n = 4
        BY <3>1, <3>3, StageFacts
      <4> QED BY <3>1, <3>3, <4>1
    <3> QED BY <3>2, <3>3
  <2>2. Elems(todo') \cap index.image = {}
    BY <1>9, <1>10
  <2> QED BY <1>1, <1>2, <1>3, <2>1, <2>2 DEF OrderInv
<1>14. LogInv'
  BY <1>1, <1>2, <1>3 DEF LogInv
<1>15. DoneInv'
  <2>1. ASSUME NEW m \in Done', m \in {AudioSeed, VideoSeed} \/ ~(conf.persistent /\ torn)
        PROVE  m \in Registered \cap Elems(leaves)
    <3>1. CASE m \in Begun
      BY <1>1, <1>2, <1>6, <2>1, <3>1 DEF DoneInv
    <3>2. CASE m \in Elems(seeds)
      <4>1. Known
        BY <1>6, <1>10, <2>1, <3>2
      <4>2. /\ seeds \in {DemoSeeds, ProviderSeeds} /\ Elems(seeds) \subseteq Images
            /\ seeds[1] \in index.image
        BY <1>7, <4>1
      <4>3. ~torn
        BY <1>8, <2>1, <3>2, <4>1, <4>2 DEF SeedingAssumption
      <4>4. m \in index.image /\ m \in Elems(leaves)
        BY <1>1, <1>3, <1>8, <3>2, <4>1, <4>2, <4>3 DEF OrderInv
      <4> QED BY <4>4 DEF Registered
    <3> QED BY <1>6, <2>1, <3>1, <3>2
  <2>2. Registered' = Registered
    BY <1>2 DEF Registered
  <2>3. /\ index.audio \cup index.video \subseteq Begun'
        /\ ~conf.persistent => index.image \subseteq Begun'
    BY <1>1, <1>2, <1>6 DEF DoneInv
  <2> QED BY <1>2, <2>1, <2>2, <2>3 DEF DoneInv
<1>16. BucketInv'
  BY <1>1, <1>2 DEF BucketInv
<1>17. SignInv'
  <2>1. ~conf.persistent => Done' = Done
    BY <1>6, <1>8, <1>10
  <2> QED BY <1>1, <1>2, <2>1 DEF SignInv
<1>18. RebuildInv'
  BY <1>1, <1>2 DEF RebuildInv
<1> QED BY <1>11, <1>12, <1>13, <1>14, <1>15, <1>16, <1>17, <1>18 DEF SeedInv

\* When all seed functions have returned all seeds are finished.
LEMMA AllDone ==
  ASSUME SeedingAssumption, todo = << >>, stage = 4
  PROVE  Done = Seed
<1>1. \A m \in Seed : StageOf(m) \in 1..4
  BY StageFacts
<1>2. \A m \in Seed : StageOf(m) <= 4
  BY <1>1
<1> QED BY <1>2, EmptyFacts DEF Done, Begun

\* The server answers when every seed is in place.
LEMMA ServeKeepsInv ==
  ASSUME SeedingAssumption, SeedInv, Serve
  PROVE  SeedInv'
<1>1. /\ TypeInv /\ WorkInv /\ OrderInv /\ LogInv /\ DoneInv /\ BucketInv /\ SignInv
      /\ RebuildInv
  BY DEF SeedInv
<1>2. /\ phase = "seeding" /\ todo = << >> /\ stage = 4 /\ phase' = "serving"
      /\ conf' = conf /\ stage' = stage /\ todo' = todo /\ step' = step /\ index' = index
      /\ leaves' = leaves /\ bucket' = bucket /\ key' = key /\ starts' = starts
      /\ torn' = torn /\ rebuild' = rebuild
  BY DEF Serve
<1>3. rebuild = NoRebuild
  BY <1>1, <1>2 DEF WorkInv
<1>4. Registered' = Registered /\ Done' = Done
  BY <1>2 DEF Registered, Done, Begun
<1>5. TypeInv'
  BY <1>1, <1>2 DEF TypeInv
<1>6. WorkInv' /\ OrderInv' /\ LogInv'
  BY <1>1, <1>2 DEF WorkInv, OrderInv, LogInv
<1>7. DoneInv' /\ BucketInv' /\ SignInv'
  BY <1>1, <1>2, <1>4 DEF DoneInv, BucketInv, SignInv
<1>8. RebuildInv'
  BY <1>1, <1>2, <1>3 DEF RebuildInv, NoRebuild
<1> QED BY <1>5, <1>6, <1>7, <1>8 DEF SeedInv

-----------------------------------------------------------------------------
\* While requests are served.

\* The log that a rebuild compares itself with grows, and what it read stays a prefix.
LEMMA PrefixGrows ==
  ASSUME NEW S, NEW s \in Seq(S), NEW x \in S, NEW n \in Nat, n <= Len(s)
  PROVE  n <= Len(Append(s, x)) /\ SubSeq(Append(s, x), 1, n) = SubSeq(s, 1, n)
<1> DEFINE t == Append(s, x)
<1>1. t \in Seq(S) /\ Len(t) = Len(s) + 1 /\ Len(s) \in Nat
  OBVIOUS
<1>2. \A i \in 1..Len(s) : t[i] = s[i]
  OBVIOUS
<1> HIDE DEF t
<1>3. n <= Len(t)
  BY <1>1
<1>4. /\ SubSeq(t, 1, n) \in Seq(S) /\ SubSeq(s, 1, n) \in Seq(S)
      /\ Len(SubSeq(t, 1, n)) = n /\ Len(SubSeq(s, 1, n)) = n
  BY <1>1, <1>3
<1>5. \A i \in 1..n : SubSeq(t, 1, n)[i] = SubSeq(s, 1, n)[i]
  BY <1>1, <1>2, <1>3
<1>6. SubSeq(t, 1, n) = SubSeq(s, 1, n)
  BY <1>4, <1>5, SeqEqual
<1> QED BY <1>3, <1>6 DEF t

\* A visitor's manifest is registered, logged and perhaps stored in one request.
LEMMA VisitKeepsInv ==
  ASSUME SeedingAssumption, SeedInv, NEW v \in Visitor, NEW stored \in BOOLEAN, Visit(v, stored)
  PROVE  SeedInv'
<1>1. /\ TypeInv /\ WorkInv /\ OrderInv /\ LogInv /\ DoneInv /\ BucketInv /\ SignInv
      /\ RebuildInv
  BY DEF SeedInv
<1>2. /\ phase = "serving" /\ v \notin index.image
      /\ index' = [index EXCEPT !.image = @ \cup {v}]
      /\ leaves' = Append(leaves, v)
      /\ bucket' = IF stored /\ conf.storage # "none"
                     THEN [assets |-> bucket.assets \cup {v},
                           manifests |-> bucket.manifests \cup {v},
                           signed |-> Signed(v, key)]
                     ELSE bucket
      /\ conf' = conf /\ phase' = phase /\ stage' = stage /\ todo' = todo /\ step' = step
      /\ key' = key /\ starts' = starts /\ torn' = torn /\ rebuild' = rebuild
  BY DEF Visit
<1>3. v \in Images /\ v \in ManifestId /\ v \notin Seed
  BY DEF Images, ManifestId, SeedingAssumption
<1>4. v \notin Elems(leaves)
  BY <1>1, <1>2, <1>3 DEF LogInv
<1>5. /\ leaves' \in Seq(ManifestId) /\ Injective(leaves')
      /\ Elems(leaves') = Elems(leaves) \cup {v}
  BY <1>1, <1>2, <1>3, <1>4, AppendFacts DEF TypeInv, LogInv
<1>6. /\ index' \in Index
      /\ index'.image = index.image \cup {v}
      /\ index'.audio = index.audio /\ index'.video = index.video
  <2>1. index \in Index
    BY <1>1 DEF TypeInv
  <2> QED BY <1>2, <1>3, <2>1 DEF Index
<1>7. /\ bucket' \in Bucket
      /\ bucket.manifests \subseteq bucket'.manifests
      /\ bucket'.manifests \subseteq bucket'.assets
      /\ bucket'.manifests \subseteq bucket.manifests \cup {v}
      /\ DOMAIN bucket'.signed \subseteq DOMAIN bucket.signed \cup {v}
      /\ \A m \in DOMAIN bucket'.signed :
           \/ bucket'.signed[m] = key
           \/ (m \in DOMAIN bucket.signed /\ bucket'.signed[m] = bucket.signed[m])
      /\ conf.storage = "none" => bucket' = bucket
  <2>1. bucket \in Bucket /\ key \in Nat /\ bucket.manifests \subseteq bucket.assets
    BY <1>1 DEF TypeInv, BucketInv
  <2>2. CASE stored /\ conf.storage # "none"
    <3>1. /\ bucket'.assets = bucket.assets \cup {v}
          /\ bucket'.manifests = bucket.manifests \cup {v}
          /\ bucket'.signed = Signed(v, key)
      BY <1>2, <2>2
    <3>2. bucket.signed \in Signatures
      BY <2>1 DEF Bucket
    <3>3. IsSigned(Signed(v, key), v, key)
      BY <1>3, <2>1, <3>2, SignedFacts
    <3>4. bucket' \in Bucket
      <4>1. bucket.assets \cup {v} \in SUBSET ManifestId
            /\ bucket.manifests \cup {v} \in SUBSET ManifestId
        BY <1>3, <2>1 DEF Bucket
      <4> QED BY <1>2, <2>2, <3>3, <4>1 DEF Bucket, IsSigned
    <3> QED BY <2>1, <2>2, <3>1, <3>3, <3>4 DEF IsSigned
  <2>3. CASE ~(stored /\ conf.storage # "none")
    <3>1. bucket' = bucket
      BY <1>2, <2>3
    <3> QED BY <2>1, <3>1
  <2> QED BY <2>2, <2>3
<1>8. Registered \subseteq Registered' /\ Done' = Done
  BY <1>2, <1>6 DEF Registered, Done, Begun
<1>9. TypeInv'
  BY <1>1, <1>2, <1>5, <1>6, <1>7 DEF TypeInv
<1>10. WorkInv'
  BY <1>1, <1>2 DEF WorkInv
<1>11. OrderInv'
  <2>1. \A s \in {DemoSeeds, ProviderSeeds} : s[1] \in Elems(s) /\ Elems(s) \subseteq Seed
    BY SeedLists DEF Seed
  <2>2. \A s \in {DemoSeeds, ProviderSeeds} : v # s[1] /\ v \notin Elems(s)
    BY <1>3, <2>1
  <2> QED BY <1>1, <1>2, <1>5, <1>6, <2>2 DEF OrderInv
<1>12. LogInv'
  BY <1>1, <1>2, <1>5, <1>6 DEF LogInv
<1>13. DoneInv'
  BY <1>1, <1>2, <1>5, <1>8 DEF DoneInv
<1>14. BucketInv'
  BY <1>1, <1>2, <1>5, <1>7 DEF BucketInv, EmptyBucket
<1>15. SignInv'
  BY <1>1, <1>2, <1>7, <1>8 DEF SignInv
<1>16. RebuildInv'
  <2>1. ASSUME rebuild.pc \in {"root", "done"}
        PROVE  /\ Len(rebuild.root) <= Len(leaves')
               /\ rebuild.root = SubSeq(leaves', 1, Len(rebuild.root))
    <3>1. /\ Len(rebuild.root) <= Len(leaves)
          /\ rebuild.root = SubSeq(leaves, 1, Len(rebuild.root))
      BY <1>1, <1>2, <2>1 DEF RebuildInv
    <3>2. leaves \in Seq(ManifestId) /\ rebuild.root \in Seq(ManifestId)
      BY <1>1 DEF TypeInv, Rebuild
    <3>3. Len(rebuild.root) \in Nat
      BY <3>2
    <3>4. /\ Len(rebuild.root) <= Len(Append(leaves, v))
          /\ SubSeq(Append(leaves, v), 1, Len(rebuild.root)) = SubSeq(leaves, 1, Len(rebuild.root))
      BY <1>3, <3>1, <3>2, <3>3, PrefixGrows
    <3> QED BY <1>2, <3>1, <3>4
  <2>2. /\ rebuild.listed \subseteq bucket'.manifests
        /\ rebuild.listed \cap Seed \subseteq Elems(leaves')
    BY <1>1, <1>2, <1>5, <1>7 DEF RebuildInv
  <2> QED BY <1>1, <1>2, <2>1, <2>2 DEF RebuildInv
<1> QED BY <1>9, <1>10, <1>11, <1>12, <1>13, <1>14, <1>15, <1>16 DEF SeedInv

\* Every set of naturals that is not empty has a least member, ...
LEMMA LeastMember ==
  ASSUME NEW T, T \subseteq Nat, T # {}
  PROVE  \E n \in T : \A m \in T : n <= m
<1>1. OpToRel(<, Nat) = {p \in Nat \X Nat : p[1] < p[2]}
  BY DEF OpToRel
<1> DEFINE R == {p \in Nat \X Nat : p[1] < p[2]}
<1>2. IsWellFoundedOn(R, Nat)
  BY <1>1, NatLessThanWellFounded
<1>3. \A x, y \in Nat : <<x, y>> \in R <=> x < y
  OBVIOUS
<1> HIDE DEF R
<1>4. PICK n \in T : \A m \in T : ~ <<m, n>> \in R
  BY <1>2, WFMin
<1>5. ASSUME NEW m \in T PROVE n <= m
  <2>1. ~(m < n)
    BY <1>3, <1>4
  <2> QED BY <2>1
<1> QED BY <1>5

\* ... and if it is bounded a greatest.
LEMMA GreatestMember ==
  ASSUME NEW n \in Nat, NEW T, T \subseteq 1..n, T # {}
  PROVE  \E i \in T : \A j \in T : j <= i
<1> DEFINE U == {k \in Nat : \E j \in T : k = n - j}
<1>1. U # {}
  <2>1. PICK j \in T : TRUE
    OBVIOUS
  <2>2. n - j \in Nat
    OBVIOUS
  <2> QED BY <2>2
<1>2. PICK k \in U : \A l \in U : k <= l
  BY <1>1, LeastMember
<1>3. PICK i \in T : k = n - i
  BY <1>2
<1>4. ASSUME NEW j \in T PROVE j <= i
  <2>1. n - j \in U
    OBVIOUS
  <2>2. n - i <= n - j
    BY <1>2, <1>3, <2>1
  <2> QED BY <2>2
<1> QED BY <1>4

\* A rebuild lists at most as many manifests as its cap.
LEMMA ListedIsCapped ==
  ASSUME SeedingAssumption
  PROVE  /\ Cardinality({KeyOrder[i] : i \in ListedKeys}) <= RebuildCap
         /\ ListedKeys \subseteq DOMAIN KeyOrder
         /\ \A i \in ListedKeys : KeyOrder[i] \in bucket.manifests /\ KeyOrder[i] \in ManifestId
<1> DEFINE N == Len(KeyOrder)
           Listed == {KeyOrder[i] : i \in ListedKeys}
           f == [i \in ListedKeys |-> KeyOrder[i]]
<1>1. N \in Nat /\ DOMAIN KeyOrder = 1..N /\ \A i \in 1..N : KeyOrder[i] \in ManifestId
  BY DEF SeedingAssumption
<1>2. StoredKeys \subseteq 1..N /\ ListedKeys \subseteq StoredKeys
      /\ \A i \in StoredKeys : KeyOrder[i] \in bucket.manifests
  BY <1>1 DEF StoredKeys, ListedKeys
<1>3. IsFiniteSet(StoredKeys)
  <2>1. IsFiniteSet(1..N)
    BY <1>1, FS_Interval
  <2> HIDE DEF N
  <2> QED BY <1>2, <2>1, FS_Subset
<1>4. IsFiniteSet(ListedKeys) /\ Cardinality(ListedKeys) \in Nat
  BY <1>2, <1>3, FS_Subset, FS_CardinalityType
<1>5. f \in Surjection(ListedKeys, Listed)
  BY DEF Surjection
<1>6. Cardinality(Listed) <= Cardinality(ListedKeys) /\ Cardinality(Listed) \in Nat
  BY <1>4, <1>5, FS_Surjection, FS_CardinalityType
<1>7. RebuildCap \in Nat
  BY DEF SeedingAssumption
<1>8. Cardinality(ListedKeys) <= RebuildCap
  <2>1. CASE ListedKeys = {}
    BY <1>7, <2>1, FS_EmptySet
  <2>2. CASE ListedKeys # {}
    <3>1. PICK i \in ListedKeys : \A j \in ListedKeys : j <= i
      BY <1>1, <1>2, <2>2, GreatestMember
    <3> DEFINE upTo == {j \in StoredKeys : j <= i}
    <3>2. ListedKeys \subseteq upTo /\ upTo \subseteq StoredKeys
      BY <1>2, <3>1
    <3>3. IsFiniteSet(upTo) /\ Cardinality(upTo) \in Nat
      BY <1>3, <3>2, FS_Subset, FS_CardinalityType
    <3>4. Cardinality(ListedKeys) <= Cardinality(upTo)
      BY <3>2, <3>3, FS_Subset
    <3>5. Cardinality(upTo) <= RebuildCap
      BY <3>1 DEF ListedKeys
    <3> HIDE DEF upTo
    <3> QED BY <1>4, <1>7, <3>3, <3>4, <3>5
  <2> QED BY <2>1, <2>2
<1> HIDE DEF Listed
<1>9. Cardinality(Listed) <= RebuildCap
  BY <1>4, <1>6, <1>7, <1>8
<1> QED BY <1>1, <1>2, <1>9 DEF Listed

\* A step of a rebuild changes nothing else.
LEMMA RebuildStepKeepsInv ==
  ASSUME SeedInv, NEW r, RebuildStep(r), r \in Rebuild,
         /\ Cardinality(r.listed) <= RebuildCap
         /\ r.listed = {KeyOrder[i] : i \in r.keys} \cup Elems(r.log) \cup r.skipped
         /\ r.pc \in {"root", "done"} => r.keys = {}
         /\ r.listed \subseteq bucket.manifests
         /\ r.listed \cap Seed \subseteq Elems(leaves)
         /\ r.pc \in {"root", "done"} =>
              Len(r.root) <= Len(leaves) /\ r.root = SubSeq(leaves, 1, Len(r.root))
         /\ r.pc = "done" /\ r.match => r.log = r.root
  PROVE  SeedInv'
<1>1. /\ TypeInv /\ WorkInv /\ OrderInv /\ LogInv /\ DoneInv /\ BucketInv /\ SignInv
      /\ RebuildInv
  BY DEF SeedInv
<1>2. /\ phase = "serving" /\ rebuild' = r
      /\ conf' = conf /\ phase' = phase /\ stage' = stage /\ todo' = todo /\ step' = step
      /\ index' = index /\ leaves' = leaves /\ bucket' = bucket
      /\ key' = key /\ starts' = starts /\ torn' = torn
  BY DEF RebuildStep
<1>3. Registered' = Registered /\ Done' = Done
  BY <1>2 DEF Registered, Done, Begun
<1>4. TypeInv'
  BY <1>1, <1>2 DEF TypeInv
<1>5. WorkInv' /\ OrderInv' /\ LogInv'
  BY <1>1, <1>2 DEF WorkInv, OrderInv, LogInv
<1>6. DoneInv' /\ BucketInv' /\ SignInv'
  BY <1>1, <1>2, <1>3 DEF DoneInv, BucketInv, SignInv
<1>7. RebuildInv'
  BY <1>2 DEF RebuildInv
<1> QED BY <1>4, <1>5, <1>6, <1>7 DEF SeedInv

\* A rebuild starts with the keys the bucket lists.
LEMMA BeginRebuildKeepsInv ==
  ASSUME SeedingAssumption, SeedInv, BeginRebuild
  PROVE  SeedInv'
<1> DEFINE listed == {KeyOrder[i] : i \in ListedKeys}
           r == [NoRebuild EXCEPT !.pc = "walk", !.keys = ListedKeys, !.listed = listed]
<1>1. RebuildStep(r) /\ phase = "serving"
  BY DEF BeginRebuild, RebuildStep
<1>2. /\ Cardinality(listed) <= RebuildCap /\ ListedKeys \subseteq DOMAIN KeyOrder
      /\ listed \subseteq bucket.manifests /\ listed \subseteq ManifestId
  BY ListedIsCapped
<1>3. listed \cap Seed \subseteq Elems(leaves)
  <2>1. DoneInv /\ WorkInv /\ BucketInv
    BY DEF SeedInv
  <2>2. CASE conf.persistent
    BY <1>2, <2>1, <2>2 DEF BucketInv
  <2>3. CASE ~conf.persistent
    <3>1. Done = Seed
      BY <1>1, <2>1, AllDone DEF WorkInv
    <3> QED BY <1>1, <2>1, <2>3, <3>1 DEF DoneInv
  <2> QED BY <2>2, <2>3
<1>4. /\ r.pc = "walk" /\ r.keys = ListedKeys /\ r.listed = listed
      /\ r.log = << >> /\ r.skipped = {} /\ r.root = << >> /\ r.match = FALSE
  BY DEF NoRebuild
<1>5. r \in Rebuild
  <2>1. NoRebuild \in Rebuild
    BY EmptyFacts
  <2> QED BY <1>2, <2>1 DEF Rebuild
<1> HIDE DEF r
<1>6. Elems(r.log) = {}
  BY <1>4, EmptyFacts
<1> QED BY <1>1, <1>2, <1>3, <1>4, <1>5, <1>6, RebuildStepKeepsInv

\* Each manifest is restored or, if it is no image, skipped.
LEMMA RebuildOneKeepsInv ==
  ASSUME SeedingAssumption, SeedInv, RebuildOne
  PROVE  SeedInv'
<1> DEFINE i == FirstOf(rebuild.keys)
           m == KeyOrder[i]
           r == IF m \in bucket.assets /\ m \in Images
                  THEN [rebuild EXCEPT !.keys = @ \ {i}, !.log = Append(@, m)]
                  ELSE [rebuild EXCEPT !.keys = @ \ {i}, !.skipped = @ \cup {m}]
<1>1. /\ rebuild.pc = "walk" /\ rebuild.keys # {} /\ RebuildStep(r) /\ phase = "serving"
  BY DEF RebuildOne, RebuildStep
<1>2. TypeInv /\ BucketInv /\ RebuildInv
  BY DEF SeedInv
<1>3. /\ rebuild \in Rebuild
      /\ rebuild.keys \subseteq DOMAIN KeyOrder /\ rebuild.log \in Seq(Images)
      /\ rebuild.skipped \subseteq ManifestId \ Images
  BY <1>2 DEF TypeInv, Rebuild
<1>4. i \in rebuild.keys
  <2>1. rebuild.keys \subseteq Nat
    BY <1>3 DEF SeedingAssumption
  <2>2. \E j \in rebuild.keys : \A l \in rebuild.keys : j <= l
    BY <1>1, <2>1, LeastMember
  <2> QED BY <2>2 DEF FirstOf
<1>5. /\ Cardinality(rebuild.listed) <= RebuildCap
      /\ rebuild.listed =
           {KeyOrder[j] : j \in rebuild.keys} \cup Elems(rebuild.log) \cup rebuild.skipped
      /\ rebuild.listed \subseteq bucket.manifests
      /\ rebuild.listed \cap Seed \subseteq Elems(leaves)
  BY <1>1, <1>2 DEF RebuildInv
<1>6. m \in bucket.assets /\ m \in ManifestId
  <2>1. m \in rebuild.listed
    BY <1>4, <1>5
  <2>2. rebuild.listed \subseteq ManifestId
    BY <1>3 DEF Rebuild
  <2> QED BY <1>2, <1>5, <2>1, <2>2 DEF BucketInv
<1> HIDE DEF i
<1>7. {KeyOrder[j] : j \in rebuild.keys} = {KeyOrder[j] : j \in rebuild.keys \ {i}} \cup {m}
  BY <1>4
<1> HIDE DEF m
<1>8. /\ r \in Rebuild /\ r.pc = "walk"
      /\ r.listed = rebuild.listed /\ r.keys = rebuild.keys \ {i}
      /\ Elems(r.log) \cup r.skipped = Elems(rebuild.log) \cup rebuild.skipped \cup {m}
  <2>1. CASE m \in Images
    <3>1. r = [rebuild EXCEPT !.keys = @ \ {i}, !.log = Append(@, m)]
      BY <1>6, <2>1
    <3>2. /\ Append(rebuild.log, m) \in Seq(Images)
          /\ Elems(Append(rebuild.log, m)) = Elems(rebuild.log) \cup {m}
      BY <1>3, <2>1, AppendFacts
    <3> HIDE DEF r
    <3>3. r \in Rebuild
      BY <1>3, <3>1, <3>2 DEF Rebuild
    <3>4. /\ r.pc = rebuild.pc /\ r.listed = rebuild.listed /\ r.keys = rebuild.keys \ {i}
          /\ r.log = Append(rebuild.log, m) /\ r.skipped = rebuild.skipped
      BY <1>3, <3>1 DEF Rebuild
    <3> QED BY <1>1, <3>2, <3>3, <3>4
  <2>2. CASE m \notin Images
    <3>1. r = [rebuild EXCEPT !.keys = @ \ {i}, !.skipped = @ \cup {m}]
      BY <2>2
    <3> HIDE DEF r
    <3>2. r \in Rebuild
      BY <1>3, <1>6, <2>2, <3>1 DEF Rebuild
    <3>3. /\ r.pc = rebuild.pc /\ r.listed = rebuild.listed /\ r.keys = rebuild.keys \ {i}
          /\ r.log = rebuild.log /\ r.skipped = rebuild.skipped \cup {m}
      BY <1>3, <3>1 DEF Rebuild
    <3> QED BY <1>1, <3>2, <3>3
  <2> QED BY <2>1, <2>2
<1> HIDE DEF r
<1>9. r.listed = {KeyOrder[j] : j \in r.keys} \cup Elems(r.log) \cup r.skipped
  <2>1. r.listed = {KeyOrder[j] : j \in r.keys}
                     \cup {m} \cup Elems(rebuild.log) \cup rebuild.skipped
    BY <1>5, <1>7, <1>8
  <2> QED BY <1>8, <2>1
<1>10. r.pc \notin {"root", "done"}
  BY <1>8
<1> QED BY <1>1, <1>5, <1>8, <1>9, <1>10, RebuildStepKeepsInv

\* The live root is read when the walk over the keys is over.
LEMMA ReadLiveRootKeepsInv ==
  ASSUME SeedingAssumption, SeedInv, ReadLiveRoot
  PROVE  SeedInv'
<1> DEFINE r == [rebuild EXCEPT !.pc = "root", !.root = leaves]
<1>1. /\ rebuild.pc = "walk" /\ rebuild.keys = {} /\ RebuildStep(r) /\ phase = "serving"
  BY DEF ReadLiveRoot, RebuildStep
<1>2. rebuild \in Rebuild /\ leaves \in Seq(ManifestId) /\ RebuildInv
  BY DEF SeedInv, TypeInv
<1>3. r \in Rebuild
  BY <1>2 DEF Rebuild
<1>4. /\ r.pc = "root" /\ r.root = leaves /\ r.keys = rebuild.keys /\ r.listed = rebuild.listed
      /\ r.log = rebuild.log /\ r.skipped = rebuild.skipped
  BY <1>2 DEF Rebuild
<1> HIDE DEF r
<1>5. Len(leaves) <= Len(leaves) /\ leaves = SubSeq(leaves, 1, Len(leaves))
  BY <1>2
<1> QED BY <1>1, <1>2, <1>3, <1>4, <1>5, RebuildStepKeepsInv DEF RebuildInv

\* The rebuilt log is compared with the live one.
LEMMA EndRebuildKeepsInv ==
  ASSUME SeedingAssumption, SeedInv, EndRebuild
  PROVE  SeedInv'
<1> DEFINE r == [rebuild EXCEPT !.pc = "done",
                   !.match = rebuild.log = rebuild.root /\ Len(rebuild.log) = Len(leaves)]
<1>1. /\ rebuild.pc = "root" /\ RebuildStep(r) /\ phase = "serving"
  BY DEF EndRebuild, RebuildStep
<1>2. rebuild \in Rebuild /\ leaves \in Seq(ManifestId) /\ RebuildInv
  BY DEF SeedInv, TypeInv
<1>3. r \in Rebuild
  BY <1>2, Zenon DEF Rebuild
<1>4. /\ r.pc = "done" /\ r.root = rebuild.root /\ r.keys = rebuild.keys
      /\ r.listed = rebuild.listed /\ r.log = rebuild.log /\ r.skipped = rebuild.skipped
      /\ r.match => rebuild.log = rebuild.root
  BY <1>2 DEF Rebuild
<1> HIDE DEF r
<1> QED BY <1>1, <1>2, <1>3, <1>4, RebuildStepKeepsInv DEF RebuildInv

\* A rebuild leaves nothing behind.
LEMMA DismissKeepsInv ==
  ASSUME SeedingAssumption, SeedInv, DismissRebuild
  PROVE  SeedInv'
<1>1. RebuildStep(NoRebuild)
  BY DEF DismissRebuild
<1>2. NoRebuild \in Rebuild
  BY EmptyFacts
<1>3. /\ NoRebuild.pc = "idle" /\ NoRebuild.keys = {} /\ NoRebuild.listed = {}
      /\ NoRebuild.skipped = {} /\ Elems(NoRebuild.log) = {}
  BY EmptyFacts DEF NoRebuild
<1>4. Cardinality({}) = 0 /\ 0 <= RebuildCap
  BY FS_EmptySet DEF SeedingAssumption
<1> QED BY <1>1, <1>2, <1>3, <1>4, RebuildStepKeepsInv

-----------------------------------------------------------------------------
\* The theorems.

\* In every reachable state the seeds, the log and the bucket are in step.
THEOREM SeedInvariant == Spec => []SeedInv
<1>1. Init => SeedInv
  BY SeedingAssumption, InitKeepsInv
<1>2. SeedInv /\ [Next]_vars => SeedInv'
  <2> SUFFICES ASSUME SeedInv, [Next]_vars PROVE SeedInv'
    OBVIOUS
  <2>1. CASE Start \/ Serve \/ Crash
    BY <2>1, SeedingAssumption, StartKeepsInv, ServeKeepsInv, CrashKeepsInv
  <2>2. CASE SeedDemo
    BY <2>2, SeedingAssumption, BeginKeepsInv DEF SeedDemo
  <2>3. CASE SeedAudioDemo
    BY <2>3, SeedingAssumption, BeginKeepsInv DEF SeedAudioDemo
  <2>4. CASE SeedVideoDemo
    BY <2>4, SeedingAssumption, BeginKeepsInv DEF SeedVideoDemo
  <2>5. CASE SeedProviders
    BY <2>5, SeedingAssumption, BeginKeepsInv DEF SeedProviders
  <2>6. CASE Register \/ AppendLeaf \/ PutAsset \/ PutManifest \/ PutSignature
    BY <2>6, SeedingAssumption, RegisterKeepsInv, AppendKeepsInv, PutAssetKeepsInv,
       PutManifestKeepsInv, PutSignatureKeepsInv
  <2>7. CASE \E v \in Visitor, stored \in BOOLEAN : Visit(v, stored)
    BY <2>7, SeedingAssumption, VisitKeepsInv
  <2>8. CASE BeginRebuild \/ RebuildOne \/ ReadLiveRoot \/ EndRebuild \/ DismissRebuild
    BY <2>8, SeedingAssumption, BeginRebuildKeepsInv, RebuildOneKeepsInv, ReadLiveRootKeepsInv,
       EndRebuildKeepsInv, DismissKeepsInv
  <2>9. CASE UNCHANGED vars
    <3>1. /\ conf' = conf /\ phase' = phase /\ stage' = stage /\ todo' = todo /\ step' = step
          /\ index' = index /\ leaves' = leaves /\ bucket' = bucket /\ key' = key
          /\ starts' = starts /\ torn' = torn /\ rebuild' = rebuild
      BY <2>9 DEF vars
    <3>2. Registered' = Registered /\ Done' = Done /\ Begun' = Begun /\ Writes' = Writes
      BY <3>1 DEF Registered, Done, Begun, Writes
    <3>3. TypeInv' /\ WorkInv' /\ OrderInv' /\ LogInv'
      BY <3>1, <3>2 DEF SeedInv, TypeInv, WorkInv, OrderInv, LogInv
    <3>4. DoneInv' /\ BucketInv' /\ SignInv' /\ RebuildInv'
      BY <3>1, <3>2 DEF SeedInv, DoneInv, BucketInv, SignInv, RebuildInv
    <3> QED BY <3>3, <3>4 DEF SeedInv
  <2> QED BY <2>1, <2>2, <2>3, <2>4, <2>5, <2>6, <2>7, <2>8, <2>9 DEF Next
<1> QED BY <1>1, <1>2, PTL DEF Spec

\* The types of the state, and the cap of a rebuild however many manifests are stored.
THEOREM SeedTypeCorrect == Spec => []SeedTypeOK
<1>1. SeedInv => SeedTypeOK
  <2> SUFFICES ASSUME SeedInv PROVE SeedTypeOK
    OBVIOUS
  <2>1. TypeInv /\ RebuildInv
    BY DEF SeedInv
  <2>2. Elems(todo) \subseteq Seed /\ Elems(leaves) \subseteq ManifestId
    BY <2>1 DEF TypeInv, Elems
  <2>3. /\ index.image \subseteq Images
        /\ index.audio \subseteq {AudioSeed} /\ index.video \subseteq {VideoSeed}
    BY <2>1 DEF TypeInv, Index
  <2>4. bucket.assets \cup bucket.manifests \cup DOMAIN bucket.signed \subseteq ManifestId
    <3>1. /\ bucket.assets \subseteq ManifestId /\ bucket.manifests \subseteq ManifestId
          /\ bucket.signed \in Signatures
      BY <2>1 DEF TypeInv, Bucket
    <3>2. DOMAIN bucket.signed \subseteq ManifestId
      BY <3>1 DEF Signatures
    <3> QED BY <3>1, <3>2
  <2>5. Cardinality(rebuild.listed) <= RebuildCap
    BY <2>1 DEF RebuildInv
  <2>6. Elems(rebuild.log) \cap rebuild.skipped = {}
    <3>1. rebuild.log \in Seq(Images) /\ rebuild.skipped \cap Images = {}
      BY <2>1 DEF TypeInv, Rebuild
    <3>2. Elems(rebuild.log) \subseteq Images
      BY <3>1 DEF Elems
    <3> QED BY <3>1, <3>2
  <2>7. phase \in {"down", "seeding", "serving"} /\ stage \in 0..4 /\ step \in 1..Len(WriteOrder)
    <3>1. Len(WriteOrder) = 5
      BY DEF WriteOrder
    <3> QED BY <2>1, <3>1 DEF TypeInv
  <2> QED BY <2>2, <2>3, <2>4, <2>5, <2>6, <2>7 DEF SeedTypeOK
<1> QED BY <1>1, SeedInvariant, PTL

\* However often the process starts, and wherever a start is cut, no manifest gets a
\* second leaf; and the seeds are all there when requests are served, unless a cut start
\* left a durable index with the first of them.
THEOREM SeedsOnlyOnce == Spec => []SeededExactlyOnce
<1>1. SeedInv => SeededExactlyOnce
  <2> SUFFICES ASSUME SeedInv PROVE SeededExactlyOnce
    OBVIOUS
  <2>1. Injective(leaves) /\ WorkInv /\ DoneInv
    BY DEF SeedInv, LogInv
  <2>2. ASSUME phase = "serving"
        PROVE  /\ {AudioSeed, VideoSeed} \subseteq Registered \cap Elems(leaves)
               /\ ~(conf.persistent /\ torn) => Seed \subseteq Registered \cap Elems(leaves)
    <3>1. Done = Seed
      BY <2>1, <2>2, SeedingAssumption, AllDone DEF WorkInv
    <3>2. {AudioSeed, VideoSeed} \subseteq Seed
      BY DEF Seed
    <3> QED BY <2>1, <2>2, <3>1, <3>2 DEF DoneInv
  <2> QED BY <2>1, <2>2 DEF SeededExactlyOnce
<1> QED BY <1>1, SeedInvariant, PTL

\* A rebuild restores the images it listed, and the order of the writes makes every
\* restored seed one of the live log, for every interleaving of crashes and visitors.
THEOREM RebuildIsComplete == Spec => []RebuildRestores
<1>1. SeedInv => RebuildRestores
  <2> SUFFICES ASSUME SeedInv, phase = "serving", rebuild.pc = "done"
               PROVE  /\ Elems(rebuild.log) = rebuild.listed \cap Images
                      /\ Elems(rebuild.log) \cap Seed \subseteq Elems(leaves)
                      /\ rebuild.match => rebuild.log = SubSeq(leaves, 1, Len(rebuild.log))
    BY DEF RebuildRestores
  <2>1. TypeInv /\ RebuildInv
    BY DEF SeedInv
  <2>2. rebuild.log \in Seq(Images) /\ rebuild.skipped \cap Images = {}
    BY <2>1 DEF TypeInv, Rebuild
  <2>3. Elems(rebuild.log) \subseteq Images
    BY <2>2 DEF Elems
  <2>4. rebuild.listed = Elems(rebuild.log) \cup rebuild.skipped
    BY <2>1 DEF RebuildInv
  <2>5. Elems(rebuild.log) = rebuild.listed \cap Images
    BY <2>2, <2>3, <2>4
  <2>6. Elems(rebuild.log) \cap Seed \subseteq Elems(leaves)
    BY <2>1, <2>5 DEF RebuildInv
  <2>7. rebuild.match => rebuild.log = SubSeq(leaves, 1, Len(rebuild.log))
    BY <2>1 DEF RebuildInv
  <2> QED BY <2>5, <2>6, <2>7
<1> QED BY <1>1, SeedInvariant, PTL

\* What a start has seeded it has signed with its own key, so the stored signatures of
\* the seeds verify whenever the key is configured or every start seeds again.
THEOREM StoredSignaturesVerify == Spec => []SignaturesVerify
<1>1. SeedInv => SignaturesVerify
  <2> SUFFICES ASSUME SeedInv, phase = "serving",
                      conf.keySource = "configured" \/ ~conf.persistent,
                      NEW m \in DOMAIN bucket.signed \cap Seed
               PROVE  bucket.signed[m] = key
    BY DEF SignaturesVerify, SignedByTheKey
  <2>1. WorkInv /\ SignInv
    BY DEF SeedInv
  <2>2. Done = Seed
    BY <2>1, SeedingAssumption, AllDone DEF WorkInv
  <2> QED BY <2>1, <2>2 DEF SignInv
<1> QED BY <1>1, SeedInvariant, PTL
=============================================================================
