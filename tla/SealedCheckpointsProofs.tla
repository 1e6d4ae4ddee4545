----------------------- MODULE SealedCheckpointsProofs -----------------------
(***************************************************************************)
(* Proofs about SealedCheckpoints, for every value of its constants.       *)
(*                                                                         *)
(* The chain of sealed heads holds because of what lies between two seals: *)
(* no sealed epoch is ahead of the size a _signed_head call has read, nor  *)
(* of the head in the cache.  SealInv says so, on top of the log's IInv.   *)
(***************************************************************************)
EXTENDS SealedCheckpoints, TransparencyLogProofs

BucketType ==
  /\ sealed \in [0..MaxLeaves -> SignedHead \cup {NoHead}]
  /\ audit \in [pc : {"idle", "sized", "proved"}, prior : Nat, root : Seq(Leaf)]

\* The cached head commits to stored leaves only.
CacheStored == Lossless /\ cache # NoHead => IsPrefix(cache.root, store)

\* So does every sealed one, and to no fewer than its key says.
SealsStored ==
  Lossless =>
    \A e \in Sealed :
      /\ sealed[e].size = Len(sealed[e].root)
      /\ e <= sealed[e].size
      /\ IsPrefix(sealed[e].root, store)
      /\ up => IsPrefix(sealed[e].root, tree)

SealsOrdered ==
  Lossless =>
    \A e, f \in Sealed : e <= f => IsPrefix(sealed[e].root, sealed[f].root)

\* No sealed object is ahead of what the event loop is about to sign or seal.
SealsBehind ==
  Lossless =>
    \A e \in Sealed :
      /\ loop.pc # "idle" => e <= loop.size
      /\ cache # NoHead => e <= cache.epoch /\ IsPrefix(sealed[e].root, cache.root)

\* The root a consistency proof starts from is the log's at the prior size.
AuditInv ==
  /\ audit.pc # "idle" => up /\ audit.prior <= Len(tree)
  /\ audit.pc = "proved" => Len(audit.root) = audit.prior /\ IsPrefix(audit.root, tree)

SealInv ==
  /\ IInv
  /\ BucketType
  /\ CacheStored
  /\ SealsStored
  /\ SealsOrdered
  /\ SealsBehind
  /\ AuditInv
-----------------------------------------------------------------------------
\* What a step of the log can do to what the seals depend on.
LEMMA LogStepEffects ==
  ASSUME IInv, [Next]_vars
  PROVE  /\ lossy \subseteq lossy'
         /\ \A s \in Seq(Leaf) : IsPrefix(s, store) => IsPrefix(s, store')
         /\ \/ ~up'
            \/ ~up /\ tree' = store /\ store' = store
            \/ up /\ up' /\ Len(tree) <= Len(tree')
                  /\ \A s \in Seq(Leaf) : IsPrefix(s, tree) => IsPrefix(s, tree')
         /\ \/ cache' = cache
            \/ cache' = NoHead
            \/ SignHead
         /\ \/ loop' = loop
            \/ loop'.pc = "idle"
            \/ loop'.size = loop.size /\ loop.pc # "idle"
            \/ up /\ loop'.size = Len(tree) /\ UNCHANGED <<store, tree, up, cache>>
<1> USE DEF IInv, TypeOK
<1>1. ASSUME UNCHANGED <<store, tree, up>>
      PROVE  /\ \A s \in Seq(Leaf) : IsPrefix(s, store) => IsPrefix(s, store')
             /\ \/ ~up'
                \/ up /\ up' /\ Len(tree) <= Len(tree')
                      /\ \A s \in Seq(Leaf) : IsPrefix(s, tree) => IsPrefix(s, tree')
  BY <1>1
<1>2. ASSUME NEW w \in Worker, NEW leaf \in Leaf, AppendToTree(w, leaf)
      PROVE  /\ UNCHANGED <<store, lossy, cache, loop>>
             /\ up /\ up' /\ Len(tree) <= Len(tree')
             /\ \A s \in Seq(Leaf) : IsPrefix(s, tree) => IsPrefix(s, tree')
  BY <1>2, PrefixAppend DEF AppendToTree, durable, serving, history
<1>3. ASSUME NEW w \in Worker, StoreLeaf(w) \/ StoreRaises(w)
      PROVE  /\ UNCHANGED <<tree, up, cache, loop>>
             /\ lossy \subseteq lossy'
             /\ \A s \in Seq(Leaf) : IsPrefix(s, store) => IsPrefix(s, store')
  <2>1. job[w].leaf \in Leaf
    BY <1>3, JobFields DEF StoreLeaf, StoreRaises
  <2>2. UNCHANGED <<tree, up, cache, loop>> /\ lossy \subseteq lossy'
    BY <1>3 DEF StoreLeaf, StoreRaises, serving, history
  <2>3. store' = store \/ store' = Append(store, job[w].leaf)
    BY <1>3 DEF StoreLeaf, StoreRaises
  <2>4. QED
    BY <2>1, <2>2, <2>3, PrefixAppend
<1>4. ASSUME NEW w \in Worker, NEW m \in ManifestId, LookUpIndex(w, m)
      PROVE  UNCHANGED <<store, tree, up, lossy, cache, loop>>
  BY <1>4 DEF LookUpIndex, durable, serving, history
<1>5. ASSUME NEW w \in Worker, SetIndex(w) \/ SignProof(w) \/ SignConsistency(w)
      PROVE  UNCHANGED <<store, tree, up, lossy, cache, loop>>
  BY <1>5
  DEF SetIndex, SignProof, SignConsistency, durable, memory, serving, history
<1>6. CASE \E w \in Worker : Work(w)
  BY <1>1, <1>2, <1>3, <1>4, <1>5, <1>6 DEF Work
<1>7. CASE ReadSize
  <2>1. UNCHANGED <<store, tree, up, lossy, cache>> /\ up
    BY <1>7 DEF ReadSize, durable, memory, history
  <2>2. loop'.size = Len(tree)
    BY <1>7 DEF ReadSize, NoCall
  <2>3. QED
    BY <1>1, <2>1, <2>2
<1>8. CASE ReadRoot
  <2>1. UNCHANGED <<store, tree, up, lossy, cache>>
    BY <1>8 DEF ReadRoot, durable, memory, history
  <2>2. loop'.size = loop.size /\ loop.pc # "idle"
    BY <1>8 DEF ReadRoot, Call
  <2>3. QED
    BY <1>1, <2>1, <2>2
<1>9. CASE ServeCached \/ SignHead
  <2>1. UNCHANGED <<store, tree, up, lossy>> /\ (cache' = cache \/ SignHead)
    BY <1>9 DEF ServeCached, SignHead, durable, memory, history
  <2>2. loop'.pc = "idle"
    BY <1>9 DEF ServeCached, SignHead, NoCall
  <2>3. QED
    BY <1>1, <2>1, <2>2
<1>10. CASE Crash
  BY <1>10 DEF Crash, NoCall, durable, history
<1>11. CASE Restart
  BY <1>11 DEF Restart, serving, history
<1>12. CASE UNCHANGED vars
  BY <1>1, <1>12 DEF vars, durable, memory, serving, history
<1>13. QED
  BY <1>6, <1>7, <1>8, <1>9, <1>10, <1>11, <1>12 DEF Next, Serve

\* A head is signed with the lock free: it is what the tree and the store hold.
LEMMA SignedIsStored ==
  ASSUME IInv, SignHead
  PROVE  /\ up
         /\ UNCHANGED <<store, tree, up, lossy>>
         /\ cache' = [epoch |-> loop.size, size |-> Len(tree), root |-> tree]
         /\ loop.pc # "idle"
         /\ Lossless => tree = store
<1>1. up
  BY DEF IInv, DownInv, SignHead, NoCall
<1>2. owner = NoWorker /\ loop.pc # "idle" /\ UNCHANGED <<store, tree, up, lossy>>
  BY DEF SignHead, durable, memory
<1>3. Lossless => tree = store
  BY <1>1, <1>2 DEF IInv, MirrorInv, Clean, Lossless
<1>4. QED
  BY <1>1, <1>2, <1>3 DEF SignHead, Checkpoint

\* A sealed object is a head, of a size that is a number.
LEMMA SealedIsHead ==
  ASSUME BucketType, NEW e \in Sealed
  PROVE  /\ e \in Nat
         /\ sealed[e] \in SignedHead
         /\ sealed[e].size \in Nat /\ sealed[e].epoch \in Nat
         /\ sealed[e].root \in Seq(Leaf)
BY DEF BucketType, Sealed, SignedHead

\* The inductive invariant holds of the empty log with no seal.
THEOREM SealInitEstablishes == SealInit => SealInv
<1> SUFFICES ASSUME SealInit PROVE SealInv
  OBVIOUS
<1>1. IInv
  BY InitEstablishes DEF SealInit
<1>2. Sealed = {}
  BY DEF SealInit, Sealed
<1>3. BucketType
  BY DEF SealInit, BucketType, NoAudit
<1>4. CacheStored
  BY DEF SealInit, Init, CacheStored
<1>5. SealsStored /\ SealsOrdered /\ SealsBehind
  BY <1>2 DEF SealsStored, SealsOrdered, SealsBehind
<1>6. AuditInv
  BY DEF SealInit, AuditInv, NoAudit
<1>7. QED
  BY <1>1, <1>3, <1>4, <1>5, <1>6 DEF SealInv

\* A step of the log: the bucket does not change, what it is compared with does.
LEMMA LogStepSeals ==
  ASSUME SealInv, [Next]_vars, sealed' = sealed,
         audit' = audit \/ audit' = NoAudit,
         ~up' => audit' = NoAudit
  PROVE  SealInv'
<1> USE DEF SealInv
<1>1. IInv'
  BY NextPreserves
<1>2. Sealed' = Sealed
  BY DEF Sealed
<1>3. Lossless' => Lossless
  BY LogStepEffects DEF Lossless
<1>4. BucketType'
  <2>1. << >> \in Seq(Leaf)
    OBVIOUS
  <2>2. NoAudit \in [pc : {"idle", "sized", "proved"}, prior : Nat, root : Seq(Leaf)]
    BY <2>1 DEF NoAudit
  <2>3. QED
    BY <2>2 DEF BucketType
<1>5. store \in Seq(Leaf) /\ tree \in Seq(Leaf)
  BY DEF IInv, TypeOK
<1>6. CacheStored'
  <2> SUFFICES ASSUME Lossless, cache' # NoHead PROVE IsPrefix(cache'.root, store')
    BY <1>3 DEF CacheStored
  <2>1. CASE cache' = cache
    <3>1. cache.root \in Seq(Leaf) /\ IsPrefix(cache.root, store)
      BY <2>1 DEF CacheStored, IInv, TypeOK, SignedHead
    <3>2. QED
      BY <2>1, <3>1, LogStepEffects
  <2>2. CASE SignHead
    BY <1>5, <2>2, SignedIsStored, PrefixRefl
  <2>3. QED
    BY <2>1, <2>2, LogStepEffects
<1>7. SealsStored'
  <2> SUFFICES ASSUME Lossless, NEW e \in Sealed
               PROVE  /\ IsPrefix(sealed[e].root, store')
                      /\ up' => IsPrefix(sealed[e].root, tree')
    BY <1>2, <1>3 DEF SealsStored
  <2>1. /\ sealed[e].root \in Seq(Leaf)
        /\ IsPrefix(sealed[e].root, store)
        /\ up => IsPrefix(sealed[e].root, tree)
    BY SealedIsHead DEF SealsStored
  <2>2. QED
    BY <2>1, LogStepEffects
<1>8. SealsOrdered'
  BY <1>2, <1>3 DEF SealsOrdered
<1>9. SealsBehind'
  <2> SUFFICES ASSUME Lossless, NEW e \in Sealed
               PROVE  /\ loop'.pc # "idle" => e <= loop'.size
                      /\ cache' # NoHead =>
                           e <= cache'.epoch /\ IsPrefix(sealed[e].root, cache'.root)
    BY <1>2, <1>3 DEF SealsBehind
  <2>1. /\ sealed[e].size \in Nat /\ sealed[e].root \in Seq(Leaf) /\ e \in Nat
        /\ sealed[e].size = Len(sealed[e].root)
        /\ e <= sealed[e].size
        /\ up => IsPrefix(sealed[e].root, tree)
    BY SealedIsHead DEF SealsStored
  <2>2. up => e <= Len(tree)
    BY <1>5, <2>1, PrefixPointwise
  <2>3. loop'.pc # "idle" => e <= loop'.size
    BY <2>2, LogStepEffects DEF SealsBehind
  <2>4. CASE SignHead
    <3>1. cache'.epoch = loop.size /\ cache'.root = tree /\ up /\ loop.pc # "idle"
      BY <2>4, SignedIsStored
    <3>2. QED
      BY <2>1, <2>3, <3>1 DEF SealsBehind
  <2>5. CASE cache' = cache
    BY <2>3, <2>5 DEF SealsBehind
  <2>6. QED
    BY <2>3, <2>4, <2>5, LogStepEffects
<1>10. AuditInv'
  <2>1. CASE audit' = NoAudit
    BY <2>1 DEF AuditInv, NoAudit
  <2>2. CASE audit' = audit /\ audit.pc # "idle"
    <3>1. up /\ up'
      BY <2>2 DEF AuditInv, NoAudit
    <3>2. Len(tree) <= Len(tree')
          /\ \A s \in Seq(Leaf) : IsPrefix(s, tree) => IsPrefix(s, tree')
      BY <3>1, LogStepEffects
    <3>3. audit.root \in Seq(Leaf) /\ audit.prior \in Nat /\ Len(tree') \in Nat
      BY <1>1 DEF BucketType, IInv, TypeOK
    <3>4. audit.prior <= Len(tree')
      BY <1>5, <2>2, <3>2, <3>3 DEF AuditInv
    <3>5. QED
      BY <2>2, <3>1, <3>2, <3>3, <3>4 DEF AuditInv
  <2>3. CASE audit' = audit /\ audit.pc = "idle"
    BY <2>3 DEF AuditInv
  <2>4. QED
    BY <2>1, <2>2, <2>3
<1>11. QED
  BY <1>1, <1>4, <1>6, <1>7, <1>8, <1>9, <1>10

\* A seal writes the cached head, or nothing.
LEMMA SealHeadSeals ==
  ASSUME SealInv, SealHead
  PROVE  SealInv'
<1> USE DEF SealInv
<1>1. /\ up /\ loop.pc = "idle" /\ cache # NoHead
      /\ sealed' = [sealed EXCEPT ![cache.epoch] =
                       IF sealed[cache.epoch] = NoHead THEN cache ELSE sealed[cache.epoch]]
      /\ UNCHANGED <<vars, audit>>
  BY DEF SealHead
<1>2. UNCHANGED <<store, up, tree, lossy, loop, cache>>
  BY <1>1 DEF vars, durable, memory, serving, history
<1>3. IInv'
  BY <1>1, StutterStep
<1>4. /\ cache \in SignedHead /\ cache.epoch \in Nat /\ cache.size \in Nat
      /\ cache.root \in Seq(Leaf)
      /\ cache.size = Len(cache.root)
      /\ cache.epoch <= cache.size
      /\ IsPrefix(cache.root, tree)
  BY <1>1 DEF IInv, TypeOK, SignedHead, ServingInv
<1>5. BucketType'
  <2>1. sealed' \in [0..MaxLeaves -> SignedHead \cup {NoHead}]
    BY <1>1, <1>4 DEF BucketType
  <2>2. QED
    BY <1>1, <2>1 DEF BucketType
<1>6. \A e \in Sealed' : \/ e \in Sealed /\ sealed'[e] = sealed[e]
                         \/ e \notin Sealed /\ e = cache.epoch /\ sealed'[e] = cache
  BY <1>1 DEF BucketType, Sealed
<1>7. Lossless' = Lossless /\ CacheStored'
  BY <1>2 DEF Lossless, CacheStored
<1>8. SealsStored'
  BY <1>1, <1>2, <1>4, <1>6, <1>7 DEF SealsStored, CacheStored
<1>9. IsPrefix(cache.root, cache.root)
  BY <1>4, PrefixRefl
<1>10. Lossless => \A e \in Sealed : e <= cache.epoch /\ IsPrefix(sealed[e].root, cache.root)
  BY <1>1 DEF SealsBehind
<1>11. SealsOrdered'
  <2> SUFFICES ASSUME Lossless, NEW e \in Sealed', NEW f \in Sealed', e <= f
               PROVE  IsPrefix(sealed'[e].root, sealed'[f].root)
    BY <1>7 DEF SealsOrdered
  <2>1. CASE e \in Sealed /\ f \in Sealed
    BY <1>6, <2>1 DEF SealsOrdered
  <2>2. CASE e \in Sealed /\ f \notin Sealed
    BY <1>6, <1>10, <2>2
  <2>3. CASE e \notin Sealed /\ f \in Sealed
    <3>1. e = cache.epoch /\ f <= cache.epoch /\ f \in Nat
      BY <1>6, <1>10, <2>3, SealedIsHead
    <3>2. e = f
      BY <1>4, <3>1
    <3>3. QED
      BY <2>3, <3>2
  <2>4. CASE e \notin Sealed /\ f \notin Sealed
    BY <1>6, <1>9, <2>4
  <2>5. QED
    BY <2>1, <2>2, <2>3, <2>4
<1>12. SealsBehind'
  BY <1>1, <1>2, <1>4, <1>6, <1>7, <1>9, <1>10 DEF SealsBehind
<1>13. AuditInv'
  BY <1>1, <1>2 DEF AuditInv
<1>14. QED
  BY <1>3, <1>5, <1>7, <1>8, <1>11, <1>12, <1>13

\* A step of the audit changes nothing but the audit.
LEMMA AuditSeals ==
  ASSUME SealInv, AuditSize \/ AuditProve \/ AuditCompare
  PROVE  SealInv'
<1> USE DEF SealInv
<1>1. UNCHANGED <<vars, sealed>>
  BY DEF AuditSize, AuditProve, AuditCompare
<1>2. UNCHANGED <<store, up, tree, lossy, loop, cache, owner>>
  BY <1>1 DEF vars, durable, memory, serving, history
<1>3. IInv'
  BY <1>1, StutterStep
<1>4. CacheStored' /\ SealsStored' /\ SealsOrdered' /\ SealsBehind'
  BY <1>1, <1>2
  DEF CacheStored, SealsStored, SealsOrdered, SealsBehind, Lossless, Sealed
<1>5. tree \in Seq(Leaf) /\ Len(tree) \in Nat
  BY DEF IInv, TypeOK
<1>6. BucketType' /\ AuditInv'
  <2>1. CASE AuditSize
    <3>1. audit' = [pc |-> "sized", prior |-> Len(tree) - 1, root |-> << >>]
      BY <2>1 DEF AuditSize, NoAudit
    <3>2. Len(tree) - 1 \in Nat /\ up /\ << >> \in Seq(Leaf)
      BY <1>5, <2>1 DEF AuditSize
    <3>3. QED
      BY <1>1, <1>2, <1>5, <3>1, <3>2 DEF BucketType, AuditInv
  <2>2. CASE AuditProve
    <3> DEFINE root == SubSeq(tree, 1, audit.prior)
    <3>1. /\ audit.prior \in Nat /\ audit.prior <= Len(tree) /\ up
      BY <2>2 DEF AuditProve, BucketType, AuditInv
    <3>2. /\ root \in Seq(Leaf)
          /\ Len(root) = audit.prior
          /\ \A i \in 1..Len(root) : root[i] = tree[i]
      BY <1>5, <3>1
    <3> HIDE DEF root
    <3>3. IsPrefix(root, tree)
      BY <1>5, <3>1, <3>2, PrefixPointwise
    <3>4. audit' = [pc |-> "proved", prior |-> audit.prior, root |-> root]
      BY <2>2 DEF AuditProve, BucketType, root
    <3>5. QED
      BY <1>1, <1>2, <3>1, <3>2, <3>3, <3>4 DEF BucketType, AuditInv
  <2>3. CASE AuditCompare
    BY <1>1, <2>3 DEF AuditCompare, NoAudit, BucketType, AuditInv
  <2>4. QED
    BY <2>1, <2>2, <2>3
<1>7. QED
  BY <1>3, <1>4, <1>6

\* Every step keeps the invariant: the seals', the audit's and the log's.
THEOREM SealNextPreserves == SealInv /\ [SealNext]_sealVars => SealInv'
<1> SUFFICES ASSUME SealInv, [SealNext]_sealVars PROVE SealInv'
  OBVIOUS
<1>1. CASE SealHead
  BY <1>1, SealHeadSeals
<1>2. CASE AuditSize \/ AuditProve \/ AuditCompare
  BY <1>2, AuditSeals
<1>3. CASE LogStep
  BY <1>3, LogStepSeals DEF LogStep
<1>4. CASE UNCHANGED sealVars
  <2>1. UNCHANGED <<vars, sealed, audit>>
    BY <1>4 DEF sealVars
  <2>3. UNCHANGED <<store, up, tree, lossy, loop, cache>>
    BY <2>1 DEF vars, durable, memory, serving, history
  <2>4. IInv'
    BY <2>1, StutterStep DEF SealInv
  <2>5. QED
    BY <2>1, <2>3, <2>4
    DEF SealInv, BucketType, CacheStored, SealsStored, SealsOrdered, SealsBehind,
        AuditInv, Lossless, Sealed
<1>5. QED
  BY <1>1, <1>2, <1>3, <1>4 DEF SealNext

\* The inductive invariant holds in every reachable state.
THEOREM SealInvariant == SealSpec => []SealInv
<1>1. QED
  BY SealInitEstablishes, SealNextPreserves, PTL DEF SealSpec
-----------------------------------------------------------------------------
\* seal_checkpoint: the objects under Object Lock are a chain of heads of one log,
\* whatever crashed in between, and the live log extends every one of them.
THEOREM SealsFormAChain == SealSpec => []SealedChain
<1>1. SealInv => SealedChain
  BY DEF SealInv, SealedChain, SealsStored, SealsOrdered
<1>2. QED
  BY <1>1, SealInvariant, PTL

\* transparency_checkpoint_object: what it reads back under the head's key is never
\* ahead of the head it was asked for.
THEOREM ReadBackIsBehind == SealSpec => []ReadBackNotAhead
<1>1. SealInv => ReadBackNotAhead
  BY DEF SealInv, ReadBackNotAhead, SealsBehind
<1>2. QED
  BY <1>1, SealInvariant, PTL

\* demo_consistency: an object for the prior size has the root the consistency
\* proof starts from - both are prefixes of the log, of one length.
THEOREM AuditNeverCriesWolf == SealSpec => AuditAgrees
<1>1. ASSUME SealInv, AuditCompare, Lossless, audit.prior \in Sealed,
             sealed[audit.prior].size = audit.prior
      PROVE  SealedRootMatches
  <2> DEFINE head == sealed[audit.prior]
  <2>1. /\ head \in SignedHead /\ head # NoHead
        /\ head.root \in Seq(Leaf)
        /\ Len(head.root) = audit.prior
    BY <1>1, SealedIsHead DEF SealInv, SealsStored, Sealed
  <2>2. /\ up
        /\ audit.root \in Seq(Leaf)
        /\ Len(audit.root) = audit.prior
        /\ IsPrefix(audit.root, tree)
    BY <1>1 DEF AuditCompare, SealInv, AuditInv, BucketType
  <2>3. tree \in Seq(Leaf) /\ IsPrefix(head.root, tree)
    BY <1>1, <2>2 DEF SealInv, IInv, TypeOK, SealsStored
  <2>4. audit.prior \in Nat
    BY <2>2
  <2> HIDE DEF head
  <2>5. head.root = audit.root
    <3>1. CASE IsPrefix(head.root, audit.root)
      BY <2>1, <2>2, <2>4, <3>1, PrefixSameLength
    <3>2. CASE IsPrefix(audit.root, head.root)
      BY <2>1, <2>2, <2>4, <3>2, PrefixSameLength
    <3>3. QED
      BY <2>1, <2>2, <2>3, <3>1, <3>2, PrefixesComparable
  <2>6. QED
    BY <2>1, <2>5 DEF SealedRootMatches, head
<1>2. SealInv => [AuditCompare /\ Lossless /\ audit.prior \in Sealed
                   /\ sealed[audit.prior].size = audit.prior => SealedRootMatches]_sealVars
  BY <1>1
<1>3. QED
  BY <1>2, SealInvariant, PTL DEF AuditAgrees
-----------------------------------------------------------------------------
\* The bound on the tree bounds the store as well: a leaf is put in the tree, under the
\* lock, before it is stored, so the store is behind by the leaf being appended.
LengthInv ==
  /\ Len(tree) <= MaxLeaves /\ Len(store) <= MaxLeaves
  /\ up => Len(store) <= Len(tree)
  /\ owner # NoWorker => Len(store) < Len(tree)

LEMMA LogStepLengths ==
  ASSUME LogAssumption, IInv, LengthInv, [Next]_vars
  PROVE  LengthInv'
<1>1. /\ tree \in Seq(Leaf) /\ store \in Seq(Leaf) /\ MaxLeaves \in Nat
      /\ Len(tree) \in Nat /\ Len(store) \in Nat
  BY DEF IInv, TypeOK, LogAssumption
<1>2. CASE UNCHANGED <<tree, store, up, owner>>
  BY <1>2 DEF LengthInv
<1>3. ASSUME NEW w \in Worker, NEW leaf \in Leaf, AppendToTree(w, leaf) PROVE LengthInv'
  <2>1. /\ up /\ up' /\ owner = NoWorker /\ store' = store
        /\ Len(tree) < MaxLeaves /\ tree' = Append(tree, leaf)
    BY <1>3 DEF AppendToTree, durable
  <2>2. Len(tree') = Len(tree) + 1
    BY <1>1, <2>1
  <2>3. QED
    BY <1>1, <2>1, <2>2 DEF LengthInv
<1>4. ASSUME NEW w \in Worker, StoreLeaf(w) \/ StoreRaises(w) PROVE LengthInv'
  <2>1. owner # NoWorker
    BY <1>4 DEF StoreLeaf, StoreRaises, IInv, LockInv, Appending, LogAssumption
  <2>2. UNCHANGED <<tree, up>> /\ owner' = NoWorker
    BY <1>4 DEF StoreLeaf, StoreRaises
  <2>3. store' = store \/ store' = Append(store, job[w].leaf)
    BY <1>4 DEF StoreLeaf, StoreRaises
  <2>4. Len(store') \in {Len(store), Len(store) + 1}
    BY <1>1, <2>3
  <2>5. QED
    BY <1>1, <2>1, <2>2, <2>4 DEF LengthInv
<1>5. ASSUME NEW w \in Worker, NEW m \in ManifestId, LookUpIndex(w, m)
      PROVE  UNCHANGED <<tree, store, up, owner>>
  BY <1>5 DEF LookUpIndex, durable
<1>6. ASSUME NEW w \in Worker, SetIndex(w) \/ SignProof(w) \/ SignConsistency(w)
      PROVE  UNCHANGED <<tree, store, up, owner>>
  BY <1>6 DEF SetIndex, SignProof, SignConsistency, durable, memory
<1>7. CASE \E w \in Worker : Work(w)
  BY <1>2, <1>3, <1>4, <1>5, <1>6, <1>7 DEF Work
<1>8. CASE Serve \/ UNCHANGED vars
  BY <1>2, <1>8 DEF Serve, ReadSize, ReadRoot, ServeCached, SignHead, vars, durable, memory
<1>9. CASE Crash
  BY <1>1, <1>9 DEF Crash, LengthInv, durable, LogAssumption
<1>10. CASE Restart
  <2>1. tree' = store /\ store' = store /\ owner' = owner /\ owner = NoWorker
    BY <1>10 DEF Restart, IInv, DownInv
  <2>2. QED
    BY <1>1, <2>1 DEF LengthInv
<1>11. QED
  BY <1>7, <1>8, <1>9, <1>10 DEF Next

\* The sealed objects are signed heads, and the size a consistency check asks for is one
\* the log has had: demo_consistency reads the size of a log of at least two leaves.
THEOREM SealTypeCorrect == SealSpec => []SealTypeOK
<1> DEFINE Prior == audit.prior \in 0..MaxLeaves
<1>1. SealInit => LengthInv /\ Prior
  BY LogAssumption DEF SealInit, Init, LengthInv, NoAudit, LogAssumption
<1>2. SealInv /\ LengthInv /\ Prior /\ [SealNext]_sealVars => LengthInv' /\ Prior'
  <2> SUFFICES ASSUME SealInv, LengthInv, Prior, [SealNext]_sealVars
               PROVE  LengthInv' /\ Prior'
    OBVIOUS
  <2>1. [Next]_vars
    BY DEF SealNext, SealHead, AuditSize, AuditProve, AuditCompare, LogStep, sealVars
  <2>2. LengthInv'
    BY <2>1, LogAssumption, LogStepLengths DEF SealInv
  <2>3. CASE AuditSize
    <3>1. Len(tree) \in Nat /\ Len(tree) >= 2 /\ audit'.prior = Len(tree) - 1
      BY <2>3 DEF AuditSize, NoAudit, SealInv, IInv, TypeOK
    <3>2. QED
      BY <2>2, <3>1, LogAssumption DEF LengthInv, LogAssumption
  <2>4. CASE AuditProve
    BY <2>2, <2>4 DEF AuditProve, SealInv, BucketType
  <2>5. CASE audit' = NoAudit \/ audit' = audit
    BY <2>2, <2>5, LogAssumption DEF NoAudit, LogAssumption
  <2>6. QED
    BY <2>3, <2>4, <2>5 DEF SealNext, SealHead, AuditCompare, LogStep, sealVars
<1>3. SealInv /\ Prior => SealTypeOK
  BY DEF SealInv, BucketType, SealTypeOK
<1>4. QED
  BY <1>1, <1>2, <1>3, SealInvariant, PTL DEF SealSpec
=============================================================================
