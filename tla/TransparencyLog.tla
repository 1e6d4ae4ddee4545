--------------------------- MODULE TransparencyLog ---------------------------
(***************************************************************************)
(* The transparency log of rooted_provenance/merkle.py over its durable    *)
(* leaf store (rooted_storage/transparency.py), with the signed-head cache *)
(* of rooted_api/sbr.py that sits in front of it.                          *)
(*                                                                         *)
(* One server process.  Its threadpool workers append leaves and build     *)
(* proofs; its event loop answers every request for the signed head.  The  *)
(* log's RLock guards append, checkpoint, signed_proof, signed_consistency *)
(* and snapshot; size, root() and index_for are read WITHOUT it.  The      *)
(* process may crash at any point and restarts from the leaf store.        *)
(*                                                                         *)
(* Abstractions.  A leaf is the canonical hash of one version of one       *)
(* manifest, and the hash is collision-free and covers the manifest id, so *)
(* a leaf is the pair it is the hash of.  A root hash is collision-free as *)
(* well, so a root is the sequence of leaves under it.  pymerkle's tree is *)
(* external: append_entry adds one leaf at the end and returns its 1-based *)
(* position, get_size and get_state read the leaves.  Auditors, outside the *)
(* program, keep any of the checkpoints and proofs they are served, as many *)
(* as the bounds allow: a property of any two kept heads is one of all.     *)
(***************************************************************************)
EXTENDS Naturals, FiniteSets, SequencesExt

CONSTANTS
  ManifestId,     \* manifest ids
  Version,        \* the versions a manifest can take (created_at and the like)
  Worker,         \* threadpool threads
  NoWorker,       \* the lock's owner when it is free
  NoHead,         \* the head cache when it is empty
  StoreMayFail,   \* whether an INSERT into merkle_leaves may raise
  MaxLeaves,      \* bound: leaves in one tree
  MaxBoots,       \* bound: starts of the process
  MaxHeads,       \* bound: checkpoints the auditors keep
  MaxProofs       \* bound: inclusion proofs the auditors keep

ASSUME LogAssumption ==
  /\ NoWorker \notin Worker
  /\ StoreMayFail \in BOOLEAN
  /\ MaxLeaves \in Nat
  /\ MaxBoots \in Nat \ {0}
  /\ MaxHeads \in Nat
  /\ MaxProofs \in Nat

VARIABLES
  store,          \* merkle_leaves, ORDER BY seq (durable)
  up,             \* whether the process is running
  boot,           \* how many times it has started
  tree,           \* _tree: the leaves of the in-memory Merkle tree
  index,          \* _index: manifest id -> 1-based position, 0 when absent
  owner,          \* the worker that holds _lock
  job,            \* each worker's call in progress
  loop,           \* the event loop's _signed_head call in progress
  cache,          \* _checkpoint_cache
  signed,         \* history: the signed tree states the auditors kept
  proven,         \* history: the inclusion proofs they kept
  lossy           \* history: boots in which a leaf in the tree was not stored

durable == <<store, boot>>
memory  == <<tree, index, owner, job>>
serving == <<loop, cache>>
history == <<signed, proven, lossy>>
vars    == <<durable, up, memory, serving, history>>

-----------------------------------------------------------------------------
Leaf == [id : ManifestId, ver : Version]

\* A checkpoint: what _checkpoint_head puts under the signature.  signed_at is
\* left out: a checkpoint is signed anew exactly when Checkpoint is evaluated.
SignedHead == [epoch : Nat, size : Nat, root : Seq(Leaf)]

\* What an auditor keeps of a checkpoint: the tree state it commits the log to.
Commitment == [boot : 1..MaxBoots, root : Seq(Leaf)]

Idle == [op |-> "idle"]
Job  == {Idle}
          \cup [op : {"treed", "indexed"}, leaf : Leaf, pos : Nat]
          \cup [op : {"prove"}, id : ManifestId, pos : Nat]

NoCall == [pc |-> "idle", size |-> 0, root |-> << >>]
Call   == [pc : {"idle", "sized", "rooted"}, size : Nat, root : Seq(Leaf)]

Proof == [id : ManifestId, pos : Nat, leaf : Leaf, boot : 1..MaxBoots]

\* What the auditors may hold after being served x: they keep it or they do not.
Kept(held, x, bound) ==
  {held} \cup {k \in {held \cup {x}} : Cardinality(k) <= bound}

\* i is where replaying s leaves the index entry of m: the last leaf of m wins.
IsLastOf(s, m, i) ==
  /\ i > 0 => s[i].id = m
  /\ \A j \in 1..Len(s) : j > i => s[j].id # m

\* _checkpoint_for over the live tree: size and root are read in one go.
Checkpoint(epoch) == [epoch |-> epoch, size |-> Len(tree), root |-> tree]

CommittedTo(checkpoint) == [boot |-> boot, root |-> checkpoint.root]

\* The inclusion proof signed_proof computes for position pos of the live tree.
ProofAt(m, pos) == [id |-> m, pos |-> pos, leaf |-> tree[pos], boot |-> boot]

\* snapshot(): the entries come from the store, the size and root from the tree.
Snapshot == [entries |-> store, size |-> Len(tree), root |-> tree]
-----------------------------------------------------------------------------
Init ==
  /\ store = << >>
  /\ up = TRUE
  /\ boot = 1
  /\ tree = << >>
  /\ index = [m \in ManifestId |-> 0]
  /\ owner = NoWorker
  /\ job = [w \in Worker |-> Idle]
  /\ loop = NoCall
  /\ cache = NoHead
  /\ signed = {}
  /\ proven = {}
  /\ lossy = {}

-----------------------------------------------------------------------------
\* Faulty variants.  No action uses them; each is the slip one of the properties
\* below exists to catch.

\* The tree is changed outside the "with self._lock" block.
AppendToTreeUnlocked(w, leaf) ==
  /\ up
  /\ job[w] = Idle
  /\ Len(tree) < MaxLeaves
  /\ tree' = Append(tree, leaf)
  /\ job' = [job EXCEPT ![w] = [op |-> "treed", leaf |-> leaf, pos |-> Len(tree) + 1]]
  /\ UNCHANGED <<durable, up, index, owner, serving, history>>

\* A 1-based position taken for a 0-based one.
SetIndexOffByOne(w) ==
  /\ job[w].op = "treed"
  /\ index' = [index EXCEPT ![job[w].leaf.id] = job[w].pos + 1]
  /\ job' = [job EXCEPT ![w].op = "indexed"]
  /\ UNCHANGED <<durable, up, tree, owner, serving, history>>

\* signed_proof without the lock.
SignProofUnlocked(w) ==
  /\ job[w].op = "prove"
  /\ signed' \in Kept(signed, CommittedTo(Checkpoint(Len(tree))), MaxHeads)
  /\ proven' \in Kept(proven, ProofAt(job[w].id, job[w].pos), MaxProofs)
  /\ job' = [job EXCEPT ![w] = Idle]
  /\ UNCHANGED <<durable, up, tree, index, owner, serving, lossy>>

\* The cached head compared by its epoch instead of its tree_size.
CacheHitByEpoch ==
  /\ cache # NoHead
  /\ cache.epoch = loop.size
  /\ cache.root = loop.root

\* The cached head compared by its tree_size alone.
CacheHitBySize ==
  /\ cache # NoHead
  /\ cache.size = loop.size

\* checkpoint() without the lock.
SignHeadUnlocked ==
  /\ loop.pc = "rooted"
  /\ cache' = Checkpoint(loop.size)
  /\ signed' \in Kept(signed, CommittedTo(cache'), MaxHeads)
  /\ loop' = NoCall
  /\ UNCHANGED <<durable, up, memory, proven, lossy>>

\* Replay without ORDER BY seq: the rows come back newest first.
RestartNewestFirst ==
  /\ ~up
  /\ up' = TRUE
  /\ boot' = boot + 1
  /\ tree' = Reverse(store)
  /\ index' \in {f \in [ManifestId -> 0..Len(store)] :
                   \A m \in ManifestId : IsLastOf(Reverse(store), m, f[m])}
  /\ UNCHANGED <<store, owner, job, serving, history>>
-----------------------------------------------------------------------------
\* append(): take the lock and put the leaf in the tree.
AppendToTree(w, leaf) ==
  /\ up
  /\ job[w] = Idle
  /\ owner = NoWorker
  /\ Len(tree) < MaxLeaves
  /\ owner' = w
  /\ tree' = Append(tree, leaf)
  /\ job' = [job EXCEPT ![w] = [op |-> "treed", leaf |-> leaf, pos |-> Len(tree) + 1]]
  /\ UNCHANGED <<durable, up, index, serving, history>>

\* append(): remember the position under the manifest id.
SetIndex(w) ==
  /\ job[w].op = "treed"
  /\ index' = [index EXCEPT ![job[w].leaf.id] = job[w].pos]
  /\ job' = [job EXCEPT ![w].op = "indexed"]
  /\ UNCHANGED <<durable, up, tree, owner, serving, history>>

\* append(): store the leaf, leave the locked block and return the position.
StoreLeaf(w) ==
  /\ job[w].op = "indexed"
  /\ store' = Append(store, job[w].leaf)
  /\ owner' = NoWorker
  /\ job' = [job EXCEPT ![w] = Idle]
  /\ UNCHANGED <<boot, up, tree, index, serving, history>>

\* append(): the store raises.  The row is missing, or it was committed and only
\* the acknowledgement was lost; the tree and the index keep the leaf, and the
\* "with" block releases the lock on the way out.
StoreRaises(w) ==
  /\ StoreMayFail
  /\ job[w].op = "indexed"
  /\ \/ /\ UNCHANGED store
        /\ lossy' = lossy \cup {boot}
     \/ /\ store' = Append(store, job[w].leaf)
        /\ UNCHANGED lossy
  /\ owner' = NoWorker
  /\ job' = [job EXCEPT ![w] = Idle]
  /\ UNCHANGED <<boot, up, tree, index, serving, signed, proven>>

\* _inclusion_proof: index_for, read without the lock.
LookUpIndex(w, m) ==
  /\ up
  /\ job[w] = Idle
  /\ index[m] # 0
  /\ job' = [job EXCEPT ![w] = [op |-> "prove", id |-> m, pos |-> index[m]]]
  /\ UNCHANGED <<durable, up, tree, index, owner, serving, history>>

\* _inclusion_proof: signed_proof, all of it under the lock.
SignProof(w) ==
  /\ job[w].op = "prove"
  /\ owner = NoWorker
  /\ signed' \in Kept(signed, CommittedTo(Checkpoint(Len(tree))), MaxHeads)
  /\ proven' \in Kept(proven, ProofAt(job[w].id, job[w].pos), MaxProofs)
  /\ job' = [job EXCEPT ![w] = Idle]
  /\ UNCHANGED <<durable, up, tree, index, owner, serving, lossy>>

\* signed_consistency(prior): any prior size in 1..size gets a proof against the
\* live root and a checkpoint of it; any other size is a 404 and changes nothing.
SignConsistency(w) ==
  /\ up
  /\ job[w] = Idle
  /\ owner = NoWorker
  /\ \E prior \in 1..MaxLeaves : prior <= Len(tree)
  /\ signed' \in Kept(signed, CommittedTo(Checkpoint(Len(tree))), MaxHeads)
  /\ UNCHANGED <<durable, up, memory, serving, proven, lossy>>

\* _signed_head: log.size, read without the log's lock.
ReadSize ==
  /\ up
  /\ loop.pc = "idle"
  /\ loop' = [NoCall EXCEPT !.pc = "sized", !.size = Len(tree)]
  /\ UNCHANGED <<durable, up, memory, cache, history>>

\* _signed_head: log.root(), read without the log's lock.
ReadRoot ==
  /\ loop.pc = "sized"
  /\ loop' = [loop EXCEPT !.pc = "rooted", !.root = tree]
  /\ UNCHANGED <<durable, up, memory, cache, history>>

CacheHit ==
  /\ cache # NoHead
  /\ cache.size = loop.size
  /\ cache.root = loop.root

\* _signed_head: the cached head is for the size and root just read; serve it.
ServeCached ==
  /\ loop.pc = "rooted"
  /\ CacheHit
  /\ loop' = NoCall
  /\ UNCHANGED <<durable, up, memory, cache, history>>

\* _signed_head: sign a new head.  checkpoint() takes the lock and reads size and
\* root AGAIN, while the epoch is the size read at the start; cache and serve it.
SignHead ==
  /\ loop.pc = "rooted"
  /\ ~CacheHit
  /\ owner = NoWorker
  /\ cache' = Checkpoint(loop.size)
  /\ signed' \in Kept(signed, CommittedTo(cache'), MaxHeads)
  /\ loop' = NoCall
  /\ UNCHANGED <<durable, up, memory, proven, lossy>>

\* The process dies: everything in memory is gone, mid-append or not.
Crash ==
  /\ up
  /\ boot < MaxBoots
  /\ up' = FALSE
  /\ tree' = << >>
  /\ index' = [m \in ManifestId |-> 0]
  /\ owner' = NoWorker
  /\ job' = [w \in Worker |-> Idle]
  /\ loop' = NoCall
  /\ cache' = NoHead
  /\ UNCHANGED <<durable, history>>

\* __init__: replay store.all() in order into an empty tree and index.
Restart ==
  /\ ~up
  /\ up' = TRUE
  /\ boot' = boot + 1
  /\ tree' = store
  /\ index' \in {f \in [ManifestId -> 0..Len(store)] :
                   \A m \in ManifestId : IsLastOf(store, m, f[m])}
  /\ UNCHANGED <<store, owner, job, serving, history>>

Work(w) ==
  \/ \E leaf \in Leaf : AppendToTree(w, leaf)
  \/ SetIndex(w)
  \/ StoreLeaf(w)
  \/ StoreRaises(w)
  \/ \E m \in ManifestId : LookUpIndex(w, m)
  \/ SignProof(w)
  \/ SignConsistency(w)

Serve ==
  \/ ReadSize
  \/ ReadRoot
  \/ ServeCached
  \/ SignHead

Next ==
  \/ \E w \in Worker : Work(w)
  \/ Serve
  \/ Crash
  \/ Restart

Spec == Init /\ [][Next]_vars
-----------------------------------------------------------------------------
TypeOK ==
  /\ store \in Seq(Leaf)
  /\ up \in BOOLEAN
  /\ boot \in 1..MaxBoots
  /\ tree \in Seq(Leaf)
  /\ index \in [ManifestId -> 0..Len(tree)]
  /\ owner \in Worker \cup {NoWorker}
  /\ job \in [Worker -> Job]
  /\ loop \in Call
  /\ cache \in SignedHead \cup {NoHead}
  /\ signed \subseteq Commitment
  /\ proven \subseteq Proof
  /\ lossy \subseteq 1..MaxBoots

Clean(b) == b \notin lossy

\* snapshot() tells one story: its entries, read from the database, are exactly
\* the leaves under the size and root it returns beside them, as long as no
\* INSERT failed since the process started.
SnapshotAgrees ==
  up /\ owner = NoWorker /\ Clean(boot) =>
    /\ Snapshot.entries = Snapshot.root
    /\ Len(Snapshot.entries) = Snapshot.size

\* The log never signs two heads that contradict each other: not within one
\* start of the process whatever fails, and not across a crash between any two
\* steps of an append, provided no INSERT failed in the starts concerned.  It is
\* checkpoint() reading under the lock that keeps a leaf which is in the tree and
\* not yet in the store out of every signed head.
NoFork ==
  \A g, h \in signed :
    g.boot = h.boot \/ (Clean(g.boot) /\ Clean(h.boot))
      => IsPrefix(g.root, h.root) \/ IsPrefix(h.root, g.root)

\* An inclusion proof once served stays true: in every later state of the
\* running log, restarts included, the proof's position holds the proof's leaf
\* and that leaf is the manifest's.
ProofsStayTrue ==
  \A p \in proven : up /\ Clean(p.boot) =>
    /\ p.pos \in 1..Len(tree)
    /\ tree[p.pos] = p.leaf
    /\ p.leaf.id = p.id

\* A tree state gets one signed head per start of the process: a second head is
\* only ever signed for a tree that has grown since, so reading the head of an
\* unchanged tree again returns the very same checkpoint, even when an append
\* slipped between the unlocked reads and the cached epoch is not its size.
HeadReproducible ==
  [][SignHead /\ cache # NoHead => IsStrictPrefix(cache.root, cache'.root)]_vars

\* A head is never older than the request for it: it covers at least the leaves
\* that were in the tree when the request read the root, and its epoch never runs
\* ahead of the tree it signs.
HeadNotStale ==
  [][loop.pc = "rooted" /\ loop'.pc = "idle" /\ up' =>
       /\ IsPrefix(loop.root, cache'.root)
       /\ loop.size <= cache'.size
       /\ cache'.epoch <= cache'.size]_vars

-----------------------------------------------------------------------------
\* What the sources say of the log and the code does not do.

\* sbr.py, _signed_head: "The epoch IS the tree size."
EpochIsTreeSize == cache # NoHead => cache.epoch = cache.size

\* merkle.py, TransparencyLog: "inclusion proofs survive a restart".
ProofsSurviveRestart ==
  \A p \in proven : up => p.pos <= Len(tree) /\ tree[p.pos] = p.leaf

-----------------------------------------------------------------------------
\* With a store that never fails the log implements the abstract ledger: the
\* ledger is the durable store, the published heads are the roots signed.
Ledger == INSTANCE AppendOnlyLog WITH
  ledger <- store,
  heads  <- {h.root : h \in signed}

ImplementsLedger == Ledger!Spec
=============================================================================
