------------------------ MODULE TransparencyLogProofs ------------------------
(***************************************************************************)
(* Proofs about TransparencyLog, for every value of its constants.         *)
(*                                                                         *)
(* The safety properties say what auditors may rely on, and none of them   *)
(* is inductive: they hold because the lock keeps the tree and the store   *)
(* one leaf apart at most.  IInv says so, part by part.                    *)
(*                                                                         *)
(* A head commits to a prefix of a log, so facts about prefixes come       *)
(* first, then what the abstract ledger gives its auditors, which is what  *)
(* the refinement at the end carries over to the code.                     *)
(***************************************************************************)
EXTENDS TransparencyLog, SequenceTheorems, TLAPS

-----------------------------------------------------------------------------
\* Prefixes.

\* A prefix agrees with the longer sequence at every one of its positions.
LEMMA PrefixPointwise ==
  ASSUME NEW S, NEW s \in Seq(S), NEW t \in Seq(S)
  PROVE  IsPrefix(s, t) <=> Len(s) <= Len(t) /\ \A i \in 1..Len(s) : s[i] = t[i]
<1>1. ASSUME IsPrefix(s, t)
      PROVE  Len(s) <= Len(t) /\ \A i \in 1..Len(s) : s[i] = t[i]
  BY <1>1 DEF IsPrefix
<1>2. ASSUME Len(s) <= Len(t), \A i \in 1..Len(s) : s[i] = t[i]
      PROVE  IsPrefix(s, t)
  <2>1. Len(SubSeq(s, 1, Len(s))) = Len(SubSeq(t, 1, Len(s)))
    BY <1>2
  <2>2. \A i \in 1..Len(s) : SubSeq(s, 1, Len(s))[i] = SubSeq(t, 1, Len(s))[i]
    BY <1>2
  <2>3. SubSeq(s, 1, Len(s)) \in Seq(S) /\ SubSeq(t, 1, Len(s)) \in Seq(S)
    BY <1>2
  <2>4. Len(SubSeq(s, 1, Len(s))) = Len(s)
    BY <1>2
  <2>5. SubSeq(s, 1, Len(s)) = SubSeq(t, 1, Len(s))
    BY <2>1, <2>2, <2>3, <2>4, SeqEqual
  <2>6. QED
    BY <1>2, <2>5 DEF IsPrefix
<1>3. QED
  BY <1>1, <1>2

\* A sequence is a prefix of itself, ...
LEMMA PrefixRefl ==
  ASSUME NEW S, NEW s \in Seq(S)
  PROVE  IsPrefix(s, s)
BY PrefixPointwise

\* ... and what is a prefix stays one when the longer sequence grows.
LEMMA PrefixAppend ==
  ASSUME NEW S, NEW s \in Seq(S), NEW t \in Seq(S), NEW x \in S, IsPrefix(s, t)
  PROVE  IsPrefix(s, Append(t, x))
<1> DEFINE u == Append(t, x)
<1>1. u \in Seq(S) /\ Len(u) = Len(t) + 1
  OBVIOUS
<1>2. \A i \in 1..Len(t) : u[i] = t[i]
  OBVIOUS
<1>3. Len(s) <= Len(t) /\ \A i \in 1..Len(s) : s[i] = t[i]
  BY PrefixPointwise
<1> HIDE DEF u
<1>4. Len(s) <= Len(u) /\ \A i \in 1..Len(s) : s[i] = u[i]
  BY <1>1, <1>2, <1>3
<1>5. IsPrefix(s, u)
  BY <1>1, <1>4, PrefixPointwise
<1>6. QED
  BY <1>5 DEF u

\* Two prefixes of one sequence: the shorter is a prefix of the longer.
LEMMA PrefixesComparable ==
  ASSUME NEW S, NEW r \in Seq(S), NEW s \in Seq(S), NEW t \in Seq(S),
         IsPrefix(r, t), IsPrefix(s, t)
  PROVE  IsPrefix(r, s) \/ IsPrefix(s, r)
<1>1. \A i \in 1..Len(r) : r[i] = t[i]
  BY PrefixPointwise
<1>2. \A i \in 1..Len(s) : s[i] = t[i]
  BY PrefixPointwise
<1>3. CASE Len(r) <= Len(s)
  BY <1>1, <1>2, <1>3, PrefixPointwise
<1>4. CASE Len(s) <= Len(r)
  BY <1>1, <1>2, <1>4, PrefixPointwise
<1>5. QED
  BY <1>3, <1>4

\* A prefix as long as the whole is the whole.
LEMMA PrefixSameLength ==
  ASSUME NEW S, NEW s \in Seq(S), NEW t \in Seq(S), IsPrefix(s, t), Len(t) <= Len(s)
  PROVE  s = t
<1>1. Len(s) = Len(t) /\ \A i \in 1..Len(s) : s[i] = t[i]
  BY PrefixPointwise
<1>2. QED
  BY <1>1, SeqEqual

-----------------------------------------------------------------------------
\* The abstract ledger.

\* Heads are prefixes of the ledger: inductive, together with the types.
LedgerInv == Ledger!LedgerTypeOK /\ Ledger!HeadsAreHistory

\* It says this of the ledger's two variables.
LEMMA LedgerInvFields ==
  LedgerInv <=> /\ store \in Seq(Leaf)
                /\ {h.root : h \in signed} \subseteq Seq(Leaf)
                /\ \A g \in {h.root : h \in signed} : IsPrefix(g, store)
BY DEF LedgerInv, Ledger!LedgerTypeOK, Ledger!HeadsAreHistory, Ledger!IsPrefix, IsPrefix

\* The ledger's steps preserve it.
LEMMA LedgerInvariant == Ledger!Spec => []LedgerInv
<1> DEFINE heads == {h.root : h \in signed}
<1>1. Ledger!Init => LedgerInv
  <2> SUFFICES ASSUME Ledger!Init PROVE LedgerInv
    OBVIOUS
  <2>1. store = << >> /\ heads = {}
    BY DEF Ledger!Init
  <2>2. store \in Seq(Leaf)
    BY <2>1
  <2> HIDE DEF heads
  <2>3. heads \subseteq Seq(Leaf) /\ \A g \in heads : IsPrefix(g, store)
    BY <2>1
  <2>4. QED
    BY <2>2, <2>3, LedgerInvFields DEF heads
<1>2. LedgerInv /\ [Ledger!Next]_(Ledger!ledgerVars) => LedgerInv'
  <2> SUFFICES ASSUME LedgerInv, [Ledger!Next]_(Ledger!ledgerVars) PROVE LedgerInv'
    OBVIOUS
  <2> HIDE DEF heads
  <2>0. /\ store \in Seq(Leaf) /\ heads \subseteq Seq(Leaf)
        /\ \A g \in heads : IsPrefix(g, store)
    BY LedgerInvFields DEF heads
  <2>1. ASSUME store' \in Seq(Leaf), heads' \subseteq Seq(Leaf),
               \A h \in heads' : IsPrefix(h, store')
        PROVE  LedgerInv'
    BY <2>1
    DEF heads, LedgerInv, Ledger!LedgerTypeOK, Ledger!HeadsAreHistory, Ledger!IsPrefix, IsPrefix
  <2>2. ASSUME NEW leaf \in Leaf, Ledger!Extend(leaf) PROVE LedgerInv'
    <3>1. store' = Append(store, leaf) /\ heads' = heads
      BY <2>2 DEF Ledger!Extend, heads
    <3>2. store' \in Seq(Leaf)
      BY <2>0, <3>1
    <3>3. \A h \in heads : IsPrefix(h, Append(store, leaf))
      BY <2>0, PrefixAppend
    <3>4. QED
      BY <2>0, <2>1, <3>1, <3>2, <3>3
  <2>3. CASE Ledger!Publish
    <3>1. store' = store /\ heads' = heads \cup {store}
      BY <2>3 DEF Ledger!Publish, heads
    <3>2. IsPrefix(store, store)
      BY <2>0, PrefixRefl
    <3>3. QED
      BY <2>0, <2>1, <3>1, <3>2
  <2>4. CASE UNCHANGED Ledger!ledgerVars
    <3>1. store' = store /\ heads' = heads
      BY <2>4 DEF Ledger!ledgerVars, heads
    <3>2. QED
      BY <2>0, <2>1, <3>1
  <2>5. QED
    BY <2>2, <2>3, <2>4 DEF Ledger!Next
<1>3. QED
  BY <1>1, <1>2, PTL DEF Ledger!Spec

\* Every published head is a prefix of the ledger, forever: no auditor holds a head the
\* log has contradicted.
THEOREM HeadsStayHistory == Ledger!Spec => []Ledger!HeadsAreHistory
<1>1. LedgerInv => Ledger!HeadsAreHistory
  BY DEF LedgerInv
<1>2. QED
  BY <1>1, LedgerInvariant, PTL

\* Any two published heads agree: one extends the other.
THEOREM HistoryIsSingle == Ledger!Spec => []Ledger!SingleHistory
<1>1. LedgerInv => Ledger!SingleHistory
  <2> DEFINE heads == {h.root : h \in signed}
  <2> SUFFICES ASSUME LedgerInv PROVE \A g, h \in heads : IsPrefix(g, h) \/ IsPrefix(h, g)
    BY DEF Ledger!SingleHistory, Ledger!IsPrefix, IsPrefix
  <2>1. /\ store \in Seq(Leaf) /\ heads \subseteq Seq(Leaf)
        /\ \A g \in heads : IsPrefix(g, store)
    BY LedgerInvFields
  <2> HIDE DEF heads
  <2>2. QED
    BY <2>1, PrefixesComparable
<1>2. QED
  BY <1>1, LedgerInvariant, PTL

-----------------------------------------------------------------------------
\* The inductive invariant of the log.


Appending(w) == job[w].op \in {"treed", "indexed"}

Holds(p, s) == p.pos \in 1..Len(s) /\ s[p.pos] = p.leaf

\* The lock is held exactly by a worker in the middle of an append.
LockInv == \A w \in Worker : owner = w <=> Appending(w)

\* The leaf being appended is in the tree, at the position append will return.
PendingInv ==
  \A w \in Worker : Appending(w) =>
    job[w].pos \in 1..Len(tree) /\ tree[job[w].pos] = job[w].leaf

\* The tree is the store, and the leaf being appended if there is one.
MirrorInv ==
  up /\ Clean(boot) =>
    /\ owner = NoWorker => tree = store
    /\ \A w \in Worker : owner = w => tree = Append(store, job[w].leaf)

\* An index entry, and the copy of it in a proof being built, is the position of
\* a leaf of its manifest.
IndexInv ==
  /\ \A m \in ManifestId : index[m] # 0 => tree[index[m]].id = m
  /\ \A w \in Worker : job[w].op = "prove" =>
       job[w].pos \in 1..Len(tree) /\ tree[job[w].pos].id = job[w].id

\* A signed head is a prefix of the tree of its own start of the process, and of
\* the store when every INSERT of that start succeeded.
SignedInv ==
  \A h \in signed :
    /\ h.boot <= boot
    /\ up /\ h.boot = boot => IsPrefix(h.root, tree)
    /\ Clean(h.boot) => IsPrefix(h.root, store)

\* Heads signed by the same start of the process extend one another.
SameBootInv ==
  \A g, h \in signed : g.boot = h.boot =>
    IsPrefix(g.root, h.root) \/ IsPrefix(h.root, g.root)

ProvenInv ==
  \A p \in proven :
    /\ p.boot <= boot
    /\ p.leaf.id = p.id
    /\ up /\ p.boot = boot => Holds(p, tree)
    /\ Clean(p.boot) => Holds(p, store)
    /\ up /\ Clean(p.boot) => Holds(p, tree)

\* A stopped process has no memory, and may start again.
DownInv ==
  ~up =>
    /\ boot < MaxBoots
    /\ tree = << >>
    /\ owner = NoWorker
    /\ \A w \in Worker : job[w] = Idle
    /\ loop = NoCall
    /\ cache = NoHead

\* The cached head commits to a prefix of the tree; so does the root the event
\* loop has read, and the size it read first lies between the two.
ServingInv ==
  /\ cache # NoHead =>
       /\ cache.size = Len(cache.root)
       /\ cache.epoch <= cache.size
       /\ IsPrefix(cache.root, tree)
  /\ loop.pc # "idle" =>
       /\ loop.size <= Len(tree)
       /\ cache # NoHead => cache.size <= loop.size
  /\ loop.pc = "rooted" =>
       /\ loop.size <= Len(loop.root)
       /\ IsPrefix(loop.root, tree)

IInv ==
  /\ TypeOK
  /\ LockInv
  /\ PendingInv
  /\ MirrorInv
  /\ IndexInv
  /\ SignedInv
  /\ SameBootInv
  /\ ProvenInv
  /\ DownInv
  /\ ServingInv
-----------------------------------------------------------------------------
\* What the operators give.

\* A job in the middle of an append has a leaf and a position, one building a
\* proof a manifest and a position; the first is a change of op from a job.
LEMMA JobFields ==
  ASSUME NEW j \in Job
  PROVE  /\ j.op \in {"treed", "indexed"} => j.leaf \in Leaf /\ j.pos \in Nat
         /\ j.op = "prove" => j.id \in ManifestId /\ j.pos \in Nat
         /\ j.op = "idle" => j = Idle
         /\ j.op = "treed" => [j EXCEPT !.op = "indexed"] \in Job
BY DEF Job, Idle

\* Keeping x or not adds at most x to what is held.
LEMMA KeptAddsOne ==
  ASSUME NEW held, NEW x, NEW bound, NEW k \in Kept(held, x, bound)
  PROVE  k \subseteq held \cup {x}
BY DEF Kept

\* The inductive invariant holds of the empty log.
THEOREM InitEstablishes == Init => IInv
<1> SUFFICES ASSUME Init PROVE IInv
  OBVIOUS
<1>1. TypeOK
  BY LogAssumption DEF Init, TypeOK, Job, Idle, Call, NoCall
<1>2. LockInv
  BY LogAssumption DEF Init, LockInv, Appending, Idle
<1>3. PendingInv /\ MirrorInv /\ IndexInv
  BY LogAssumption DEF Init, PendingInv, MirrorInv, IndexInv, Appending, Idle
<1>4. SignedInv /\ SameBootInv /\ ProvenInv /\ DownInv
  BY DEF Init, SignedInv, SameBootInv, ProvenInv, DownInv
<1>5. ServingInv
  BY DEF Init, ServingInv, NoCall
<1>6. QED
  BY <1>1, <1>2, <1>3, <1>4, <1>5 DEF IInv

-----------------------------------------------------------------------------
\* One lemma per action: it preserves the invariant.

LEMMA AppendToTreeStep ==
  ASSUME IInv, NEW w \in Worker, NEW leaf \in Leaf, AppendToTree(w, leaf)
  PROVE  IInv'
<1> DEFINE new == [op |-> "treed", leaf |-> leaf, pos |-> Len(tree) + 1]
<1> USE DEF AppendToTree, IInv
<1>1. /\ tree' \in Seq(Leaf)
      /\ Len(tree') = Len(tree) + 1
      /\ tree'[Len(tree) + 1] = leaf
      /\ \A i \in 1..Len(tree) : tree'[i] = tree[i]
  BY DEF TypeOK
<1>2. \A s \in Seq(Leaf) : IsPrefix(s, tree) => IsPrefix(s, tree')
  BY PrefixAppend DEF TypeOK
<1>3. /\ job' \in [Worker -> Job]
      /\ job'[w] = new
      /\ \A v \in Worker \ {w} : job'[v] = job[v]
  BY DEF TypeOK, Job
<1>4. \A v \in Worker : ~Appending(v)
  BY LogAssumption DEF LockInv
<1>5. TypeOK'
  BY <1>1, <1>3 DEF TypeOK, durable, serving, history
<1>6. LockInv'
  BY <1>3, <1>4 DEF LockInv, Appending
<1>7. PendingInv'
  BY <1>1, <1>3, <1>4 DEF PendingInv, Appending, TypeOK
<1>8. MirrorInv'
  BY <1>3, LogAssumption DEF MirrorInv, durable, history, Clean
<1>9. IndexInv'
  BY <1>1, <1>3 DEF IndexInv, TypeOK
<1>10. SignedInv' /\ SameBootInv'
  BY <1>2 DEF SignedInv, SameBootInv, durable, history, Clean, TypeOK, Commitment
<1>11. ProvenInv'
  BY <1>1 DEF ProvenInv, Holds, durable, history, Clean, TypeOK, Proof
<1>12. DownInv'
  BY DEF DownInv
<1>13. ServingInv'
  BY <1>1, <1>2 DEF ServingInv, serving, TypeOK, SignedHead, Call
<1>14. QED
  BY <1>5, <1>6, <1>7, <1>8, <1>9, <1>10, <1>11, <1>12, <1>13

LEMMA SetIndexStep ==
  ASSUME IInv, NEW w \in Worker, SetIndex(w)
  PROVE  IInv'
<1> USE DEF SetIndex, IInv
<1>1. /\ job[w] \in Job
      /\ Appending(w)
      /\ job[w].leaf \in Leaf
      /\ job[w].pos \in 1..Len(tree)
      /\ tree[job[w].pos] = job[w].leaf
  BY JobFields DEF TypeOK, Appending, PendingInv
<1>2. /\ job' \in [Worker -> Job]
      /\ job'[w].op = "indexed"
      /\ job'[w].leaf = job[w].leaf
      /\ job'[w].pos = job[w].pos
      /\ \A v \in Worker \ {w} : job'[v] = job[v]
  BY <1>1, JobFields DEF TypeOK
<1>3. /\ index' \in [ManifestId -> 0..Len(tree)]
      /\ index'[job[w].leaf.id] = job[w].pos
      /\ \A m \in ManifestId \ {job[w].leaf.id} : index'[m] = index[m]
  BY <1>1 DEF TypeOK, Leaf
<1>4. TypeOK'
  BY <1>2, <1>3 DEF TypeOK, durable, serving, history
<1>5. LockInv' /\ PendingInv' /\ MirrorInv'
  BY <1>1, <1>2 DEF LockInv, PendingInv, MirrorInv, Appending, Clean, durable, history
<1>6. IndexInv'
  BY <1>1, <1>2, <1>3 DEF IndexInv
<1>7. SignedInv' /\ SameBootInv' /\ ProvenInv'
  BY DEF SignedInv, SameBootInv, ProvenInv, Holds, Clean, durable, history
<1>8. DownInv'
  BY DEF DownInv, Idle
<1>9. ServingInv'
  BY DEF ServingInv, serving
<1>10. QED
  BY <1>4, <1>5, <1>6, <1>7, <1>8, <1>9

\* The lock is released, whether or not the leaf reached the store.
LEMMA ReleaseStep ==
  ASSUME IInv, NEW w \in Worker, StoreLeaf(w) \/ StoreRaises(w)
  PROVE  IInv'
<1> USE DEF IInv
<1>1. /\ job[w].op = "indexed"
      /\ owner' = NoWorker
      /\ job' = [job EXCEPT ![w] = Idle]
      /\ UNCHANGED <<boot, up, tree, index, serving, signed, proven>>
  BY DEF StoreLeaf, StoreRaises, history
<1>2. \/ store' = Append(store, job[w].leaf) /\ lossy' = lossy
      \/ store' = store /\ lossy' = lossy \cup {boot}
  BY DEF StoreLeaf, StoreRaises, history
<1>3. Appending(w) /\ owner = w /\ job[w].leaf \in Leaf
  BY <1>1, JobFields DEF LockInv, Appending, TypeOK
<1>4. /\ job' \in [Worker -> Job]
      /\ job'[w] = Idle
      /\ \A v \in Worker \ {w} : job'[v] = job[v]
  BY <1>1 DEF TypeOK, Job
<1>5. store' \in Seq(Leaf)
  BY <1>2, <1>3 DEF TypeOK
<1>6. \A s \in Seq(Leaf) : IsPrefix(s, store) => IsPrefix(s, store')
  BY <1>2, <1>3, PrefixAppend DEF TypeOK
<1>7. \A i \in 1..Len(store) : i \in 1..Len(store') /\ store'[i] = store[i]
  BY <1>2, <1>3 DEF TypeOK
<1>8. TypeOK'
  BY <1>1, <1>2, <1>4, <1>5 DEF TypeOK, serving
<1>9. LockInv' /\ PendingInv'
  BY <1>1, <1>3, <1>4, LogAssumption DEF LockInv, PendingInv, Appending, Idle
<1>10. MirrorInv'
  BY <1>1, <1>2, <1>3, LogAssumption DEF MirrorInv, Clean
<1>11. IndexInv'
  BY <1>1, <1>4 DEF IndexInv, Idle
<1>12. SignedInv' /\ SameBootInv'
  BY <1>1, <1>2, <1>6 DEF SignedInv, SameBootInv, Clean, TypeOK, Commitment
<1>13. ProvenInv'
  BY <1>1, <1>2, <1>7 DEF ProvenInv, Holds, Clean, TypeOK, Proof
<1>14. DownInv'
  BY <1>1, <1>4 DEF DownInv, Idle
<1>15. ServingInv'
  BY <1>1 DEF ServingInv, serving
<1>16. QED
  BY <1>8, <1>9, <1>10, <1>11, <1>12, <1>13, <1>14, <1>15

LEMMA LookUpIndexStep ==
  ASSUME IInv, NEW w \in Worker, NEW m \in ManifestId, LookUpIndex(w, m)
  PROVE  IInv'
<1> DEFINE new == [op |-> "prove", id |-> m, pos |-> index[m]]
<1> USE DEF LookUpIndex, IInv
<1>1. index[m] \in 1..Len(tree) /\ tree[index[m]].id = m
  BY DEF TypeOK, IndexInv
<1>2. /\ job' \in [Worker -> Job]
      /\ job'[w] = new
      /\ \A v \in Worker \ {w} : job'[v] = job[v]
  BY <1>1 DEF TypeOK, Job
<1>3. TypeOK'
  BY <1>2 DEF TypeOK, durable, serving, history
<1>4. LockInv' /\ PendingInv' /\ MirrorInv'
  BY <1>2 DEF LockInv, PendingInv, MirrorInv, Appending, Idle, Clean, durable, history
<1>5. IndexInv'
  BY <1>1, <1>2 DEF IndexInv
<1>6. SignedInv' /\ SameBootInv' /\ ProvenInv'
  BY DEF SignedInv, SameBootInv, ProvenInv, Holds, Clean, durable, history
<1>7. DownInv' /\ ServingInv'
  BY DEF DownInv, ServingInv, serving
<1>8. QED
  BY <1>3, <1>4, <1>5, <1>6, <1>7

\* A head of the live tree joins the kept ones, the lock being free.
LEMMA SignLiveTree ==
  ASSUME IInv, up, owner = NoWorker, NEW epoch, NEW bound,
         signed' \in Kept(signed, CommittedTo(Checkpoint(epoch)), bound),
         UNCHANGED <<store, up, boot, tree, lossy>>
  PROVE  signed' \subseteq Commitment /\ SignedInv' /\ SameBootInv'
<1> DEFINE new == CommittedTo(Checkpoint(epoch))
<1> USE DEF IInv
<1>1. signed' \subseteq signed \cup {new}
  BY KeptAddsOne
<1>2. new \in Commitment /\ new.boot = boot /\ new.root = tree
  BY DEF CommittedTo, Checkpoint, Commitment, TypeOK
<1>3. IsPrefix(tree, tree) /\ (Clean(boot) => tree = store)
  BY PrefixRefl DEF MirrorInv, TypeOK
<1> HIDE DEF new
<1>4. signed' \subseteq Commitment
  BY <1>1, <1>2 DEF TypeOK
<1>5. SignedInv'
  BY <1>1, <1>2, <1>3 DEF SignedInv, Clean, TypeOK
<1>6. SameBootInv'
  BY <1>1, <1>2, <1>3 DEF SignedInv, SameBootInv
<1>7. QED
  BY <1>4, <1>5, <1>6

LEMMA SignProofStep ==
  ASSUME IInv, NEW w \in Worker, SignProof(w)
  PROVE  IInv'
<1> DEFINE new == ProofAt(job[w].id, job[w].pos)
<1> USE DEF SignProof, IInv
<1>1. up
  BY DEF DownInv, Idle
<1>2. signed' \subseteq Commitment /\ SignedInv' /\ SameBootInv'
  BY <1>1, SignLiveTree DEF durable
<1>3. /\ job[w].id \in ManifestId
      /\ job[w].pos \in 1..Len(tree)
      /\ tree[job[w].pos] \in Leaf
      /\ tree[job[w].pos].id = job[w].id
  <2>1. job[w] \in Job /\ job[w].op = "prove"
    BY DEF TypeOK
  <2>2. job[w].id \in ManifestId
    BY <2>1, JobFields
  <2>3. job[w].pos \in 1..Len(tree) /\ tree[job[w].pos].id = job[w].id
    BY <2>1 DEF IndexInv
  <2>4. tree[job[w].pos] \in Leaf
    BY <2>3 DEF TypeOK
  <2>5. QED
    BY <2>2, <2>3, <2>4
<1>4. /\ new \in Proof
      /\ new.boot = boot
      /\ new.leaf.id = new.id
      /\ Holds(new, tree)
  BY <1>3 DEF ProofAt, Proof, Holds, TypeOK
<1>5. Clean(boot) => tree = store
  BY <1>1 DEF MirrorInv
<1>6. proven' \subseteq proven \cup {new}
  BY KeptAddsOne
<1> HIDE DEF new
<1>7. /\ job' \in [Worker -> Job]
      /\ job'[w] = Idle
      /\ \A v \in Worker \ {w} : job'[v] = job[v]
  BY DEF TypeOK, Job
<1>8. TypeOK'
  BY <1>2, <1>4, <1>6, <1>7 DEF TypeOK, durable, serving
<1>9. LockInv' /\ PendingInv' /\ MirrorInv'
  BY <1>7 DEF LockInv, PendingInv, MirrorInv, Appending, Idle, Clean, durable
<1>10. IndexInv'
  BY <1>7 DEF IndexInv, Idle
<1>11. ProvenInv'
  <2> SUFFICES ASSUME NEW p \in proven'
               PROVE  /\ p.boot <= boot
                      /\ p.leaf.id = p.id
                      /\ up /\ p.boot = boot => Holds(p, tree)
                      /\ Clean(p.boot) => Holds(p, store)
                      /\ up /\ Clean(p.boot) => Holds(p, tree)
    BY DEF ProvenInv, durable, Clean, Holds
  <2>1. CASE p \in proven
    BY <2>1 DEF ProvenInv
  <2>2. CASE p = new
    BY <1>4, <1>5, <2>2 DEF TypeOK
  <2>3. QED
    BY <1>6, <2>1, <2>2
<1>12. DownInv' /\ ServingInv'
  BY <1>1 DEF DownInv, ServingInv, serving, durable
<1>13. QED
  BY <1>2, <1>8, <1>9, <1>10, <1>11, <1>12

LEMMA SignConsistencyStep ==
  ASSUME IInv, NEW w \in Worker, SignConsistency(w)
  PROVE  IInv'
<1> USE DEF SignConsistency, IInv
<1>1. signed' \subseteq Commitment /\ SignedInv' /\ SameBootInv'
  BY SignLiveTree DEF durable, memory
<1>2. TypeOK'
  BY <1>1 DEF TypeOK, durable, memory, serving
<1>3. LockInv' /\ PendingInv' /\ MirrorInv' /\ IndexInv'
  BY DEF LockInv, PendingInv, MirrorInv, IndexInv, Appending, Clean, durable, memory
<1>4. ProvenInv' /\ DownInv' /\ ServingInv'
  BY DEF ProvenInv, Holds, Clean, DownInv, ServingInv, durable, memory, serving
<1>5. QED
  BY <1>1, <1>2, <1>3, <1>4

\* The event loop reads, or serves what is cached: the log is not touched.
LEMMA ReadStep ==
  ASSUME IInv, ReadSize \/ ReadRoot \/ ServeCached
  PROVE  IInv'
<1> USE DEF IInv
<1>1. up /\ UNCHANGED <<durable, up, memory, cache, history>>
  BY DEF ReadSize, ReadRoot, ServeCached, DownInv, NoCall
<1>2. UNCHANGED <<store, boot, tree, index, owner, job, signed, proven, lossy>>
  BY <1>1 DEF durable, memory, history
<1>3. loop' \in Call
  <2>1. tree \in Seq(Leaf) /\ Len(tree) \in Nat
    BY DEF TypeOK
  <2>2. CASE ReadSize
    <3>1. loop' = [pc |-> "sized", size |-> Len(tree), root |-> << >>]
      BY <2>2 DEF ReadSize, NoCall
    <3>2. << >> \in Seq(Leaf)
      OBVIOUS
    <3>3. QED
      BY <2>1, <3>1, <3>2 DEF Call
  <2>3. CASE ReadRoot
    <3>1. loop \in Call /\ loop' = [loop EXCEPT !.pc = "rooted", !.root = tree]
      BY <2>3 DEF ReadRoot, TypeOK
    <3>2. loop' = [pc |-> "rooted", size |-> loop.size, root |-> tree]
      BY <3>1 DEF Call
    <3>3. loop.size \in Nat
      BY <3>1 DEF Call
    <3>4. QED
      BY <2>1, <3>2, <3>3 DEF Call
  <2>4. CASE ServeCached
    BY <2>4 DEF ServeCached, NoCall, Call
  <2>5. QED
    BY <2>2, <2>3, <2>4
<1>4. TypeOK'
  BY <1>1, <1>2, <1>3 DEF TypeOK
<1>5. LockInv' /\ PendingInv' /\ MirrorInv' /\ IndexInv'
  BY <1>1, <1>2 DEF LockInv, PendingInv, MirrorInv, IndexInv, Appending, Clean
<1>6. SignedInv' /\ SameBootInv' /\ ProvenInv' /\ DownInv'
  BY <1>1, <1>2 DEF SignedInv, SameBootInv, ProvenInv, Holds, Clean, DownInv
<1>7. cache # NoHead => cache.size <= Len(tree)
  BY PrefixPointwise DEF ServingInv, TypeOK, SignedHead
<1>8. ServingInv'
  <2>1. CASE ReadSize
    BY <1>1, <1>2, <1>7, <2>1 DEF ReadSize, ServingInv, NoCall, TypeOK
  <2>2. CASE ReadRoot
    <3>1. loop'.pc = "rooted" /\ loop'.size = loop.size /\ loop'.root = tree
      BY <2>2 DEF ReadRoot, TypeOK, Call
    <3>2. IsPrefix(tree, tree)
      BY PrefixRefl DEF TypeOK
    <3>3. QED
      BY <1>1, <1>2, <2>2, <3>1, <3>2 DEF ReadRoot, ServingInv
  <2>3. CASE ServeCached
    BY <1>1, <1>2, <2>3 DEF ServeCached, ServingInv, NoCall
  <2>4. QED
    BY <2>1, <2>2, <2>3
<1>9. QED
  BY <1>4, <1>5, <1>6, <1>8

LEMMA SignHeadStep ==
  ASSUME IInv, SignHead
  PROVE  IInv'
<1> USE DEF SignHead, IInv
<1>1. up
  BY DEF DownInv, NoCall
<1>2. signed' \subseteq Commitment /\ SignedInv' /\ SameBootInv'
  BY <1>1, SignLiveTree DEF durable, memory
<1>3. /\ cache'.epoch = loop.size /\ cache'.size = Len(tree) /\ cache'.root = tree
      /\ cache' \in SignedHead
  <2>1. loop.size \in Nat /\ tree \in Seq(Leaf) /\ Len(tree) \in Nat
    BY DEF TypeOK, Call
  <2>2. cache' = [epoch |-> loop.size, size |-> Len(tree), root |-> tree]
    BY DEF Checkpoint
  <2>3. QED
    BY <2>1, <2>2 DEF SignedHead
<1>4. TypeOK'
  BY <1>2, <1>3 DEF TypeOK, NoCall, Call, durable, memory
<1>5. LockInv' /\ PendingInv' /\ MirrorInv' /\ IndexInv'
  BY DEF LockInv, PendingInv, MirrorInv, IndexInv, Appending, Clean, durable, memory
<1>6. ProvenInv' /\ DownInv'
  BY <1>1 DEF ProvenInv, Holds, Clean, DownInv, durable, memory
<1>7. IsPrefix(tree, tree)
  BY PrefixRefl DEF TypeOK
<1>8. ServingInv'
  BY <1>3, <1>7 DEF ServingInv, NoCall, memory
<1>9. QED
  BY <1>2, <1>4, <1>5, <1>6, <1>8

LEMMA CrashStep ==
  ASSUME IInv, Crash
  PROVE  IInv'
<1> USE DEF Crash, IInv
<1>1. job' \in [Worker -> Job] /\ \A w \in Worker : job'[w] = Idle
  BY DEF Job
<1>2. TypeOK'
  <2>1. tree' \in Seq(Leaf) /\ Len(tree') = 0
    OBVIOUS
  <2>2. index' \in [ManifestId -> 0..Len(tree')]
    BY <2>1
  <2>3. loop' \in Call
    BY DEF NoCall, Call
  <2>4. QED
    BY <1>1, <2>1, <2>2, <2>3 DEF TypeOK, durable, history
<1>3. LockInv' /\ PendingInv' /\ MirrorInv' /\ IndexInv'
  BY <1>1, LogAssumption
  DEF LockInv, PendingInv, MirrorInv, IndexInv, Appending, Idle
<1>4. SignedInv' /\ SameBootInv' /\ ProvenInv'
  BY DEF SignedInv, SameBootInv, ProvenInv, Holds, Clean, durable, history
<1>5. DownInv' /\ ServingInv'
  BY <1>1 DEF DownInv, ServingInv, NoCall, durable
<1>6. QED
  BY <1>2, <1>3, <1>4, <1>5

LEMMA RestartStep ==
  ASSUME IInv, Restart
  PROVE  IInv'
<1> USE DEF Restart, IInv
<1>1. index' \in [ManifestId -> 0..Len(store)]
  OBVIOUS
<1>2. \A m \in ManifestId : index'[m] # 0 => store[index'[m]].id = m
  BY <1>1 DEF IsLastOf
<1>3. boot' = boot + 1 /\ boot' \in 1..MaxBoots
  <2>1. boot \in 1..MaxBoots /\ boot < MaxBoots /\ MaxBoots \in Nat
    BY LogAssumption DEF DownInv, TypeOK
  <2>2. QED
    BY <2>1
<1>4. /\ UNCHANGED <<store, owner, job, loop, cache, signed, proven, lossy>>
      /\ owner = NoWorker /\ loop = NoCall /\ cache = NoHead
      /\ \A w \in Worker : job[w] = Idle
  BY DEF DownInv, serving, history
<1>5. TypeOK'
  BY <1>1, <1>3, <1>4 DEF TypeOK
<1>6. LockInv' /\ PendingInv' /\ MirrorInv' /\ IndexInv'
  BY <1>2, <1>4, LogAssumption
  DEF LockInv, PendingInv, MirrorInv, IndexInv, Appending, Idle
<1>7. SignedInv'
  BY <1>3, <1>4 DEF SignedInv, Clean, TypeOK, Commitment
<1>8. SameBootInv'
  BY <1>4 DEF SameBootInv
<1>9. ProvenInv'
  BY <1>3, <1>4 DEF ProvenInv, Holds, Clean, TypeOK, Proof
<1>10. DownInv' /\ ServingInv'
  BY <1>4 DEF DownInv, ServingInv, NoCall
<1>11. QED
  BY <1>5, <1>6, <1>7, <1>8, <1>9, <1>10

LEMMA StutterStep ==
  ASSUME IInv, UNCHANGED vars
  PROVE  IInv'
<1> USE DEF IInv, vars, durable, memory, serving, history
<1>1. TypeOK'
  BY DEF TypeOK
<1>2. LockInv' /\ PendingInv' /\ MirrorInv' /\ IndexInv'
  BY DEF LockInv, PendingInv, MirrorInv, IndexInv, Appending, Clean
<1>3. SignedInv' /\ SameBootInv' /\ ProvenInv'
  BY DEF SignedInv, SameBootInv, ProvenInv, Holds, Clean
<1>4. DownInv' /\ ServingInv'
  BY DEF DownInv, ServingInv
<1>5. QED
  BY <1>1, <1>2, <1>3, <1>4

\* Every step of the process, its threads, its event loop and its crashes
\* preserves the invariant.
THEOREM NextPreserves == IInv /\ [Next]_vars => IInv'
<1> SUFFICES ASSUME IInv, [Next]_vars PROVE IInv'
  OBVIOUS
<1>1. ASSUME NEW w \in Worker, Work(w) PROVE IInv'
  BY <1>1, AppendToTreeStep, SetIndexStep, ReleaseStep, LookUpIndexStep,
     SignProofStep, SignConsistencyStep
  DEF Work
<1>2. CASE Serve
  BY <1>2, ReadStep, SignHeadStep DEF Serve
<1>3. CASE Crash
  BY <1>3, CrashStep
<1>4. CASE Restart
  BY <1>4, RestartStep
<1>5. CASE UNCHANGED vars
  BY <1>5, StutterStep
<1>6. QED
  BY <1>1, <1>2, <1>3, <1>4, <1>5 DEF Next

\* IInv holds in every reachable state of the log, whatever the numbers of
\* manifests, workers, leaves, restarts and auditors.
THEOREM Invariant == Spec => []IInv
<1>1. QED
  BY InitEstablishes, NextPreserves, PTL DEF Spec

-----------------------------------------------------------------------------
\* What auditors may rely on.

\* Every variable keeps its type: in particular no index entry ever points past
\* the end of the tree it indexes.
THEOREM TypeCorrect == Spec => []TypeOK
<1>1. IInv => TypeOK
  BY DEF IInv
<1>2. QED
  BY <1>1, Invariant, PTL

\* snapshot() is consistent across the tree and the database whenever the lock is
\* free, in every start of the process in which no INSERT failed.
THEOREM SnapshotIsConsistent == Spec => []SnapshotAgrees
<1>1. IInv => SnapshotAgrees
  BY DEF IInv, MirrorInv, SnapshotAgrees, Snapshot
<1>2. QED
  BY <1>1, Invariant, PTL

\* The log never signs two heads that contradict each other, through crashes and
\* restarts at any step of any append.
THEOREM NeverForks == Spec => []NoFork
<1>1. IInv => NoFork
  <2> SUFFICES ASSUME IInv, NEW g \in signed, NEW h \in signed,
                      g.boot = h.boot \/ (Clean(g.boot) /\ Clean(h.boot))
               PROVE  IsPrefix(g.root, h.root) \/ IsPrefix(h.root, g.root)
    BY DEF NoFork
  <2>1. CASE g.boot = h.boot
    BY <2>1 DEF IInv, SameBootInv
  <2>2. CASE Clean(g.boot) /\ Clean(h.boot)
    <3>1. IsPrefix(g.root, store) /\ IsPrefix(h.root, store)
      BY <2>2 DEF IInv, SignedInv
    <3>2. g.root \in Seq(Leaf) /\ h.root \in Seq(Leaf) /\ store \in Seq(Leaf)
      BY DEF IInv, TypeOK, Commitment
    <3>3. QED
      BY <3>1, <3>2, PrefixesComparable
  <2>3. QED
    BY <2>1, <2>2
<1>2. QED
  BY <1>1, Invariant, PTL

\* An inclusion proof, once served, is true of every later running log, whatever
\* was appended or restarted since.
THEOREM ProofsNeverGoStale == Spec => []ProofsStayTrue
<1>1. IInv => ProofsStayTrue
  BY DEF IInv, ProvenInv, Holds, ProofsStayTrue
<1>2. QED
  BY <1>1, Invariant, PTL

\* The only way past the cached head is a tree that has grown since it was signed.
LEMMA SignHeadNeedsGrowth ==
  ASSUME IInv, SignHead, cache # NoHead
  PROVE  IsStrictPrefix(cache.root, cache'.root)
<1>1. cache'.root = tree
  BY DEF SignHead, Checkpoint
<1>2. /\ cache.size = Len(cache.root)
      /\ IsPrefix(cache.root, tree)
      /\ cache.size <= loop.size
      /\ loop.size <= Len(tree)
      /\ loop.size <= Len(loop.root)
      /\ IsPrefix(loop.root, tree)
  BY DEF IInv, ServingInv, SignHead
<1>3. /\ tree \in Seq(Leaf) /\ loop.root \in Seq(Leaf) /\ loop.size \in Nat
      /\ cache.root \in Seq(Leaf)
  BY DEF IInv, TypeOK, Call, SignedHead
<1>4. cache.root # tree
  <2> SUFFICES ASSUME cache.root = tree PROVE FALSE
    OBVIOUS
  <2>1. loop.size = Len(tree)
    BY <1>2, <1>3
  <2>2. loop.root = tree
    BY <1>2, <1>3, <2>1, PrefixSameLength
  <2>3. CacheHit
    BY <1>2, <2>1, <2>2 DEF CacheHit
  <2>4. QED
    BY <2>3 DEF SignHead
<1>5. QED
  BY <1>1, <1>2, <1>4 DEF IsStrictPrefix

\* One tree state, one signed head per start of the process: re-reading an
\* unchanged log returns the checkpoint that was signed for it.
THEOREM HeadsAreReproducible == Spec => HeadReproducible
<1>1. IInv /\ [Next]_vars =>
        [SignHead /\ cache # NoHead => IsStrictPrefix(cache.root, cache'.root)]_vars
  BY SignHeadNeedsGrowth
<1>2. QED
  BY <1>1, Invariant, PTL DEF Spec, HeadReproducible

\* A served head covers every leaf that was in the tree when the request looked.
THEOREM HeadsAreFresh == Spec => HeadNotStale
<1> DEFINE Fresh == loop.pc = "rooted" /\ loop'.pc = "idle" /\ up' =>
                      /\ IsPrefix(loop.root, cache'.root)
                      /\ loop.size <= cache'.size
                      /\ cache'.epoch <= cache'.size
<1>1. ASSUME IInv, [Next]_vars, loop.pc = "rooted", loop'.pc = "idle", up'
      PROVE  ServeCached \/ SignHead
  <2>1. up
    BY <1>1 DEF IInv, DownInv, NoCall
  <2>2. loop' # loop
    BY <1>1
  <2>3. ASSUME NEW w \in Worker, Work(w) PROVE FALSE
    BY <2>2, <2>3
    DEF Work, AppendToTree, SetIndex, StoreLeaf, StoreRaises, LookUpIndex,
        SignProof, SignConsistency, serving
  <2>4. ~ReadSize /\ ~ReadRoot /\ ~Crash /\ ~Restart
    BY <1>1, <2>1 DEF ReadSize, ReadRoot, Crash, Restart
  <2>5. QED
    BY <1>1, <2>2, <2>3, <2>4 DEF Next, Serve, vars, serving
<1>2. ASSUME IInv, ServeCached PROVE Fresh
  <2>1. IsPrefix(loop.root, loop.root)
    BY <1>2, PrefixRefl DEF IInv, TypeOK, Call
  <2>2. cache'.size \in Nat /\ cache'.epoch <= cache'.size
    BY <1>2 DEF IInv, TypeOK, SignedHead, ServingInv, ServeCached, CacheHit
  <2>3. QED
    BY <1>2, <2>1, <2>2 DEF ServeCached, CacheHit
<1>3. ASSUME IInv, SignHead PROVE Fresh
  BY <1>3 DEF IInv, ServingInv, SignHead, Checkpoint
<1>4. IInv /\ [Next]_vars => [Fresh]_vars
  BY <1>1, <1>2, <1>3
<1>5. QED
  BY <1>4, Invariant, PTL DEF Spec, HeadNotStale

-----------------------------------------------------------------------------
\* Refinement.

\* Without failing INSERTs no start of the process loses a leaf.
LEMMA NeverLossy ==
  ASSUME StoreMayFail = FALSE
  PROVE  Spec => [](lossy = {})
<1>1. Init => lossy = {}
  BY DEF Init
<1>2. lossy = {} /\ [Next]_vars => (lossy = {})'
  <2> SUFFICES ASSUME lossy = {}, [Next]_vars PROVE lossy' = {}
    OBVIOUS
  <2>1. ASSUME NEW w \in Worker, Work(w) PROVE lossy' = lossy
    BY <2>1
    DEF Work, AppendToTree, SetIndex, StoreLeaf, StoreRaises, LookUpIndex,
        SignProof, SignConsistency, history
  <2>2. CASE Serve
    BY <2>2 DEF Serve, ReadSize, ReadRoot, ServeCached, SignHead, history
  <2>3. CASE Crash \/ Restart
    BY <2>3 DEF Crash, Restart, history
  <2>4. QED
    BY <2>1, <2>2, <2>3 DEF Next, vars, history
<1>3. QED
  BY <1>1, <1>2, PTL DEF Spec

\* Signing a head publishes the ledger as it is, or is not seen by any auditor.
LEMMA SigningPublishes ==
  ASSUME IInv, up, Clean(boot), owner = NoWorker, NEW epoch, NEW bound,
         signed' \in Kept(signed, CommittedTo(Checkpoint(epoch)), bound),
         UNCHANGED store
  PROVE  [Ledger!Next]_(Ledger!ledgerVars)
<1> DEFINE new == CommittedTo(Checkpoint(epoch))
<1>1. new.root = store
  BY DEF CommittedTo, Checkpoint, IInv, MirrorInv
<1>2. CASE signed' = signed
  BY <1>2 DEF Ledger!ledgerVars
<1>3. CASE signed' = signed \cup {new}
  <2> HIDE DEF new
  <2>1. {h.root : h \in signed}' = {h.root : h \in signed} \cup {store}
    BY <1>1, <1>3
  <2>2. Ledger!Publish
    BY <2>1 DEF Ledger!Publish
  <2>3. QED
    BY <2>2 DEF Ledger!Next
<1>4. QED
  BY <1>2, <1>3 DEF Kept

\* When no INSERT fails, the whole of it - threads, lock, unlocked reads, cache,
\* crashes, replay - implements one ledger that only grows and whose published
\* heads are the ledger at the moment of publication.
THEOREM ImplementsAppendOnlyLog ==
  ASSUME StoreMayFail = FALSE
  PROVE  Spec => ImplementsLedger
<1>1. Init => Ledger!Init
  BY DEF Init, Ledger!Init
<1>2. ASSUME IInv, lossy = {}, [Next]_vars
      PROVE  [Ledger!Next]_(Ledger!ledgerVars)
  <2> USE <1>2
  <2>1. ASSUME NEW w \in Worker, StoreLeaf(w)
        PROVE  [Ledger!Next]_(Ledger!ledgerVars)
    <3>1. job[w].leaf \in Leaf
      BY <2>1, JobFields DEF StoreLeaf, IInv, TypeOK
    <3>2. Ledger!Extend(job[w].leaf)
      BY <2>1 DEF StoreLeaf, history, Ledger!Extend
    <3>3. QED
      BY <3>1, <3>2 DEF Ledger!Next
  <2>2. ASSUME NEW w \in Worker, SignProof(w) \/ SignConsistency(w)
        PROVE  [Ledger!Next]_(Ledger!ledgerVars)
    <3>1. up
      BY <2>2 DEF SignProof, SignConsistency, IInv, DownInv, Idle
    <3>2. QED
      BY <2>2, <3>1, SigningPublishes DEF SignProof, SignConsistency, Clean, durable
  <2>3. CASE SignHead
    <3>1. up
      BY <2>3 DEF SignHead, IInv, DownInv, NoCall
    <3>2. signed' \in Kept(signed, CommittedTo(Checkpoint(loop.size)), MaxHeads)
      BY <2>3 DEF SignHead
    <3>3. QED
      BY <2>3, <3>1, <3>2, SigningPublishes DEF SignHead, Clean, durable
  <2>4. ASSUME UNCHANGED <<store, signed>>
        PROVE  [Ledger!Next]_(Ledger!ledgerVars)
    BY <2>4 DEF Ledger!ledgerVars
  <2>5. ASSUME NEW w \in Worker, Work(w)
        PROVE  [Ledger!Next]_(Ledger!ledgerVars)
    BY <2>1, <2>2, <2>4, <2>5
    DEF Work, AppendToTree, SetIndex, StoreRaises, LookUpIndex, durable, history
  <2>6. CASE Serve
    BY <2>3, <2>4, <2>6 DEF Serve, ReadSize, ReadRoot, ServeCached, durable, history
  <2>7. CASE Crash \/ Restart \/ UNCHANGED vars
    BY <2>4, <2>7 DEF Crash, Restart, vars, durable, history
  <2>8. QED
    BY <2>5, <2>6, <2>7 DEF Next
<1>3. QED
  BY <1>1, <1>2, Invariant, NeverLossy, PTL DEF Spec, ImplementsLedger, Ledger!Spec

\* So the code keeps the ledger's promises: as long as no INSERT fails, no process,
\* restart or race ever shows two auditors heads that tell different stories.
THEOREM CodeKeepsHistory ==
  ASSUME StoreMayFail = FALSE
  PROVE  Spec => [](Ledger!HeadsAreHistory /\ Ledger!SingleHistory)
BY ImplementsAppendOnlyLog, HeadsStayHistory, HistoryIsSingle, PTL DEF ImplementsLedger
=============================================================================
