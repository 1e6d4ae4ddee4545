--------------------------- MODULE ReceiptsProofs ----------------------------
(***************************************************************************)
(* Proofs about Receipts, for every set of manifests, every number of      *)
(* receipts and restarts, and receipts put together in any way.            *)
(*                                                                         *)
(* A verdict is reached in three reads of a log that grows in between.  It *)
(* is true because a leaf never moves and never changes: the index read    *)
(* first is the manifest's only position in every later state (CallInv),   *)
(* and its hash is that of the manifest read second (LogInv).              *)
(***************************************************************************)
EXTENDS Receipts, SequenceTheorems, TLAPS

Hash == {Canonical(b) : b \in Body}

Leaf == [id : ManifestId, hash : Hash]

Tree == Seq(Leaf)

Receipt == [id : ManifestId, leafHash : Hash, leafIndex : Nat, size : Nat, root : Tree,
            path : [leaf : Nat, tree : Tree], checkpoint : [root : Tree, key : Nat], life : Nat]

Call == [pc : {"idle", "index", "lookup", "proof", "authentic", "record", "fallback", "done"},
         what : {"none", "issue", "verify", "tamper", "clash"}, id : ManifestId \cup {Nothing},
         sub : Receipt \cup Body \cup Claim \cup {Nothing}, index : Nat,
         body : Body \cup {Nothing}, size : Nat, signed : BOOLEAN,
         source : {"none", "registry", "demo"}, verdict : BOOLEAN]

TypeInv ==
  /\ conf \in [persistent : BOOLEAN, keySource : {"configured", "ephemeral"}]
  /\ registry \in [ManifestId -> Body \cup {Nothing}]
  /\ leaves \in Tree
  /\ key \in Nat /\ life \in Nat
  /\ receipts \subseteq Receipt
  /\ call \in Call

\* A manifest is registered under its own id, the demo's as the server builds it.
RegistryInv ==
  /\ \A m \in ManifestId : registry[m] # Nothing => registry[m].id = m
  /\ registry[Primary] \in {Nothing, PrimaryBody, LegacyPrimary}

\* A leaf is that of its registered manifest, which has no other.
LogInv ==
  /\ \A i \in DOMAIN leaves :
       /\ registry[leaves[i].id] # Nothing
       /\ leaves[i].hash = Canonical(registry[leaves[i].id])
  /\ \A i, j \in DOMAIN leaves : leaves[i].id = leaves[j].id => i = j

\* t has one leaf of m, at position i.
OnlyLeaf(t, i, m) ==
  /\ i \in DOMAIN t /\ t[i].id = m
  /\ \A j \in DOMAIN t : t[j].id = m => j = i

\* A receipt that was issued is of one state of one log, ...
OfOneState(r) ==
  /\ OnlyLeaf(r.root, r.leafIndex + 1, r.id)
  /\ r.root[r.leafIndex + 1].hash = r.leafHash
  /\ r.size = Len(r.root)
  /\ r.path = Path(r.leafIndex + 1, r.root)
  /\ r.checkpoint.root = r.root

\* ... and of the manifest that is registered, if the registry is still that one.
OfRegistered(r) ==
  /\ r.life <= life
  /\ OfThisRegistry(r) =>
       registry[r.id] # Nothing /\ r.leafHash = Canonical(registry[r.id])

ReceiptInv == \A r \in receipts : OfOneState(r) /\ OfRegistered(r)

\* What a tamper diff has compared: the registry's answer is still what is registered.
TamperInv ==
  /\ call.pc = "authentic" => call.what = "tamper"
  /\ call.what = "tamper" => call.sub \in Body /\ call.id = call.sub.id
  /\ Judged =>
       \/ /\ call.source = "registry" /\ registry[call.id] # Nothing
          /\ call.verdict <=> call.signed /\ ~Differs(call.sub, registry[call.id])
       \/ /\ call.source = "demo"
          /\ call.verdict <=> call.signed /\ ~Differs(call.sub, PrimaryBody)

\* What an integrity clash was found in: the record it answers for is still registered.
ClashInv ==
  /\ call.pc \in {"record", "fallback"} => call.what = "clash" /\ call.id = Nothing
  /\ call.what = "clash" => call.sub \in Claim \cup {Nothing}
  /\ call.what = "clash" /\ call.pc = "done" /\ call.id # Nothing =>
       /\ call.sub \in Claim /\ registry[call.id] # Nothing
       /\ call.verdict <=> Clash(Redacted(registry[call.id]), call.sub)

\* What a call has read is still so.
CallInv ==
  /\ call.pc \in {"index", "lookup", "proof"} =>
       call.id \in ManifestId /\ call.what \in {"issue", "verify"} /\ ~call.verdict /\ call.size = 0
  /\ call.pc \in {"lookup", "proof"} /\ call.index # 0 => OnlyLeaf(leaves, call.index, call.id)
  /\ call.pc = "proof" =>
       call.index # 0 /\ registry[call.id] # Nothing /\ call.body = registry[call.id]
  /\ call.what = "verify" => call.sub \in Receipt /\ call.size <= Len(leaves)
  /\ TamperInv /\ ClashInv

ReceiptsInv ==
  TypeInv /\ RegistryInv /\ LogInv /\ ReceiptInv /\ CallInv /\ VerdictIsTrue

-----------------------------------------------------------------------------
\* Hashes and positions.

\* Hashing and redacting a manifest.
LEMMA CanonicalFacts ==
  ASSUME NEW b \in Body
  PROVE  /\ Canonical(b) \in Hash
         /\ Redacted(b) \in Body
         /\ Redacted(b).id = b.id /\ Redacted(b).asset = b.asset /\ Redacted(b).model = b.model
         /\ Redacted(b).provider = b.provider /\ Redacted(b).prompt = "none"
         /\ b.prompt # "system" => Canonical(Redacted(b)) = Canonical(b)
<1>1. Canonical(b) \in Hash
  BY DEF Hash
<1>2. Redacted(b) \in Body
  BY DEF Redacted, Body, Prompt
<1>3. /\ Redacted(b).id = b.id /\ Redacted(b).asset = b.asset /\ Redacted(b).model = b.model
      /\ Redacted(b).provider = b.provider /\ Redacted(b).prompt = "none"
  BY DEF Redacted, Body
<1>4. ASSUME b.prompt # "system" PROVE Canonical(Redacted(b)) = Canonical(b)
  <2>1. (b.prompt = "system") = (Redacted(b).prompt = "system")
    BY <1>3, <1>4
  <2> QED BY <1>3, <2>1 DEF Canonical, Payload
<1> QED BY <1>1, <1>2, <1>3, <1>4

\* A log that grows keeps what it had, where it was.
LEMMA AppendFacts ==
  ASSUME NEW S, NEW s \in Seq(S), NEW x \in S
  PROVE  /\ Append(s, x) \in Seq(S) /\ Len(Append(s, x)) = Len(s) + 1 /\ Len(s) \in Nat
         /\ DOMAIN s = 1..Len(s) /\ DOMAIN Append(s, x) = 1..(Len(s) + 1)
         /\ \A i \in 1..Len(s) : Append(s, x)[i] = s[i]
         /\ Append(s, x)[Len(s) + 1] = x
         /\ \A n \in Nat : n <= Len(s) => SubSeq(Append(s, x), 1, n) = SubSeq(s, 1, n)
<1> DEFINE t == Append(s, x)
<1>1. t \in Seq(S) /\ Len(t) = Len(s) + 1 /\ Len(s) \in Nat
  OBVIOUS
<1>2. \A i \in 1..Len(s) : t[i] = s[i]
  OBVIOUS
<1>3. t[Len(s) + 1] = x /\ DOMAIN s = 1..Len(s) /\ DOMAIN t = 1..(Len(s) + 1)
  OBVIOUS
<1> HIDE DEF t
<1>4. ASSUME NEW n \in Nat, n <= Len(s)
      PROVE  SubSeq(t, 1, n) = SubSeq(s, 1, n)
  <2>1. n <= Len(t)
    BY <1>1, <1>4
  <2>2. /\ SubSeq(t, 1, n) \in Seq(S) /\ SubSeq(s, 1, n) \in Seq(S)
        /\ Len(SubSeq(t, 1, n)) = n /\ Len(SubSeq(s, 1, n)) = n
    BY <1>1, <1>4, <2>1
  <2>3. \A i \in 1..n : SubSeq(t, 1, n)[i] = SubSeq(s, 1, n)[i]
    BY <1>1, <1>2, <1>4, <2>1
  <2> QED BY <2>2, <2>3, SeqEqual
<1> QED BY <1>1, <1>2, <1>3, <1>4 DEF t

\* The only leaf of a manifest stays its only leaf when another's is appended.
LEMMA OnlyLeafStays ==
  ASSUME NEW t \in Tree, NEW leaf \in Leaf, NEW i, NEW m, OnlyLeaf(t, i, m), leaf.id # m
  PROVE  OnlyLeaf(Append(t, leaf), i, m)
<1> DEFINE u == Append(t, leaf)
<1>1. /\ Len(t) \in Nat /\ DOMAIN t = 1..Len(t) /\ DOMAIN u = 1..(Len(t) + 1)
      /\ \A j \in 1..Len(t) : u[j] = t[j]
      /\ u[Len(t) + 1] = leaf
  BY AppendFacts DEF Tree
<1> HIDE DEF u
<1>2. DOMAIN u = DOMAIN t \cup {Len(t) + 1}
  BY <1>1
<1> QED BY <1>1, <1>2 DEF OnlyLeaf, u

\* A leaf is of a manifest, with a hash.
LEMMA TreeFacts ==
  ASSUME NEW t \in Tree, NEW i \in DOMAIN t
  PROVE  t[i] \in Leaf /\ t[i].id \in ManifestId /\ t[i].hash \in Hash
<1>1. t[i] \in Leaf
  BY DEF Tree
<1> QED BY <1>1 DEF Leaf

\* index_for finds the only leaf of a manifest.
LEMMA IndexForFacts ==
  ASSUME LogInv, TypeInv, NEW m, IsLogged(m)
  PROVE  OnlyLeaf(leaves, IndexFor(m), m) /\ IndexFor(m) \in Nat /\ IndexFor(m) # 0
<1>1. DOMAIN leaves = 1..Len(leaves) /\ Len(leaves) \in Nat
  BY DEF TypeInv, Tree
<1>2. PICK i \in PositionsOf(m) : TRUE
  BY DEF IsLogged
<1>3. i \in DOMAIN leaves /\ leaves[i].id = m
  BY <1>2 DEF PositionsOf
<1>4. PositionsOf(m) = {i}
  BY <1>3 DEF PositionsOf, LogInv
<1>5. i \in Nat /\ i # 0 /\ i <= i
  BY <1>1, <1>3
<1>6. IndexFor(m) = i
  BY <1>4, <1>5 DEF IndexFor
<1>7. OnlyLeaf(leaves, i, m)
  BY <1>3 DEF OnlyLeaf, LogInv
<1> QED BY <1>5, <1>6, <1>7

-----------------------------------------------------------------------------
\* The registry, the log and the restart.

\* At the start there is nothing.
LEMMA InitHolds == Init => ReceiptsInv
<1> SUFFICES ASSUME Init PROVE ReceiptsInv
  OBVIOUS
<1>1. /\ conf \in [persistent : BOOLEAN, keySource : {"configured", "ephemeral"}]
      /\ registry = [m \in ManifestId |-> Nothing] /\ leaves = << >>
      /\ key = 0 /\ life = 0 /\ receipts = {} /\ call = Idle
  BY DEF Init
<1>2. Idle \in Call /\ Idle.pc = "idle" /\ Idle.what = "none"
  BY DEF Idle, Call
<1>3. TypeInv
  <2>1. leaves \in Tree
    BY <1>1 DEF Tree
  <2>2. registry \in [ManifestId -> Body \cup {Nothing}]
    BY <1>1
  <2>3. key \in Nat /\ life \in Nat
    BY <1>1
  <2> QED BY <1>1, <1>2, <2>1, <2>2, <2>3 DEF TypeInv
<1>4. RegistryInv
  BY <1>1, ReceiptsAssumption DEF RegistryInv
<1>5. LogInv
  BY <1>1 DEF LogInv
<1>6. ReceiptInv
  BY <1>1 DEF ReceiptInv
<1>7. CallInv /\ VerdictIsTrue
  BY <1>1, <1>2 DEF CallInv, TamperInv, ClashInv, Judged, VerdictIsTrue, Verified
<1> QED BY <1>3, <1>4, <1>5, <1>6, <1>7 DEF ReceiptsInv

\* What a call answered stays right while what is registered stays registered.
LEMMA AnswersStay ==
  ASSUME TypeInv, TamperInv, ClashInv, call' = call,
         \A m \in ManifestId : registry[m] # Nothing => registry'[m] = registry[m]
  PROVE  TamperInv' /\ ClashInv'
<1>1. call.id \in ManifestId \cup {Nothing}
  BY DEF TypeInv, Call
<1>2. TamperInv'
  <2>1. ASSUME Judged PROVE call.id \in ManifestId
    BY <2>1 DEF TamperInv, Judged, Body
  <2> QED BY <2>1 DEF TamperInv, Judged
<1>3. ClashInv'
  BY <1>1 DEF ClashInv
<1> QED BY <1>2, <1>3

\* A call that is not about tampering or a clash has nothing to keep of them.
LEMMA OtherCalls ==
  ASSUME call'.what \notin {"tamper", "clash"},
         call'.pc \notin {"authentic", "record", "fallback"}
  PROVE  TamperInv' /\ ClashInv'
BY DEF TamperInv, ClashInv, Judged

\* A manifest is registered once: what was registered is as it was.
LEMMA RegisterKeepsInv ==
  ASSUME ReceiptsInv, NEW b \in Offered, Register(b)
  PROVE  ReceiptsInv'
<1>1. TypeInv /\ RegistryInv /\ LogInv /\ ReceiptInv /\ CallInv /\ VerdictIsTrue
  BY DEF ReceiptsInv
<1>2. /\ registry[b.id] = Nothing
      /\ b.id = Primary => b \in {PrimaryBody, LegacyPrimary}
      /\ registry' = [registry EXCEPT ![b.id] = b]
      /\ conf' = conf /\ leaves' = leaves /\ key' = key /\ life' = life
      /\ receipts' = receipts /\ call' = call
  BY DEF Register
<1>3. b \in Body /\ b.id \in ManifestId
  BY BoundsAssumption DEF Body
<1>4. registry \in [ManifestId -> Body \cup {Nothing}]
  BY <1>1 DEF TypeInv
<1>5. /\ registry' \in [ManifestId -> Body \cup {Nothing}]
      /\ registry'[b.id] = b
      /\ \A m \in ManifestId : m # b.id => registry'[m] = registry[m]
  BY <1>2, <1>3, <1>4
<1>6. \A m \in ManifestId : registry[m] # Nothing => registry'[m] = registry[m]
  BY <1>2, <1>5
<1>7. TypeInv'
  BY <1>1, <1>2, <1>5 DEF TypeInv
<1>8. RegistryInv'
  BY <1>1, <1>2, <1>5, ReceiptsAssumption DEF RegistryInv
<1>9. LogInv'
  <2>1. ASSUME NEW i \in DOMAIN leaves
        PROVE  /\ registry'[leaves[i].id] # Nothing
               /\ leaves[i].hash = Canonical(registry'[leaves[i].id])
    <3>1. leaves[i].id \in ManifestId
      BY <1>1, TreeFacts DEF TypeInv
    <3>2. registry[leaves[i].id] # Nothing /\ leaves[i].hash = Canonical(registry[leaves[i].id])
      BY <1>1 DEF LogInv
    <3> QED BY <1>6, <3>1, <3>2
  <2>2. \A i, j \in DOMAIN leaves : leaves[i].id = leaves[j].id => i = j
    BY <1>1 DEF LogInv
  <2> QED BY <1>2, <2>1, <2>2 DEF LogInv
<1>10. ReceiptInv'
  <2>1. ASSUME NEW r \in receipts PROVE OfOneState(r) /\ OfRegistered(r)'
    <3>1. r.id \in ManifestId
      BY <1>1 DEF TypeInv, Receipt
    <3>2. OfOneState(r) /\ OfRegistered(r)
      BY <1>1 DEF ReceiptInv
    <3> QED BY <1>2, <1>6, <3>1, <3>2 DEF OfRegistered, OfThisRegistry
  <2> QED BY <1>2, <2>1 DEF ReceiptInv
<1>11. CallInv'
  <2>1. TamperInv' /\ ClashInv'
    BY <1>1, <1>2, <1>6, AnswersStay DEF CallInv
  <2> QED BY <1>1, <1>2, <1>6, <2>1 DEF CallInv
<1>12. VerdictIsTrue'
  BY <1>1, <1>2 DEF VerdictIsTrue, Verified, Checkpoint, Path
<1> QED BY <1>7, <1>8, <1>9, <1>10, <1>11, <1>12 DEF ReceiptsInv

\* A leaf is appended at the end, and only if the manifest has none.
LEMMA AppendKeepsInv ==
  ASSUME ReceiptsInv, NEW m \in ManifestId, AppendLeaf(m)
  PROVE  ReceiptsInv'
<1>1. TypeInv /\ RegistryInv /\ LogInv /\ ReceiptInv /\ CallInv /\ VerdictIsTrue
  BY DEF ReceiptsInv
<1> DEFINE leaf == [id |-> m, hash |-> Canonical(registry[m])]
<1>2. /\ registry[m] # Nothing /\ ~IsLogged(m)
      /\ leaves' = Append(leaves, leaf)
      /\ conf' = conf /\ registry' = registry /\ key' = key /\ life' = life
      /\ receipts' = receipts /\ call' = call
  BY DEF AppendLeaf
<1>3. registry[m] \in Body
  BY <1>1, <1>2 DEF TypeInv
<1>4. leaf \in Leaf /\ leaf.id = m /\ leaf.hash = Canonical(registry[m])
  BY <1>3, CanonicalFacts DEF Leaf
<1>5. leaves \in Tree /\ leaves \in Seq(Leaf)
  BY <1>1 DEF TypeInv, Tree
<1> HIDE DEF leaf
<1>6. /\ leaves' \in Tree /\ Len(leaves') = Len(leaves) + 1 /\ Len(leaves) \in Nat
      /\ DOMAIN leaves = 1..Len(leaves) /\ DOMAIN leaves' = 1..(Len(leaves) + 1)
      /\ \A i \in 1..Len(leaves) : leaves'[i] = leaves[i]
      /\ leaves'[Len(leaves) + 1] = leaf
      /\ \A n \in Nat : n <= Len(leaves) => SubSeq(leaves', 1, n) = SubSeq(leaves, 1, n)
  BY <1>2, <1>4, <1>5, AppendFacts DEF Tree
<1>7. DOMAIN leaves' = DOMAIN leaves \cup {Len(leaves) + 1}
      /\ Len(leaves) + 1 \notin DOMAIN leaves
  BY <1>6
<1>8. \A i \in DOMAIN leaves : leaves[i].id # m
  BY <1>2 DEF IsLogged, PositionsOf
<1>9. TypeInv'
  BY <1>1, <1>2, <1>6 DEF TypeInv
<1>10. RegistryInv'
  BY <1>1, <1>2 DEF RegistryInv
<1>11. LogInv'
  <2>1. ASSUME NEW i \in DOMAIN leaves'
        PROVE  /\ registry[leaves'[i].id] # Nothing
               /\ leaves'[i].hash = Canonical(registry[leaves'[i].id])
    BY <1>1, <1>2, <1>4, <1>6, <1>7, <2>1 DEF LogInv
  <2>2. ASSUME NEW i \in DOMAIN leaves', NEW j \in DOMAIN leaves', leaves'[i].id = leaves'[j].id
        PROVE  i = j
    BY <1>1, <1>4, <1>6, <1>7, <1>8, <2>2 DEF LogInv
  <2> QED BY <1>2, <2>1, <2>2 DEF LogInv
<1>12. ReceiptInv'
  BY <1>1, <1>2 DEF ReceiptInv, OfRegistered, OfThisRegistry
<1>13. CallInv'
  <2>1. ASSUME call.pc \in {"lookup", "proof"}, call.index # 0
        PROVE  OnlyLeaf(leaves', call.index, call.id)
    <3>1. OnlyLeaf(leaves, call.index, call.id)
      BY <1>1, <2>1 DEF CallInv
    <3>2. leaf.id # call.id
      BY <1>4, <1>8, <3>1 DEF OnlyLeaf
    <3> QED BY <1>2, <1>4, <1>5, <3>1, <3>2, OnlyLeafStays
  <2>2. call.what = "verify" => call.size <= Len(leaves')
    <3>1. call.size \in Nat
      BY <1>1 DEF TypeInv, Call
    <3> QED BY <1>1, <1>6, <3>1 DEF CallInv
  <2>3. TamperInv' /\ ClashInv'
    BY <1>1, <1>2, AnswersStay DEF CallInv
  <2> QED BY <1>1, <1>2, <2>1, <2>2, <2>3 DEF CallInv
<1>14. VerdictIsTrue'
  <2>1. ASSUME Verified PROVE SubSeq(leaves', 1, call.size) = SubSeq(leaves, 1, call.size)
    <3>1. call.size \in Nat /\ call.size <= Len(leaves)
      BY <1>1, <2>1 DEF TypeInv, Call, CallInv, Verified
    <3> QED BY <1>6, <3>1
  <2> QED BY <1>1, <1>2, <2>1 DEF VerdictIsTrue, Verified
<1> QED BY <1>9, <1>10, <1>11, <1>12, <1>13, <1>14 DEF ReceiptsInv

\* A restart forgets the call, and with a registry in memory what receipts are about.
LEMMA RestartKeepsInv ==
  ASSUME ReceiptsInv, Restart
  PROVE  ReceiptsInv'
<1>1. TypeInv /\ RegistryInv /\ LogInv /\ ReceiptInv
  BY DEF ReceiptsInv
<1>2. /\ life' = life + 1 /\ call' = Idle /\ conf' = conf /\ receipts' = receipts
      /\ key' = IF conf.keySource = "ephemeral" THEN life' ELSE key
      /\ \/ conf.persistent /\ registry' = registry /\ leaves' = leaves
         \/ ~conf.persistent /\ registry' = [m \in ManifestId |-> Nothing] /\ leaves' = << >>
  BY DEF Restart
<1>3. life \in Nat /\ key \in Nat
  BY <1>1 DEF TypeInv
<1>4. Idle \in Call /\ Idle.pc = "idle" /\ Idle.what = "none"
  BY DEF Idle, Call
<1>5. TypeInv'
  <2>1. leaves' \in Tree
    <3>1. << >> \in Tree /\ leaves \in Tree
      BY <1>1 DEF TypeInv, Tree
    <3> QED BY <1>2, <3>1
  <2>3. registry' \in [ManifestId -> Body \cup {Nothing}]
    BY <1>1, <1>2 DEF TypeInv
  <2>2. key' \in Nat /\ life' \in Nat
    BY <1>2, <1>3
  <2> QED BY <1>1, <1>2, <1>4, <2>1, <2>2, <2>3 DEF TypeInv
<1>6. RegistryInv'
  BY <1>1, <1>2, ReceiptsAssumption DEF RegistryInv
<1>7. LogInv'
  <2>1. CASE conf.persistent
    BY <1>1, <1>2, <2>1 DEF LogInv
  <2>2. CASE ~conf.persistent
    BY <1>2, <2>2 DEF LogInv
  <2> QED BY <2>1, <2>2
<1>8. ReceiptInv'
  <2>1. ASSUME NEW r \in receipts PROVE OfOneState(r) /\ OfRegistered(r)'
    <3>1. OfOneState(r) /\ OfRegistered(r)
      BY <1>1 DEF ReceiptInv
    <3>2. r.life \in Nat /\ r.life <= life
      BY <1>1, <3>1 DEF TypeInv, Receipt, OfRegistered, OfThisRegistry
    <3>3. r.life <= life' /\ r.life # life'
      BY <1>2, <1>3, <3>2
    <3> QED BY <1>2, <3>1, <3>3 DEF OfRegistered, OfThisRegistry
  <2> QED BY <1>2, <2>1 DEF ReceiptInv
<1>9. CallInv' /\ VerdictIsTrue'
  BY <1>2, <1>4, OtherCalls DEF CallInv, VerdictIsTrue, Verified
<1> QED BY <1>5, <1>6, <1>7, <1>8, <1>9 DEF ReceiptsInv
-----------------------------------------------------------------------------
\* A call in progress.

\* A step of a call only has to keep what is said of calls.
LEMMA CallStepKeepsInv ==
  ASSUME ReceiptsInv, NEW c \in Call, CallStep(c), CallInv', VerdictIsTrue'
  PROVE  ReceiptsInv'
<1>1. TypeInv /\ RegistryInv /\ LogInv /\ ReceiptInv
  BY DEF ReceiptsInv
<1>2. /\ call' = c /\ conf' = conf /\ registry' = registry /\ leaves' = leaves
      /\ key' = key /\ life' = life /\ receipts' = receipts
  BY DEF CallStep
<1>3. TypeInv'
  BY <1>1, <1>2 DEF TypeInv
<1>4. RegistryInv'
  BY <1>1, <1>2 DEF RegistryInv
<1>5. LogInv'
  BY <1>1, <1>2 DEF LogInv
<1>6. ReceiptInv'
  BY <1>1, <1>2 DEF ReceiptInv, OfRegistered, OfThisRegistry
<1> QED BY <1>3, <1>4, <1>5, <1>6 DEF ReceiptsInv

\* A call to issue starts with nothing read.
LEMMA BeginIssueKeepsInv ==
  ASSUME ReceiptsInv, NEW m \in ManifestId, BeginIssue(m)
  PROVE  ReceiptsInv'
<1> DEFINE c == [Idle EXCEPT !.pc = "index", !.what = "issue", !.id = m]
<1>1. CallStep(c)
  BY DEF BeginIssue
<1>2. c \in Call
  BY DEF Idle, Call
<1>3. /\ c.pc = "index" /\ c.what = "issue" /\ c.id = m /\ c.verdict = FALSE /\ c.size = 0
  BY DEF Idle
<1> HIDE DEF c
<1>4. call' = c
  BY <1>1 DEF CallStep
<1>5. CallInv' /\ VerdictIsTrue'
  BY <1>3, <1>4, OtherCalls DEF CallInv, VerdictIsTrue, Verified
<1> QED BY <1>1, <1>2, <1>5, CallStepKeepsInv

\* The demo's receipt is of a manifest that has a leaf, or of none.
LEMMA BeginDemoReceiptKeepsInv ==
  ASSUME ReceiptsInv, BeginDemoReceipt
  PROVE  ReceiptsInv'
<1>1. TypeInv
  BY DEF ReceiptsInv
<1>2. PICK m : /\ m = (IF IsLogged(Primary) THEN Primary
                       ELSE IF leaves # << >> THEN leaves[1].id ELSE Nothing)
               /\ CallStep([Idle EXCEPT !.pc = IF m = Nothing THEN "done" ELSE "index",
                                        !.what = "issue", !.id = m])
  BY DEF BeginDemoReceipt
<1>3. m \in ManifestId \cup {Nothing}
  <2>1. leaves \in Seq(Leaf)
    BY <1>1 DEF TypeInv, Tree
  <2>2. ASSUME leaves # << >> PROVE leaves[1].id \in ManifestId
    <3>1. 1 \in DOMAIN leaves
      BY <2>1, <2>2
    <3> QED BY <1>1, <3>1, TreeFacts DEF TypeInv
  <2> QED BY <1>2, <2>2, ReceiptsAssumption
<1> DEFINE p == IF m = Nothing THEN "done" ELSE "index"
           c == [Idle EXCEPT !.pc = p, !.what = "issue", !.id = m]
<1>4. CallStep(c)
  BY <1>2
<1>5. p \in {"done", "index"} /\ (p = "index" => m \in ManifestId)
  BY <1>3
<1> HIDE DEF p
<1>6. c \in Call
  BY <1>3, <1>5 DEF Idle, Call
<1>7. c.pc = p /\ c.what = "issue" /\ c.id = m /\ c.verdict = FALSE /\ c.size = 0
  BY DEF Idle
<1> HIDE DEF c
<1>8. call' = c
  BY <1>4 DEF CallStep
<1>9. CallInv' /\ VerdictIsTrue'
  BY <1>5, <1>7, <1>8, OtherCalls DEF CallInv, VerdictIsTrue, Verified
<1> QED BY <1>4, <1>6, <1>9, CallStepKeepsInv

\* What a client puts together has the type of a receipt, if nothing else.
LEMMA AssembledIsTyped ==
  ASSUME TypeInv, NEW sub \in Assembled
  PROVE  sub \in Receipt
<1>1. PICK x \in receipts, y \in receipts, z \in receipts : sub = Combined(x, y, z)
  BY DEF Assembled
<1>2. x \in Receipt /\ y \in Receipt /\ z \in Receipt
  BY DEF TypeInv
<1>3. y.path \in [leaf : Nat, tree : Tree] /\ z.checkpoint \in [root : Tree, key : Nat]
  BY <1>2 DEF Receipt
<1> QED BY <1>1, <1>2, <1>3 DEF Combined, Receipt

\* A submission that is not about the manifest is not verified at all.
LEMMA BeginVerifyKeepsInv ==
  ASSUME ReceiptsInv, NEW m \in ManifestId, NEW sub \in Assembled, NEW typed \in BOOLEAN,
         BeginVerify(m, sub, typed)
  PROVE  ReceiptsInv'
<1>1. TypeInv
  BY DEF ReceiptsInv
<1>2. sub \in Receipt
  BY <1>1, AssembledIsTyped
<1> DEFINE p == IF sub.id = m /\ typed THEN "index" ELSE "done"
           c == [Idle EXCEPT !.pc = p, !.what = "verify", !.id = m, !.sub = sub]
<1>3. CallStep(c)
  BY DEF BeginVerify
<1>4. p \in {"done", "index"}
  OBVIOUS
<1> HIDE DEF p
<1>5. c \in Call
  BY <1>2, <1>4 DEF Idle, Call
<1>6. /\ c.pc = p /\ c.what = "verify" /\ c.id = m /\ c.sub = sub /\ c.verdict = FALSE
      /\ c.size = 0
  BY DEF Idle
<1> HIDE DEF c
<1>7. call' = c /\ leaves' = leaves
  BY <1>3 DEF CallStep
<1>8. Len(leaves) \in Nat
  BY <1>1 DEF TypeInv, Tree
<1>9. CallInv'
  BY <1>2, <1>4, <1>6, <1>7, <1>8, OtherCalls DEF CallInv
<1>10. VerdictIsTrue'
  BY <1>6, <1>7 DEF VerdictIsTrue, Verified
<1> QED BY <1>3, <1>5, <1>9, <1>10, CallStepKeepsInv

\* The index read is that of the manifest's only leaf.
LEMMA ReadIndexKeepsInv ==
  ASSUME ReceiptsInv, ReadIndex
  PROVE  ReceiptsInv'
<1>1. TypeInv /\ LogInv /\ CallInv
  BY DEF ReceiptsInv
<1> DEFINE i == IF IsLogged(call.id) THEN IndexFor(call.id) ELSE 0
           c == [call EXCEPT !.pc = "lookup", !.index = i]
<1>2. call.pc = "index" /\ CallStep(c)
  BY DEF ReadIndex
<1>3. i \in Nat /\ (i # 0 => OnlyLeaf(leaves, i, call.id))
  BY <1>1, IndexForFacts
<1> HIDE DEF i
<1>4. call \in Call
  BY <1>1 DEF TypeInv
<1>5. c \in Call
  BY <1>3, <1>4 DEF Call
<1>6. /\ c.pc = "lookup" /\ c.index = i /\ c.what = call.what /\ c.id = call.id
      /\ c.sub = call.sub /\ c.verdict = call.verdict /\ c.size = call.size
  BY <1>4 DEF Call
<1> HIDE DEF c
<1>7. call' = c /\ leaves' = leaves
  BY <1>2 DEF CallStep
<1>8. CallInv'
  <2>1. call.what \in {"issue", "verify"}
    BY <1>1, <1>2 DEF CallInv
  <2>2. TamperInv' /\ ClashInv'
    BY <1>6, <1>7, <2>1, OtherCalls
  <2> QED BY <1>1, <1>2, <1>3, <1>6, <1>7, <2>2 DEF CallInv
<1>9. VerdictIsTrue'
  BY <1>6, <1>7 DEF VerdictIsTrue, Verified
<1> QED BY <1>2, <1>5, <1>8, <1>9, CallStepKeepsInv

\* The manifest read is the registered one, or the call ends without a verdict.
LEMMA ReadManifestKeepsInv ==
  ASSUME ReceiptsInv, ReadManifest
  PROVE  ReceiptsInv'
<1>1. TypeInv /\ CallInv
  BY DEF ReceiptsInv
<1>2. call \in Call
  BY <1>1 DEF TypeInv
<1>3. /\ call.id \in ManifestId /\ call.verdict = FALSE /\ call.size = 0
      /\ call.what \in {"issue", "verify"}
  BY <1>1, <1>2 DEF ReadManifest, CallInv, Call
<1>4. CASE call.index = 0 \/ registry[call.id] = Nothing
  <2> DEFINE c == [call EXCEPT !.pc = "done"]
  <2>1. CallStep(c)
    BY <1>4 DEF ReadManifest
  <2>2. c \in Call
    BY <1>2 DEF Call
  <2>3. /\ c.pc = "done" /\ c.what = call.what /\ c.id = call.id
        /\ c.sub = call.sub /\ c.verdict = FALSE /\ c.size = 0
    BY <1>2, <1>3 DEF Call
  <2> HIDE DEF c
  <2>4. call' = c /\ leaves' = leaves
    BY <2>1 DEF CallStep
  <2>5. CallInv'
    <3>1. TamperInv' /\ ClashInv'
      BY <1>3, <2>3, <2>4, OtherCalls
    <3> QED BY <1>1, <1>3, <2>3, <2>4, <3>1 DEF CallInv
  <2>6. VerdictIsTrue'
    BY <2>3, <2>4 DEF VerdictIsTrue, Verified
  <2> QED BY <2>1, <2>2, <2>5, <2>6, CallStepKeepsInv
<1>5. CASE ~(call.index = 0 \/ registry[call.id] = Nothing)
  <2> DEFINE b == registry[call.id]
             c == [call EXCEPT !.pc = "proof", !.body = b]
  <2>1. CallStep(c) /\ call.pc = "lookup"
    BY <1>5 DEF ReadManifest
  <2>2. b \in Body \cup {Nothing}
    BY <1>1, <1>3 DEF TypeInv
  <2>3. c \in Call
    BY <1>2, <2>2 DEF Call
  <2>4. /\ c.pc = "proof" /\ c.what = call.what /\ c.id = call.id /\ c.index = call.index
        /\ c.body = registry[call.id] /\ c.sub = call.sub /\ c.verdict = FALSE /\ c.size = 0
    BY <1>2, <1>3 DEF Call
  <2> HIDE DEF c
  <2>5. call' = c /\ leaves' = leaves /\ registry' = registry
    BY <2>1 DEF CallStep
  <2>6. CallInv'
    <3>1. TamperInv' /\ ClashInv'
      BY <1>3, <2>4, <2>5, OtherCalls
    <3> QED BY <1>1, <1>3, <1>5, <2>1, <2>4, <2>5, <3>1 DEF CallInv
  <2>7. VerdictIsTrue'
    BY <2>4, <2>5 DEF VerdictIsTrue, Verified
  <2> QED BY <2>1, <2>3, <2>6, <2>7, CallStepKeepsInv
<1> QED BY <1>4, <1>5

-----------------------------------------------------------------------------
\* Issuing and verifying.

\* What a call that has read the index and the manifest knows of the log of now: its
\* leaf is where the index said, with the hash of the manifest.
LEMMA ProofCallFacts ==
  ASSUME ReceiptsInv, call.pc = "proof"
  PROVE  /\ call \in Call /\ call.id \in ManifestId /\ call.body \in Body
         /\ call.index \in Nat /\ call.index # 0 /\ call.index - 1 \in Nat
         /\ call.index - 1 + 1 = call.index
         /\ OnlyLeaf(leaves, call.index, call.id)
         /\ registry[call.id] # Nothing /\ call.body = registry[call.id]
         /\ leaves[call.index].hash = Canonical(call.body) /\ Canonical(call.body) \in Hash
         /\ leaves \in Tree /\ Len(leaves) \in Nat
<1>1. TypeInv /\ LogInv /\ CallInv
  BY DEF ReceiptsInv
<1>2. call \in Call /\ leaves \in Tree
  BY <1>1 DEF TypeInv
<1>3. call.index \in Nat
  BY <1>2 DEF Call
<1>4. /\ call.id \in ManifestId /\ call.index # 0 /\ OnlyLeaf(leaves, call.index, call.id)
      /\ registry[call.id] # Nothing /\ call.body = registry[call.id]
  BY <1>1 DEF CallInv
<1>5. call.body \in Body
  BY <1>1, <1>4 DEF TypeInv
<1>6. leaves[call.index].hash = Canonical(call.body)
  BY <1>1, <1>4 DEF OnlyLeaf, LogInv
<1>7. call.index - 1 \in Nat /\ call.index - 1 + 1 = call.index
  BY <1>3, <1>4
<1>8. Len(leaves) \in Nat
  BY <1>2 DEF Tree
<1> QED BY <1>2, <1>3, <1>4, <1>5, <1>6, <1>7, <1>8, CanonicalFacts

\* The receipt that is issued is of this log and of the registered manifest.
LEMMA IssueKeepsInv ==
  ASSUME ReceiptsInv, Issue
  PROVE  ReceiptsInv'
<1>1. TypeInv /\ RegistryInv /\ LogInv /\ ReceiptInv /\ CallInv
  BY DEF ReceiptsInv
<1> DEFINE now == ReceiptOf(call.id, call.index, call.body)
           c == [call EXCEPT !.pc = "done", !.verdict = TRUE]
<1>2. /\ call.pc = "proof" /\ call.what = "issue" /\ call' = c
      /\ receipts' \in {receipts, {now} \cup receipts}
      /\ conf' = conf /\ registry' = registry /\ leaves' = leaves /\ key' = key /\ life' = life
  BY DEF Issue
<1>3. /\ call \in Call /\ call.id \in ManifestId /\ call.body \in Body
      /\ call.index \in Nat /\ call.index # 0 /\ call.index - 1 \in Nat
      /\ call.index - 1 + 1 = call.index
      /\ OnlyLeaf(leaves, call.index, call.id)
      /\ registry[call.id] # Nothing /\ call.body = registry[call.id]
      /\ leaves[call.index].hash = Canonical(call.body) /\ Canonical(call.body) \in Hash
      /\ leaves \in Tree /\ Len(leaves) \in Nat
  BY <1>2, ProofCallFacts
<1>4. c \in Call
  BY <1>3 DEF Call
<1>5. c.pc = "done" /\ c.what = "issue"
  BY <1>2, <1>3 DEF Call
<1> HIDE DEF c
<1>6. key \in Nat /\ life \in Nat
  BY <1>1 DEF TypeInv
<1>7. /\ now.id = call.id /\ now.leafHash = Canonical(call.body)
      /\ now.leafIndex = call.index - 1 /\ now.size = Len(leaves) /\ now.root = leaves
      /\ now.path = Path(call.index, leaves) /\ now.checkpoint = Checkpoint(leaves, key)
      /\ now.life = life
  BY DEF ReceiptOf
<1>8. now \in Receipt
  <2>1. /\ Path(call.index, leaves) \in [leaf : Nat, tree : Tree]
        /\ Checkpoint(leaves, key) \in [root : Tree, key : Nat]
    BY <1>3, <1>6 DEF Path, Checkpoint
  <2> QED BY <1>3, <1>6, <2>1 DEF ReceiptOf, Receipt
<1> HIDE DEF now
<1>9. OfOneState(now)
  <2>1. now.leafIndex + 1 = call.index
    BY <1>3, <1>7
  <2>2. now.checkpoint.root = leaves
    BY <1>7 DEF Checkpoint
  <2> QED BY <1>3, <1>7, <2>1, <2>2 DEF OfOneState
<1>10. OfRegistered(now)
  BY <1>3, <1>6, <1>7 DEF OfRegistered, OfThisRegistry
<1>11. TypeInv'
  BY <1>1, <1>2, <1>4, <1>8 DEF TypeInv
<1>12. RegistryInv'
  BY <1>1, <1>2 DEF RegistryInv
<1>13. LogInv'
  BY <1>1, <1>2 DEF LogInv
<1>14. ReceiptInv'
  <2>1. \A r \in receipts' : OfOneState(r) /\ OfRegistered(r)
    BY <1>1, <1>2, <1>9, <1>10 DEF ReceiptInv
  <2> QED BY <1>2, <2>1 DEF ReceiptInv, OfRegistered, OfThisRegistry
<1>15. CallInv' /\ VerdictIsTrue'
  BY <1>2, <1>5, OtherCalls DEF CallInv, VerdictIsTrue, Verified
<1> QED BY <1>11, <1>12, <1>13, <1>14, <1>15 DEF ReceiptsInv

\* What the comparison with the proof of now says of a receipt, whoever made it.
LEMMA ProofMatchesFacts ==
  ASSUME ReceiptsInv, call.pc = "proof", NEW sub \in Receipt,
         ProofMatches(sub, ReceiptOf(call.id, call.index, call.body))
  PROVE  /\ sub.root = leaves /\ sub.size = Len(leaves)
         /\ leaves[sub.leafIndex + 1].id = call.id
         /\ leaves[sub.leafIndex + 1].hash = sub.leafHash
         /\ sub.path = Path(sub.leafIndex + 1, leaves)
         /\ sub.checkpoint = Checkpoint(leaves, key)
<1> DEFINE now == ReceiptOf(call.id, call.index, call.body)
<1>1. /\ call.index \in Nat /\ call.index # 0
      /\ call.index - 1 + 1 = call.index
      /\ leaves[call.index].id = call.id
      /\ leaves[call.index].hash = Canonical(call.body)
  BY ProofCallFacts DEF OnlyLeaf
<1>2. /\ now.leafHash = Canonical(call.body)
      /\ now.leafIndex = call.index - 1 /\ now.size = Len(leaves) /\ now.root = leaves
      /\ now.path = Path(call.index, leaves)
  BY DEF ReceiptOf
<1>3. /\ sub.leafHash = now.leafHash /\ sub.leafIndex = now.leafIndex /\ sub.size = now.size
      /\ sub.root = now.root /\ sub.path = now.path
      /\ sub.checkpoint.key = key /\ sub.checkpoint.root = now.root
  BY DEF ProofMatches
<1> HIDE DEF now
<1>4. sub.leafIndex + 1 = call.index
  BY <1>1, <1>2, <1>3
<1>5. sub.checkpoint = Checkpoint(leaves, key)
  <2>1. sub.checkpoint \in [root : Tree, key : Nat]
    BY DEF Receipt
  <2> QED BY <1>2, <1>3, <2>1 DEF Checkpoint
<1> QED BY <1>1, <1>2, <1>3, <1>4, <1>5

\* A receipt that was issued of the log of now, by the key of now, matches.
LEMMA IssuedMatches ==
  ASSUME ReceiptsInv, call.pc = "proof", NEW r \in receipts, r.id = call.id,
         r.checkpoint.key = key, r.root = leaves
  PROVE  ProofMatches(r, ReceiptOf(call.id, call.index, call.body))
<1> DEFINE now == ReceiptOf(call.id, call.index, call.body)
<1>1. OfOneState(r) /\ r \in Receipt
  BY DEF ReceiptsInv, ReceiptInv, TypeInv
<1>2. r.leafIndex \in Nat
  BY <1>1 DEF Receipt
<1>3. /\ call.index \in Nat /\ OnlyLeaf(leaves, call.index, call.id)
      /\ leaves[call.index].hash = Canonical(call.body)
  BY ProofCallFacts
<1>4. /\ OnlyLeaf(leaves, r.leafIndex + 1, call.id)
      /\ leaves[r.leafIndex + 1].hash = r.leafHash
      /\ r.size = Len(leaves)
      /\ r.path = Path(r.leafIndex + 1, leaves)
      /\ r.checkpoint.root = leaves
  BY <1>1 DEF OfOneState
<1>5. r.leafIndex + 1 = call.index
  BY <1>3, <1>4 DEF OnlyLeaf
<1>6. r.leafIndex = call.index - 1
  BY <1>2, <1>3, <1>5
<1>7. /\ now.leafHash = Canonical(call.body)
      /\ now.leafIndex = call.index - 1 /\ now.size = Len(leaves) /\ now.root = leaves
      /\ now.path = Path(call.index, leaves)
  BY DEF ReceiptOf
<1>8. r.path.tree = leaves
  BY <1>4 DEF Path
<1> HIDE DEF now
<1>9. ProofMatches(r, now)
  BY <1>3, <1>4, <1>5, <1>6, <1>7, <1>8 DEF ProofMatches
<1> QED BY <1>9 DEF now

\* The verdict is about the log of now.
LEMMA VerifyReceiptKeepsInv ==
  ASSUME ReceiptsInv, VerifyReceipt
  PROVE  ReceiptsInv'
<1>1. TypeInv /\ CallInv
  BY DEF ReceiptsInv
<1> DEFINE v == ProofMatches(call.sub, ReceiptOf(call.id, call.index, call.body))
           c == [call EXCEPT !.pc = "done", !.size = Len(leaves), !.verdict = v]
<1>2. call.pc = "proof" /\ call.what = "verify" /\ CallStep(c)
  BY DEF VerifyReceipt
<1>3. call \in Call /\ leaves \in Tree /\ Len(leaves) \in Nat
  BY <1>2, ProofCallFacts
<1>4. call.sub \in Receipt
  BY <1>1, <1>2 DEF CallInv
<1>5. v \in BOOLEAN
  BY DEF ProofMatches
<1>6. v => /\ call.sub.root = leaves /\ call.sub.size = Len(leaves)
           /\ leaves[call.sub.leafIndex + 1].id = call.id
           /\ leaves[call.sub.leafIndex + 1].hash = call.sub.leafHash
           /\ call.sub.path = Path(call.sub.leafIndex + 1, leaves)
           /\ call.sub.checkpoint = Checkpoint(leaves, key)
  BY <1>2, <1>4, ProofMatchesFacts
<1>7. call.sub \in receipts /\ call.sub.id = call.id /\ call.sub.checkpoint.key = key
        /\ call.sub.root = leaves => v
  BY <1>2, IssuedMatches
<1> HIDE DEF v
<1>8. c \in Call
  BY <1>3, <1>5 DEF Call
<1>9. /\ c.pc = "done" /\ c.what = "verify" /\ c.id = call.id /\ c.sub = call.sub
      /\ c.size = Len(leaves) /\ c.verdict = v
  BY <1>2, <1>3 DEF Call
<1> HIDE DEF c
<1>10. call' = c /\ leaves' = leaves /\ key' = key /\ receipts' = receipts
  BY <1>2 DEF CallStep
<1>11. CallInv'
  BY <1>3, <1>4, <1>9, <1>10, OtherCalls DEF CallInv
<1>12. SubSeq(leaves, 1, Len(leaves)) = leaves
  <2>1. leaves \in Seq(Leaf)
    BY <1>3 DEF Tree
  <2> QED BY <2>1
<1>13. VerdictIsTrue'
  BY <1>6, <1>7, <1>9, <1>10, <1>12 DEF VerdictIsTrue, Checkpoint, Path
<1> QED BY <1>2, <1>8, <1>11, <1>13, CallStepKeepsInv

-----------------------------------------------------------------------------
\* The tamper diff.

\* The demo manifest is a manifest.
LEMMA DemoFacts == PrimaryBody \in Body /\ LegacyPrimary \in Versions(PrimaryBody)
<1>1. /\ (CHOOSE a \in Asset : TRUE) \in Asset
      /\ (CHOOSE g \in Generator : TRUE) \in Generator
      /\ (CHOOSE p \in Provider : TRUE) \in Provider
  BY ReceiptsAssumption
<1>2. PrimaryBody \in Body
  BY <1>1, ReceiptsAssumption DEF PrimaryBody, Body, Prompt
<1>3. LegacyPrimary \in Versions(PrimaryBody)
  BY DEF LegacyPrimary, Versions, Prompt
<1> QED BY <1>2, <1>3

\* The versions of a manifest differ in the prompt alone, and disclose the same.
LEMMA VersionFacts ==
  ASSUME NEW b \in Body, NEW c \in Versions(b)
  PROVE  /\ c \in Body /\ c.id = b.id /\ c.asset = b.asset /\ c.model = b.model
         /\ c.provider = b.provider
         /\ Redacted(c) = Redacted(b)
<1>1. PICK p \in Prompt : c = [b EXCEPT !.prompt = p]
  BY DEF Versions
<1>2. c \in Body
  BY <1>1 DEF Body
<1>3. Redacted(c) = Redacted(b)
  BY <1>1 DEF Redacted, Body
<1> QED BY <1>1, <1>2, <1>3 DEF Body

\* What two manifests disclose hashes alike exactly if but for the prompt they agree.
LEMMA DiffersFacts ==
  ASSUME NEW b \in Body, NEW c \in Body
  PROVE  ~Differs(b, c) <=> b.id = c.id /\ b.asset = c.asset /\ b.model = c.model
                            /\ b.provider = c.provider
<1>1. PICK s : s = Redacted(b)
  OBVIOUS
<1>2. PICK t : t = Redacted(c)
  OBVIOUS
<1>3. /\ s.id = b.id /\ s.asset = b.asset /\ s.model = b.model /\ s.provider = b.provider
      /\ s.prompt = "none"
      /\ t.id = c.id /\ t.asset = c.asset /\ t.model = c.model /\ t.provider = c.provider
      /\ t.prompt = "none"
  BY <1>1, <1>2 DEF Redacted, Body
<1>4. Differs(b, c) <=> Canonical(s) # Canonical(t)
  BY <1>1, <1>2 DEF Differs
<1>5. Canonical(s) = Canonical(t) <=>
        b.id = c.id /\ b.asset = c.asset /\ b.model = c.model /\ b.provider = c.provider
  BY <1>3 DEF Canonical, Payload
<1> QED BY <1>4, <1>5

\* What is submitted has the type of a manifest.
LEMMA SubmittedAreBodies == Submitted \subseteq Body
<1> SUFFICES ASSUME NEW x \in Submitted PROVE x \in Body
  OBVIOUS
<1>1. \A b \in Offered \cup {PrimaryBody, LegacyPrimary} : b \in Body
  BY DemoFacts, VersionFacts, BoundsAssumption
<1>2. \/ x \in Offered \cup {PrimaryBody, LegacyPrimary}
      \/ \E b \in Offered \cup {PrimaryBody, LegacyPrimary} : x = Redacted(b)
  BY DEF Submitted
<1> QED BY <1>1, <1>2, CanonicalFacts

\* The tamper diff starts with the signature.
LEMMA BeginTamperDiffKeepsInv ==
  ASSUME ReceiptsInv, NEW b \in Body, NEW sig, BeginTamperDiff(b, sig)
  PROVE  ReceiptsInv'
<1> DEFINE v == SignatureValid(b, sig)
           c == [Idle EXCEPT !.pc = "authentic", !.what = "tamper", !.id = b.id, !.sub = b,
                             !.signed = v]
<1>1. CallStep(c)
  BY DEF BeginTamperDiff
<1>2. v \in BOOLEAN
  BY DEF SignatureValid
<1>3. b.id \in ManifestId
  BY DEF Body
<1> HIDE DEF v
<1>4. c \in Call
  BY <1>2, <1>3 DEF Idle, Call
<1>5. c.pc = "authentic" /\ c.what = "tamper" /\ c.id = b.id /\ c.sub = b
  BY DEF Idle
<1> HIDE DEF c
<1>6. call' = c
  BY <1>1 DEF CallStep
<1>7. TamperInv' /\ ClashInv'
  BY <1>5, <1>6 DEF TamperInv, ClashInv, Judged
<1>8. CallInv' /\ VerdictIsTrue'
  BY <1>5, <1>6, <1>7 DEF CallInv, VerdictIsTrue, Verified
<1> QED BY <1>1, <1>4, <1>8, CallStepKeepsInv

\* A comparison is recorded with what it was made with.
LEMMA CompareKeepsInv ==
  ASSUME ReceiptsInv, call.pc = "authentic", NEW a, NEW source \in {"registry", "demo"},
         CompareWith(a, source),
         \/ source = "registry" /\ registry[call.id] # Nothing /\ a = registry[call.id]
         \/ source = "demo" /\ a = PrimaryBody
  PROVE  ReceiptsInv'
<1> DEFINE v == call.signed /\ ~Differs(call.sub, a)
           c == [call EXCEPT !.pc = "done", !.source = source, !.verdict = v]
<1>1. CallStep(c)
  BY DEF CompareWith
<1>2. call \in Call /\ call.what = "tamper" /\ call.sub \in Body /\ call.id = call.sub.id
  BY DEF ReceiptsInv, TypeInv, CallInv, TamperInv
<1>3. v \in BOOLEAN
  BY DEF Differs
<1>4. v <=> call.signed /\ ~Differs(call.sub, a)
  OBVIOUS
<1> HIDE DEF v
<1>5. c \in Call
  BY <1>2, <1>3 DEF Call
<1>6. /\ c.pc = "done" /\ c.what = "tamper" /\ c.id = call.id /\ c.sub = call.sub
      /\ c.source = source /\ c.signed = call.signed /\ c.verdict = v
  BY <1>2 DEF Call
<1> HIDE DEF c
<1>7. call' = c /\ registry' = registry
  BY <1>1 DEF CallStep
<1>8. TamperInv'
  BY <1>2, <1>4, <1>6, <1>7 DEF TamperInv, Judged
<1>9. ClashInv'
  BY <1>6, <1>7 DEF ClashInv
<1>10. CallInv' /\ VerdictIsTrue'
  BY <1>6, <1>7, <1>8, <1>9 DEF CallInv, VerdictIsTrue, Verified
<1> QED BY <1>1, <1>5, <1>10, CallStepKeepsInv

\* The tamper diff ends, whoever answered.
LEMMA TamperDiffKeepsInv ==
  ASSUME ReceiptsInv, TamperDiff
  PROVE  ReceiptsInv'
<1>1. CASE registry[call.id] # Nothing /\ CompareWith(registry[call.id], "registry")
  BY <1>1, CompareKeepsInv DEF TamperDiff
<1>2. CASE CompareWith(PrimaryBody, "demo")
  BY <1>2, CompareKeepsInv DEF TamperDiff
<1> QED BY <1>1, <1>2 DEF TamperDiff

-----------------------------------------------------------------------------
\* The integrity clash.

\* It starts with the staged claim.
LEMMA BeginClashKeepsInv ==
  ASSUME ReceiptsInv, NEW claim \in Claim \cup {Nothing}, BeginClash(claim)
  PROVE  ReceiptsInv'
<1> DEFINE c == [Idle EXCEPT !.pc = "record", !.what = "clash", !.sub = claim]
<1>1. CallStep(c)
  BY DEF BeginClash
<1>2. c \in Call
  BY DEF Idle, Call
<1>3. c.pc = "record" /\ c.what = "clash" /\ c.sub = claim /\ c.id = Nothing
  BY DEF Idle
<1> HIDE DEF c
<1>4. call' = c
  BY <1>1 DEF CallStep
<1>5. TamperInv' /\ ClashInv'
  BY <1>3, <1>4 DEF TamperInv, ClashInv, Judged
<1>6. CallInv' /\ VerdictIsTrue'
  BY <1>3, <1>4, <1>5 DEF CallInv, VerdictIsTrue, Verified
<1> QED BY <1>1, <1>2, <1>6, CallStepKeepsInv

\* Its answer is for a registered manifest, or for none.
LEMMA ClashAnswerKeepsInv ==
  ASSUME ReceiptsInv, call.pc \in {"record", "fallback"}, NEW m \in ManifestId \cup {Nothing},
         m # Nothing => registry[m] # Nothing, call.id = Nothing, CallStep(ClashAnswer(m))
  PROVE  ReceiptsInv'
<1>1. call \in Call /\ call.what = "clash" /\ call.sub \in Claim \cup {Nothing}
  BY DEF ReceiptsInv, TypeInv, CallInv, ClashInv
<1>2. CASE Nothing \in {m, call.sub}
  <2> DEFINE c == [call EXCEPT !.pc = "done"]
  <2>1. CallStep(c)
    BY <1>2 DEF ClashAnswer
  <2>2. c \in Call
    BY <1>1 DEF Call
  <2>3. c.pc = "done" /\ c.what = "clash" /\ c.sub = call.sub /\ c.id = Nothing
    BY <1>1 DEF Call
  <2> HIDE DEF c
  <2>4. call' = c
    BY <2>1 DEF CallStep
  <2>5. TamperInv' /\ ClashInv'
    BY <1>1, <2>3, <2>4 DEF TamperInv, ClashInv, Judged
  <2>6. CallInv' /\ VerdictIsTrue'
    BY <2>3, <2>4, <2>5 DEF CallInv, VerdictIsTrue, Verified
  <2> QED BY <2>1, <2>2, <2>6, CallStepKeepsInv
<1>3. CASE Nothing \notin {m, call.sub}
  <2> DEFINE v == Clash(Redacted(registry[m]), call.sub)
             c == [call EXCEPT !.pc = "done", !.id = m, !.verdict = v]
  <2>1. CallStep(c)
    BY <1>3 DEF ClashAnswer
  <2>2. v \in BOOLEAN
    BY DEF Clash
  <2>3. v <=> Clash(Redacted(registry[m]), call.sub)
    OBVIOUS
  <2> HIDE DEF v
  <2>4. c \in Call
    BY <1>1, <2>2 DEF Call
  <2>5. c.pc = "done" /\ c.what = "clash" /\ c.sub = call.sub /\ c.id = m /\ c.verdict = v
    BY <1>1 DEF Call
  <2> HIDE DEF c
  <2>6. call' = c /\ registry' = registry
    BY <2>1 DEF CallStep
  <2>7. TamperInv' /\ ClashInv'
    BY <1>1, <1>3, <2>3, <2>5, <2>6 DEF TamperInv, ClashInv, Judged
  <2>8. CallInv' /\ VerdictIsTrue'
    BY <2>5, <2>6, <2>7 DEF CallInv, VerdictIsTrue, Verified
  <2> QED BY <2>1, <2>4, <2>8, CallStepKeepsInv
<1> QED BY <1>2, <1>3

\* The demo's record is read, or not found.
LEMMA ReadRecordKeepsInv ==
  ASSUME ReceiptsInv, ReadRecord
  PROVE  ReceiptsInv'
<1>1. /\ call \in Call /\ call.what = "clash" /\ call.sub \in Claim \cup {Nothing}
      /\ call.id = Nothing
  BY DEF ReceiptsInv, TypeInv, CallInv, ClashInv, ReadRecord
<1>2. CASE registry[Primary] # Nothing
  <2>1. CallStep(ClashAnswer(Primary)) /\ call.pc = "record"
    BY <1>2 DEF ReadRecord
  <2> QED BY <1>1, <1>2, <2>1, ReceiptsAssumption, ClashAnswerKeepsInv
<1>3. CASE registry[Primary] = Nothing
  <2> DEFINE c == [call EXCEPT !.pc = "fallback"]
  <2>1. CallStep(c)
    BY <1>3 DEF ReadRecord
  <2>2. c \in Call
    BY <1>1 DEF Call
  <2>3. c.pc = "fallback" /\ c.what = "clash" /\ c.sub = call.sub /\ c.id = Nothing
    BY <1>1 DEF Call
  <2> HIDE DEF c
  <2>4. call' = c
    BY <2>1 DEF CallStep
  <2>5. TamperInv' /\ ClashInv'
    BY <1>1, <2>3, <2>4 DEF TamperInv, ClashInv, Judged
  <2>6. CallInv' /\ VerdictIsTrue'
    BY <2>3, <2>4, <2>5 DEF CallInv, VerdictIsTrue, Verified
  <2> QED BY <2>1, <2>2, <2>6, CallStepKeepsInv
<1> QED BY <1>2, <1>3

\* The log's first manifest that is registered stands in.
LEMMA FallBackKeepsInv ==
  ASSUME ReceiptsInv, FallBack
  PROVE  ReceiptsInv'
<1>1. call.id = Nothing /\ call.pc = "fallback" /\ leaves \in Tree
  BY DEF ReceiptsInv, TypeInv, CallInv, ClashInv, FallBack
<1>2. ASSUME NEW i \in DOMAIN leaves, registry[leaves[i].id] # Nothing,
             CallStep(ClashAnswer(leaves[i].id))
      PROVE  ReceiptsInv'
  <2>1. leaves[i].id \in ManifestId
    BY <1>1, <1>2, TreeFacts
  <2> QED BY <1>1, <1>2, <2>1, ClashAnswerKeepsInv
<1>3. CASE CallStep(ClashAnswer(Nothing))
  BY <1>1, <1>3, ClashAnswerKeepsInv
<1> QED BY <1>2, <1>3 DEF FallBack

\* A call is over.
LEMMA DismissKeepsInv ==
  ASSUME ReceiptsInv, Dismiss
  PROVE  ReceiptsInv'
<1>1. CallStep(Idle)
  BY DEF Dismiss
<1>2. Idle \in Call /\ Idle.pc = "idle" /\ Idle.what = "none"
  BY DEF Idle, Call
<1>3. call' = Idle
  BY <1>1 DEF CallStep
<1>4. CallInv' /\ VerdictIsTrue'
  BY <1>2, <1>3, OtherCalls DEF CallInv, VerdictIsTrue, Verified
<1> QED BY <1>1, <1>2, <1>4, CallStepKeepsInv

-----------------------------------------------------------------------------
\* The theorems.

\* Every step keeps the invariant.
LEMMA NextKeepsInv ==
  ASSUME ReceiptsInv, [Next]_vars
  PROVE  ReceiptsInv'
<1>1. ASSUME NEW b \in Offered, Register(b) PROVE ReceiptsInv'
  BY <1>1, RegisterKeepsInv
<1>2. ASSUME NEW m \in ManifestId, AppendLeaf(m) PROVE ReceiptsInv'
  BY <1>2, AppendKeepsInv
<1>3. ASSUME NEW m \in ManifestId, BeginIssue(m) PROVE ReceiptsInv'
  BY <1>3, BeginIssueKeepsInv
<1>4. ASSUME BeginDemoReceipt PROVE ReceiptsInv'
  BY <1>4, BeginDemoReceiptKeepsInv
<1>5. ASSUME NEW m \in ManifestId, NEW sub \in Assembled, NEW typed \in BOOLEAN,
             BeginVerify(m, sub, typed)
      PROVE  ReceiptsInv'
  BY <1>5, BeginVerifyKeepsInv
<1>6. ASSUME ReadIndex \/ ReadManifest PROVE ReceiptsInv'
  BY <1>6, ReadIndexKeepsInv, ReadManifestKeepsInv
<1>7. ASSUME Issue \/ VerifyReceipt PROVE ReceiptsInv'
  BY <1>7, IssueKeepsInv, VerifyReceiptKeepsInv
<1>8. ASSUME NEW b \in Submitted, NEW signed \in Submitted, NEW k \in {0, key},
             BeginTamperDiff(b, Sign(signed, k))
      PROVE  ReceiptsInv'
  BY <1>8, SubmittedAreBodies, BeginTamperDiffKeepsInv
<1>9. ASSUME TamperDiff \/ Restart \/ Dismiss PROVE ReceiptsInv'
  BY <1>9, TamperDiffKeepsInv, RestartKeepsInv, DismissKeepsInv
<1>11. ASSUME NEW claim \in Staged \cup {Nothing}, BeginClash(claim) PROVE ReceiptsInv'
  BY <1>11, BoundsAssumption, BeginClashKeepsInv
<1>12. ASSUME ReadRecord \/ FallBack PROVE ReceiptsInv'
  BY <1>12, ReadRecordKeepsInv, FallBackKeepsInv
<1>10. ASSUME UNCHANGED vars PROVE ReceiptsInv'
  <2>1. /\ conf' = conf /\ registry' = registry /\ leaves' = leaves
        /\ key' = key /\ life' = life /\ receipts' = receipts /\ call' = call
    BY <1>10 DEF vars
  <2>2. CallStep(call) /\ call \in Call
    BY <2>1 DEF CallStep, ReceiptsInv, TypeInv
  <2>3. CallInv'
    <3>1. TamperInv' /\ ClashInv'
      BY <2>1, AnswersStay DEF ReceiptsInv, CallInv
    <3> QED BY <2>1, <3>1 DEF ReceiptsInv, CallInv
  <2>4. VerdictIsTrue'
    BY <2>1 DEF ReceiptsInv, VerdictIsTrue, Verified, Checkpoint
  <2> QED BY <2>2, <2>3, <2>4, CallStepKeepsInv
<1> QED BY <1>1, <1>2, <1>3, <1>4, <1>5, <1>6, <1>7, <1>8, <1>9, <1>10, <1>11,
           <1>12 DEF Next

\* The inductive invariant holds in every state.
THEOREM ReceiptsInvariant == Spec => []ReceiptsInv
<1>1. Init => ReceiptsInv
  BY InitHolds
<1>2. ReceiptsInv /\ [Next]_vars => ReceiptsInv'
  BY NextKeepsInv
<1> QED BY <1>1, <1>2, PTL DEF Spec

\* A verdict about a receipt, reached while the log grew and however the receipt was put
\* together, is true of the log as it was when it was reached.
THEOREM VerdictsAreTrue == Spec => []VerdictIsTrue
<1>1. ReceiptsInv => VerdictIsTrue
  BY DEF ReceiptsInv
<1> QED BY <1>1, ReceiptsInvariant, PTL

\* What a client hashes of the disclosure is the leaf of every receipt it was issued.
LEMMA InvDiscloses == ReceiptsInv => DisclosureVerifies
<1> SUFFICES ASSUME ReceiptsInv, NEW m \in ManifestId,
                    registry[m] # Nothing, registry[m].prompt # "system"
             PROVE  /\ \A r \in receipts : r.id = m /\ OfThisRegistry(r) =>
                         r.leafHash = Canonical(Redacted(registry[m]))
                    /\ SignatureValid(Redacted(registry[m]), Sign(registry[m], key))
  BY DEF DisclosureVerifies
<1>1. registry[m] \in Body
  BY DEF ReceiptsInv, TypeInv
<1>2. Canonical(Redacted(registry[m])) = Canonical(registry[m])
  BY <1>1, CanonicalFacts
<1>3. ASSUME NEW r \in receipts, r.id = m, OfThisRegistry(r)
      PROVE  r.leafHash = Canonical(registry[m])
  <2>1. OfRegistered(r)
    BY DEF ReceiptsInv, ReceiptInv
  <2> QED BY <1>3, <2>1 DEF OfRegistered
<1>4. SignatureValid(Redacted(registry[m]), Sign(registry[m], key))
  BY <1>2 DEF SignatureValid, Sign
<1> QED BY <1>2, <1>3, <1>4

\* A redacted disclosure verifies against every receipt and every signature of its manifest.
THEOREM DisclosuresVerify == Spec => []DisclosureVerifies
  BY InvDiscloses, ReceiptsInvariant, PTL

-----------------------------------------------------------------------------
\* What the tamper diff and the integrity clash say.

\* A receipt of this registry is of the registered manifest.
LEMMA ReceiptOfCallFacts ==
  ASSUME ReceiptsInv, NEW r \in ReceiptsOfCall
  PROVE  /\ registry[call.id] \in Body /\ registry[call.id].id = call.id
         /\ r.leafHash = Canonical(registry[call.id])
<1>1. r \in receipts /\ r.id = call.id /\ OfThisRegistry(r)
  BY DEF ReceiptsOfCall
<1>2. OfRegistered(r) /\ r \in Receipt
  BY <1>1 DEF ReceiptsInv, ReceiptInv, TypeInv
<1>3. call.id \in ManifestId
  BY <1>1, <1>2 DEF Receipt
<1>4. registry[call.id] # Nothing /\ r.leafHash = Canonical(registry[call.id])
  BY <1>1, <1>2 DEF OfRegistered
<1>5. registry[call.id] \in Body
  BY <1>3, <1>4 DEF ReceiptsInv, TypeInv
<1> QED BY <1>3, <1>4, <1>5 DEF ReceiptsInv, RegistryInv

\* The demo manifest, in any version, is untampered whatever the registry answers.
LEMMA DemoIsNotAccused ==
  ASSUME ReceiptsInv, Judged, call.signed, call.sub \in Versions(PrimaryBody)
  PROVE  call.verdict
<1>1. /\ call.sub.id = Primary /\ call.sub.asset = PrimaryBody.asset
      /\ call.sub.model = PrimaryBody.model /\ call.sub.provider = PrimaryBody.provider
      /\ call.sub \in Body /\ PrimaryBody \in Body /\ PrimaryBody.id = Primary
  BY DemoFacts, VersionFacts DEF PrimaryBody
<1>2. ~Differs(call.sub, PrimaryBody)
  BY <1>1, DiffersFacts
<1>3. TamperInv /\ RegistryInv
  BY DEF ReceiptsInv, CallInv
<1>4. call.id = Primary
  BY <1>1, <1>3 DEF TamperInv, Judged
<1>5. ASSUME registry[call.id] # Nothing PROVE ~Differs(call.sub, registry[call.id])
  <2>1. registry[call.id] \in {PrimaryBody, LegacyPrimary}
    BY <1>3, <1>4, <1>5 DEF RegistryInv
  <2>2. ~Differs(call.sub, LegacyPrimary)
    BY <1>1, DemoFacts, VersionFacts, DiffersFacts
  <2> QED BY <1>2, <2>1, <2>2
<1> QED BY <1>2, <1>3, <1>5 DEF TamperInv

\* A holder of a receipt is accused only if the demo manifest stood in for another.
LEMMA HolderIsNotAccused ==
  ASSUME ReceiptsInv, Judged, NEW r \in ReceiptsOfCall, call.signed,
         r.leafHash = Canonical(call.sub)
  PROVE  call.verdict \/ (call.source = "demo" /\ call.sub \notin Versions(PrimaryBody))
<1>1. call.sub \in Body /\ TamperInv
  BY DEF ReceiptsInv, CallInv, TamperInv, Judged
<1>2. registry[call.id] \in Body /\ Canonical(call.sub) = Canonical(registry[call.id])
  BY ReceiptOfCallFacts
<1>3. ~Differs(call.sub, registry[call.id])
  <2>1. /\ call.sub.id = registry[call.id].id /\ call.sub.asset = registry[call.id].asset
        /\ call.sub.model = registry[call.id].model
        /\ call.sub.provider = registry[call.id].provider
    BY <1>2 DEF Canonical, Payload
  <2> QED BY <1>1, <1>2, <2>1, DiffersFacts
<1>4. call.sub \in Versions(PrimaryBody) => call.verdict
  BY DemoIsNotAccused
<1> QED BY <1>1, <1>3, <1>4 DEF TamperInv

\* What the registry's answer calls untampered was logged, but for the prompt.
LEMMA UntamperedWasLogged ==
  ASSUME ReceiptsInv, Judged, NEW r \in ReceiptsOfCall, call.verdict, call.source = "registry"
  PROVE  r.leafHash \in {Canonical(b) : b \in Versions(call.sub)}
<1>1. call.sub \in Body /\ TamperInv
  BY DEF ReceiptsInv, CallInv, TamperInv, Judged
<1>2. PICK a \in Body : a = registry[call.id] /\ r.leafHash = Canonical(a)
  BY ReceiptOfCallFacts
<1>3. ~Differs(call.sub, a)
  BY <1>1, <1>2 DEF TamperInv
<1>4. PICK s \in Body : s = call.sub
  BY <1>1
<1>5. s.id = a.id /\ s.asset = a.asset /\ s.model = a.model /\ s.provider = a.provider
  BY <1>3, <1>4, DiffersFacts
<1>6. PICK c : c = [s EXCEPT !.prompt = a.prompt]
  OBVIOUS
<1>7. c \in Versions(s)
  <2>1. a.prompt \in Prompt
    BY DEF Body
  <2> QED BY <1>6, <2>1 DEF Versions
<1>8. c.id = a.id /\ c.asset = a.asset /\ c.model = a.model /\ c.provider = a.provider
      /\ c.prompt = a.prompt
  BY <1>5, <1>6 DEF Body
<1>9. Canonical(c) = Canonical(a)
  BY <1>8 DEF Canonical, Payload
<1> QED BY <1>2, <1>4, <1>7, <1>9

\* A holder is accused of tampering only when the registry did not answer for a manifest
\* other than the demo's, and only what was logged is called untampered.
THEOREM HonestIsNotAccused == Spec => []NoFalseAlarm
<1>1. ReceiptsInv => NoFalseAlarm
  BY DemoIsNotAccused, HolderIsNotAccused, UntamperedWasLogged DEF NoFalseAlarm
<1> QED BY <1>1, ReceiptsInvariant, PTL

\* What a comparison of a claim with a manifest says of the manifest's hash.
LEMMA ClashFacts ==
  ASSUME NEW b \in Body, NEW e \in Claim
  PROVE  LET h == Canonical(b)
         IN IF Clash(Redacted(b), e) THEN e # ClaimOf(h)
            ELSE /\ e.ai = (h.model \in Generator)
                 /\ e.model \in {h.model, NoModel} \/ h.model = NoModel
                 /\ e.provider \in {h.provider, NoProvider} \/ h.provider = NoProvider
                 /\ e.asset \in {h.asset, Nothing}
<1>1. PICK g \in Body : g = Redacted(b) /\ g.model = b.model /\ g.asset = b.asset
                        /\ g.provider = b.provider
  BY CanonicalFacts DEF Redacted, Body
<1> DEFINE h == Canonical(b)
<1>2. h.model = b.model /\ h.asset = b.asset /\ h.provider = b.provider
  BY DEF Canonical, Payload
<1> HIDE DEF h
<1>3. /\ b.model \in Generator \cup {NoModel} /\ e.model \in Generator \cup {NoModel}
      /\ b.provider \in Provider \cup {NoProvider} /\ e.provider \in Provider \cup {NoProvider}
      /\ b.asset \in Asset /\ e.ai \in BOOLEAN
  BY DEF Body, Claim
<1>4. Clash(g, e) <=>
        \/ e.ai # (b.model \in Generator)
        \/ {e.model, b.model} \subseteq Generator /\ e.model # b.model
        \/ {e.provider, b.provider} \subseteq Provider /\ e.provider # b.provider
        \/ e.asset # Nothing /\ e.asset # b.asset
  BY <1>1 DEF Clash, IsAiGenerated
<1>5. ASSUME Clash(g, e) PROVE e # ClaimOf(h)
  <2>1. e = ClaimOf(h) => /\ e.ai = (b.model \in Generator) /\ e.model = b.model
                          /\ e.provider = b.provider /\ e.asset = b.asset
    BY <1>2 DEF ClaimOf, IsAiGenerated
  <2> QED BY <1>4, <1>5, <2>1
<1>6. ASSUME ~Clash(g, e)
      PROVE  /\ e.ai = (b.model \in Generator)
             /\ e.model \in {b.model, NoModel} \/ b.model = NoModel
             /\ e.provider \in {b.provider, NoProvider} \/ b.provider = NoProvider
             /\ e.asset \in {b.asset, Nothing}
  BY <1>3, <1>4, <1>6
<1> QED BY <1>1, <1>2, <1>5, <1>6 DEF h

\* The claim made for a logged manifest never clashes with it, and one that does not
\* clash agrees with the log, from whichever record the answer was.
THEOREM ClashesAreTrue == Spec => []ClashIsTrue
<1>1. ReceiptsInv => ClashIsTrue
  <2> SUFFICES ASSUME ReceiptsInv, call.what = "clash", call.pc = "done",
                      NEW i \in PositionsOf(call.id)
               PROVE  LET h == leaves[i].hash
                      IN IF call.verdict THEN call.sub # ClaimOf(h)
                         ELSE /\ call.sub.ai = (h.model \in Generator)
                              /\ call.sub.model \in {h.model, NoModel} \/ h.model = NoModel
                              /\ \/ call.sub.provider \in {h.provider, NoProvider}
                                 \/ h.provider = NoProvider
                              /\ call.sub.asset \in {h.asset, Nothing}
    BY DEF ClashIsTrue
  <2>1. i \in DOMAIN leaves /\ leaves[i].id = call.id
    BY DEF PositionsOf
  <2>2. call.id \in ManifestId /\ registry[call.id] # Nothing
        /\ leaves[i].hash = Canonical(registry[call.id])
    BY <2>1, TreeFacts DEF ReceiptsInv, TypeInv, LogInv
  <2>3. registry[call.id] \in Body
    BY <2>2 DEF ReceiptsInv, TypeInv
  <2>4. call.sub \in Claim /\ (call.verdict <=> Clash(Redacted(registry[call.id]), call.sub))
    BY <2>2, ReceiptsAssumption DEF ReceiptsInv, CallInv, ClashInv
  <2> QED BY <2>2, <2>3, <2>4, ClashFacts
<1> QED BY <1>1, ReceiptsInvariant, PTL
=============================================================================
