----------------------------- MODULE IngestProofs ----------------------------
(***************************************************************************)
(* Proofs about Ingest, for every value of its constants.                  *)
(*                                                                         *)
(* What one request has read of the tables and the log must still hold     *)
(* when it writes, several awaits later.  It does as long as the request   *)
(* is alone at its manifest: Settled relates the two stores of a manifest  *)
(* nobody has contended for to the step its one request, if any, is at.    *)
(***************************************************************************)
EXTENDS Ingest, FiniteSetTheorems, TLAPS

\* The leaves of m in a log, as the properties speak of them.
Has(s, m) == LeavesOf(s, m) # {}

Once(s, m, ver) == \A i, j \in LeavesOf(s, m) : i = j /\ s[i].ver = ver

At(m) == {r \in Request : req[r].id = m}

\* The fields a request has filled in when it gets to a step.
WellFormed(q) ==
  /\ q.pc \in {"free", "pick"} => q.id = NoManifest /\ q.wm = NoWatermark
  /\ q.pc \notin {"free", "pick"} => q.id \in ManifestId /\ q.wm \in WatermarkId
  /\ q.pc \in {"register", "append", "store"} => q.ver \in Version
  /\ q.pc = "binding" => q.batch = {}
  /\ q.pc = "index" => q.batch # {}
  /\ q.batch = {} => ~q.logged
  /\ q.todo \subseteq q.batch
  /\ q.batch \subseteq stored

\* A request that is about to log a manifest, or has found it registered, is right.
SeenRegistered(q) ==
  q.pc \in {"append", "store"} \/ (q.pc = "index" /\ q.ver # NoVersion) => Registered(q.id)

RequestsInv == \A r \in Request : WellFormed(req[r]) /\ SeenRegistered(req[r])

\* A stopped process has no requests and no memory.
StoppedInv == ~up => /\ tree = << >>
                     /\ reader = NoRead
                     /\ \A r \in Request : req[r].pc = "free"

\* What a request alone at its manifest knows of it.
Knows(q) ==
  /\ q.pc = "binding" => ~Registered(q.id)
  /\ q.pc = "index" => q.ver = manifests[q.id]
  /\ q.pc = "register" => ~Registered(q.id) /\ ~q.logged
  /\ q.pc = "append" => q.ver = manifests[q.id] /\ ~Has(tree, q.id)
  /\ q.pc = "store" => /\ q.ver = manifests[q.id]
                       /\ Has(tree, q.id) /\ ~Has(leaves, q.id)

\* The table and the tree of a manifest: at most one leaf, that of the registered
\* body, and the two differ only while it is being stored, or once that has failed.
Settled(m) ==
  /\ \A q, r \in At(m) : q = r
  /\ \A r \in At(m) : Knows(req[r])
  /\ Once(leaves, m, manifests[m]) /\ Once(tree, m, manifests[m])
  /\ ~Registered(m) => ~Has(leaves, m) /\ ~Has(tree, m)
  /\ up /\ Has(leaves, m) => Has(tree, m)
  /\ Has(tree, m) /\ ~Has(leaves, m) =>
       m \in lossy \/ \E r \in At(m) : req[r].pc = "store"

SettledInv == \A m \in ManifestId \ raced : Settled(m)

\* A caller alone at its watermark finds it free and then its own.
BoundInv ==
  \A r \in Request :
    req[r].wm \in WatermarkId \ contested =>
      /\ \A q \in Request : req[q].wm = req[r].wm => q = r
      /\ ~IsEvent(r) =>
           /\ req[r].pc = "register" => bindings[req[r].wm] = NoManifest
           /\ req[r].pc \in {"append", "store"} => bindings[req[r].wm] = req[r].id

\* A proof in progress: the position is of the manifest, the body is the registered.
ReaderInv ==
  /\ reader.pc # "free" =>
       /\ reader.id \in ManifestId
       /\ reader.pos \in 1..Len(tree) /\ tree[reader.pos].id = reader.id
  /\ reader.pc = "manifest" /\ reader.id \notin raced => reader.ver = manifests[reader.id]
  /\ reader.pc = "manifest" => reader.ver # NoVersion
  /\ reader.pc = "free" => reader.pos = 0

ClaimInv ==
  /\ claim # {} => \E o \in claim : claim = {o}
  /\ OkIsProven
  /\ OkIsRecoverable

IngestInv ==
  /\ TypeOK
  /\ RequestsInv
  /\ StoppedInv
  /\ SettledInv
  /\ BoundInv
  /\ ReaderInv
  /\ ClaimInv
-----------------------------------------------------------------------------
\* Leaves in a log.

LEMMA AppendedLeaves ==
  ASSUME NEW s \in Seq(Leaf), NEW e \in Leaf, NEW m
  PROVE  /\ Append(s, e) \in Seq(Leaf) /\ Len(Append(s, e)) = Len(s) + 1
         /\ \A i \in 1..Len(s) : Append(s, e)[i] = s[i]
         /\ Has(s, m) => Has(Append(s, e), m)
         /\ m # e.id => /\ Has(Append(s, e), m) => Has(s, m)
                        /\ \A ver : Once(s, m, ver) => Once(Append(s, e), m, ver)
         /\ m = e.id => /\ Has(Append(s, e), m)
                        /\ ~Has(s, m) => Once(Append(s, e), m, e.ver)
<1> DEFINE t == Append(s, e)
<1>1. /\ t \in Seq(Leaf) /\ Len(s) \in Nat /\ Len(t) = Len(s) + 1
      /\ \A i \in 1..Len(s) : t[i] = s[i]
      /\ t[Len(s) + 1] = e
  OBVIOUS
<1> HIDE DEF t
<1>2. LeavesOf(t, m) = LeavesOf(s, m) \cup {i \in {Len(s) + 1} : e.id = m}
  BY <1>1 DEF LeavesOf
<1>3. \A i \in LeavesOf(s, m) : t[i].ver = s[i].ver
  BY <1>1 DEF LeavesOf
<1>4. m # e.id => LeavesOf(t, m) = LeavesOf(s, m)
  BY <1>2
<1>5. m = e.id => Len(s) + 1 \in LeavesOf(t, m)
  BY <1>2
<1>6. m = e.id /\ ~Has(s, m) => LeavesOf(t, m) = {Len(s) + 1}
  BY <1>2 DEF Has
<1>7. QED
  BY <1>1, <1>2, <1>3, <1>4, <1>5, <1>6 DEF Has, Once, t

LEMMA NoLeaves ==
  ASSUME NEW m, NEW ver
  PROVE  ~Has(<< >>, m) /\ Once(<< >>, m, ver)
<1>1. LeavesOf(<< >>, m) = {}
  BY DEF LeavesOf
<1>2. QED
  BY <1>1 DEF Has, Once

\* Without a leaf, any body is that of every leaf.
LEMMA NoneIsOnce ==
  ASSUME NEW s, NEW m, NEW ver, ~Has(s, m)
  PROVE  Once(s, m, ver)
BY DEF Has, Once

LEMMA Constants ==
  /\ Object \subseteq ManifestId /\ CallerId \subseteq ManifestId
  /\ NoManifest \notin ManifestId /\ NoWatermark \notin WatermarkId /\ NoVersion \notin Version
  /\ \A o \in Object : WatermarkOf[o] \in WatermarkId
  /\ MaxCrashes \in Nat /\ MaxFailures \in Nat
BY IngestAssumption DEF IngestAssumption

LEMMA FreeSlot ==
  /\ Free \in Slot /\ Free.pc = "free" /\ Free.id = NoManifest /\ Free.wm = NoWatermark
  /\ Free.batch = {} /\ Free.todo = {} /\ Free.logged = FALSE /\ Free.ver = NoVersion
BY DEF Free, Slot, Step

LEMMA SlotFields ==
  ASSUME TypeOK, NEW r \in Request
  PROVE  /\ req[r] \in Slot
         /\ req[r].pc \in Step /\ req[r].id \in ManifestId \cup {NoManifest}
         /\ req[r].wm \in WatermarkId \cup {NoWatermark}
         /\ req[r].ver \in Version \cup {NoVersion} /\ req[r].logged \in BOOLEAN
         /\ req[r].batch \subseteq Object /\ req[r].todo \subseteq Object
<1>1. req[r] \in Slot
  BY DEF TypeOK
<1>2. QED
  BY <1>1 DEF Slot

\* A request at an uncontended manifest, or watermark, is alone there.
LEMMA Alone ==
  ASSUME TypeOK, SettledInv, BoundInv, NEW r \in Request
  PROVE  /\ req[r].id \in ManifestId \ raced =>
              /\ \A p \in Request \ {r} : req[p].id # req[r].id
              /\ Knows(req[r])
         /\ req[r].wm \in WatermarkId \ contested =>
              \A p \in Request \ {r} : req[p].wm # req[r].wm
<1>1. ASSUME req[r].id \in ManifestId \ raced
      PROVE  /\ \A p \in Request \ {r} : req[p].id # req[r].id
             /\ Knows(req[r])
  <2>1. Settled(req[r].id) /\ r \in At(req[r].id)
    BY <1>1 DEF SettledInv, At
  <2>2. QED
    BY <2>1 DEF Settled, At
<1>2. QED
  BY <1>1 DEF BoundInv

\* The inductive invariant holds before the first request.
THEOREM IngestInitEstablishes == Init => IngestInv
<1> SUFFICES ASSUME Init PROVE IngestInv
  OBVIOUS
<1> USE Constants, FreeSlot DEF Init
<1>1. TypeOK
  <2>1. reader \in [pc : {"free", "index", "manifest"}, id : ManifestId \cup {NoManifest},
                    pos : 0..Len(tree), ver : Version \cup {NoVersion}]
    BY DEF NoRead
  <2>2. Cardinality(claim) <= 1
    BY FS_EmptySet
  <2>3. QED
    BY <2>1, <2>2 DEF TypeOK
<1>2. RequestsInv
  BY DEF RequestsInv, WellFormed, SeenRegistered
<1>3. StoppedInv
  BY DEF StoppedInv
<1>4. SettledInv
  <2> SUFFICES ASSUME NEW m \in ManifestId PROVE Settled(m)
    BY DEF SettledInv
  <2>1. At(m) = {}
    BY DEF At
  <2>2. QED
    BY <2>1, NoLeaves DEF Settled
<1>5. BoundInv
  BY DEF BoundInv
<1>6. ReaderInv
  BY DEF ReaderInv, NoRead
<1>7. ClaimInv
  BY DEF ClaimInv, OkIsProven, OkIsRecoverable
<1>8. QED
  BY <1>1, <1>2, <1>3, <1>4, <1>5, <1>6, <1>7 DEF IngestInv

-----------------------------------------------------------------------------
\* The steps of a request between its writes: it takes up a manifest, learns
\* something of it, or leaves it, and an answer claims only what is so.
ClaimsWhatIs(o) ==
  /\ o \in [id : ManifestId, wm : {NoWatermark}]
  /\ claim' = {o}
  /\ Registered(o.id)
  /\ o.id \notin lossy \cup raced => Has(leaves, o.id) /\ Has(tree, o.id)

GoesTo(r, q) ==
  /\ req' = [req EXCEPT ![r] = q]
  /\ q.pc # "store" /\ WellFormed(q) /\ SeenRegistered(q)
  /\ q.id \in ManifestId \ raced' => /\ Knows(q)
                                     /\ \A p \in Request \ {r} : req[p].id # q.id
  /\ q.wm \in WatermarkId \ contested' =>
       /\ \A p \in Request \ {r} : req[p].wm # q.wm
       /\ q.batch = {} => /\ q.pc = "register" => bindings[q.wm] = NoManifest
                          /\ q.pc # "append"

Moves(r) ==
  /\ up
  /\ req[r].pc # "store"
  /\ \E q \in Slot : GoesTo(r, q)
  /\ raced \subseteq raced' /\ raced' \subseteq ManifestId
  /\ contested \subseteq contested' /\ contested' \subseteq WatermarkId
  /\ acked' \subseteq stored
  /\ skipped' \subseteq Object
  /\ claim' = claim \/ \E o \in [id : ManifestId, wm : {NoWatermark}] : ClaimsWhatIs(o)
  /\ UNCHANGED <<tables, log, up, reader, stored, lossy, crashes, failures>>

\* A request that answers has the process running, and leaves its manifest.
LEMMA Running ==
  ASSUME IngestInv, NEW r \in Request, req[r].pc # "free"
  PROVE  up
BY DEF IngestInv, StoppedInv

LEMMA TakesUpIsAlone ==
  ASSUME TypeOK, NEW r \in Request, NEW m \in ManifestId, NEW k \in WatermarkId, TakesUp(r, m, k)
  PROVE  /\ raced \subseteq raced' /\ raced' \subseteq ManifestId
         /\ contested \subseteq contested' /\ contested' \subseteq WatermarkId
         /\ m \notin raced' => \A p \in Request \ {r} : req[p].id # m
         /\ k \notin contested' => \A p \in Request \ {r} : req[p].wm # k
BY DEF TypeOK, TakesUp

\* Going back to idle, or on to the next object, is always safe.
LEMMA LeavesManifest ==
  ASSUME IngestInv, NEW r \in Request, NEW q \in Slot, req' = [req EXCEPT ![r] = q],
         q.pc \in {"free", "pick"}, q.id = NoManifest, q.wm = NoWatermark, ~q.logged,
         q.todo \subseteq q.batch, q.batch \subseteq stored
  PROVE  GoesTo(r, q)
<1>1. WellFormed(q) /\ SeenRegistered(q)
  BY DEF WellFormed, SeenRegistered
<1>2. q.id \notin ManifestId /\ q.wm \notin WatermarkId
  BY Constants
<1>3. QED
  BY <1>1, <1>2 DEF GoesTo

LEMMA ProceedLeaves ==
  ASSUME IngestInv, NEW r \in Request, Proceed(r)
  PROVE  /\ \E q \in Slot : GoesTo(r, q) /\ q.pc \in {"free", "pick"}
         /\ acked' \subseteq stored
<1>1. /\ req[r].batch \subseteq Object /\ req[r].todo \subseteq Object
      /\ req[r].batch \subseteq stored /\ req[r].todo \subseteq req[r].batch
      /\ acked \subseteq stored
  BY SlotFields DEF IngestInv, RequestsInv, WellFormed, TypeOK
<1>2. acked' \subseteq stored
  BY <1>1 DEF Proceed
<1>3. CASE req[r].todo = {}
  BY <1>2, <1>3, FreeSlot, LeavesManifest DEF Proceed
<1>4. CASE req[r].todo # {}
  <2> DEFINE q == [Free EXCEPT !.pc = "pick", !.batch = req[r].batch, !.todo = req[r].todo]
  <2>1. /\ q \in Slot /\ q.pc = "pick" /\ q.id = NoManifest /\ q.wm = NoWatermark
        /\ q.logged = FALSE /\ q.batch = req[r].batch /\ q.todo = req[r].todo
    BY <1>1 DEF Free, Slot, Step
  <2>2. req' = [req EXCEPT ![r] = q]
    BY <1>4 DEF Proceed
  <2> HIDE DEF q
  <2>3. GoesTo(r, q)
    BY <1>1, <2>1, <2>2, LeavesManifest
  <2>4. QED
    BY <1>2, <2>1, <2>3
<1>5. QED
  BY <1>3, <1>4

LEMMA RefuseLeaves ==
  ASSUME IngestInv, NEW r \in Request, Refuse(r)
  PROVE  (\E q \in Slot : GoesTo(r, q)) /\ acked' \subseteq stored /\ claim' = claim
<1>1. GoesTo(r, Free)
  BY FreeSlot, LeavesManifest DEF Refuse
<1>2. QED
  BY <1>1, FreeSlot DEF Refuse, answers, IngestInv, TypeOK

LEMMA BeginIngestMoves ==
  ASSUME IngestInv, NEW r \in Request, NEW m \in CallerId, NEW k \in WatermarkId,
         BeginIngest(r, m, k)
  PROVE  Moves(r)
<1> DEFINE q == [Free EXCEPT !.pc = "manifest", !.id = m, !.wm = k]
<1>1. m \in ManifestId
  BY Constants
<1>2. /\ q \in Slot /\ q.pc = "manifest" /\ q.id = m /\ q.wm = k
      /\ q.batch = {} /\ q.todo = {} /\ q.logged = FALSE
  BY <1>1 DEF Free, Slot, Step
<1>3. /\ up /\ req[r].pc = "free" /\ TakesUp(r, m, k)
      /\ UNCHANGED <<tables, log, up, reader, stored, answers, faults>>
      /\ req' = [req EXCEPT ![r] = q]
  BY FreeSlot DEF BeginIngest
<1> HIDE DEF q
<1>4. WellFormed(q) /\ SeenRegistered(q) /\ Knows(q)
  BY <1>1, <1>2 DEF WellFormed, SeenRegistered, Knows
<1>5. GoesTo(r, q)
  BY <1>1, <1>2, <1>3, <1>4, TakesUpIsAlone DEF IngestInv, GoesTo
<1>6. QED
  BY <1>1, <1>2, <1>3, <1>5, TakesUpIsAlone DEF IngestInv, TypeOK, Moves, answers, faults

LEMMA PickMoves ==
  ASSUME IngestInv, NEW r \in Request, NEW m \in Object, Pick(r, m)
  PROVE  Moves(r)
<1> DEFINE q == [req[r] EXCEPT !.pc = "manifest", !.id = m, !.wm = WatermarkOf[m],
                               !.todo = @ \ {m}]
<1>1. m \in ManifestId /\ WatermarkOf[m] \in WatermarkId
  BY Constants
<1>2. req[r] \in Slot /\ WellFormed(req[r])
  BY SlotFields DEF IngestInv, RequestsInv
<1>3. /\ q \in Slot /\ q.pc = "manifest" /\ q.id = m /\ q.wm = WatermarkOf[m]
      /\ q.batch = req[r].batch /\ q.todo = req[r].todo \ {m} /\ q.logged = req[r].logged
  BY <1>1, <1>2 DEF Slot, Step
<1>4. /\ req[r].pc = "pick" /\ TakesUp(r, m, WatermarkOf[m])
      /\ UNCHANGED <<tables, log, up, reader, stored, answers, faults>>
      /\ req' = [req EXCEPT ![r] = q]
  BY DEF Pick
<1> HIDE DEF q
<1>5. WellFormed(q) /\ SeenRegistered(q) /\ Knows(q)
  BY <1>1, <1>2, <1>3 DEF WellFormed, SeenRegistered, Knows
<1>6. GoesTo(r, q)
  BY <1>1, <1>3, <1>4, <1>5, TakesUpIsAlone DEF IngestInv, GoesTo
<1>7. QED
  BY <1>1, <1>3, <1>4, <1>6, TakesUpIsAlone, Running DEF IngestInv, TypeOK, Moves, answers, faults

\* A request that stays at its manifest, and changes no store.
LEMMA StaysAtManifest ==
  ASSUME IngestInv, NEW r \in Request, req[r].pc # "store",
         NEW q \in Slot, req' = [req EXCEPT ![r] = q],
         q.pc \in {"binding", "index", "register", "append"},
         q.id = req[r].id, q.wm = req[r].wm, q.batch = req[r].batch,
         WellFormed(q), SeenRegistered(q),
         q.id \in ManifestId \ raced => Knows(q),
         q.wm \in WatermarkId \ contested /\ q.batch = {} =>
           /\ q.pc = "register" => bindings[q.wm] = NoManifest
           /\ q.pc # "append",
         UNCHANGED <<tables, log, up, reader, stored, answers, races, faults>>,
         req[r].pc # "free"
  PROVE  Moves(r)
<1>1. UNCHANGED <<raced, contested, acked, claim, lossy, skipped, crashes, failures>>
  BY DEF races, answers, faults
<1>2. GoesTo(r, q)
  BY <1>1, Alone DEF GoesTo, IngestInv
<1>3. QED
  BY <1>1, <1>2, Running DEF Moves, IngestInv, TypeOK

LEMMA RefusedMoves ==
  ASSUME IngestInv, NEW r \in Request, req[r].pc \notin {"free", "store"}, Refuse(r),
         UNCHANGED <<tables, log, up, reader, stored, races, faults>>
  PROVE  Moves(r)
BY RefuseLeaves, Running DEF Moves, IngestInv, TypeOK, races, faults

LEMMA CheckManifestMoves ==
  ASSUME IngestInv, NEW r \in Request, CheckManifest(r)
  PROVE  Moves(r)
<1>1. /\ req[r].pc = "manifest" /\ req[r].batch = {}
      /\ UNCHANGED <<tables, log, up, reader, stored, races, faults>>
  BY DEF CheckManifest, IsEvent
<1>2. CASE Registered(req[r].id)
  BY <1>1, <1>2, RefusedMoves DEF CheckManifest
<1>3. CASE ~Registered(req[r].id)
  <2> DEFINE q == [req[r] EXCEPT !.pc = "binding"]
  <2>1. req[r] \in Slot /\ WellFormed(req[r])
    BY SlotFields DEF IngestInv, RequestsInv
  <2>2. /\ q \in Slot /\ q.pc = "binding" /\ q.id = req[r].id /\ q.wm = req[r].wm
        /\ q.batch = req[r].batch /\ q.todo = req[r].todo /\ q.logged = req[r].logged
    BY <2>1 DEF Slot, Step
  <2>3. req' = [req EXCEPT ![r] = q] /\ UNCHANGED answers
    BY <1>3 DEF CheckManifest
  <2> HIDE DEF q
  <2>4. WellFormed(q) /\ SeenRegistered(q) /\ Knows(q)
    BY <1>1, <1>3, <2>1, <2>2 DEF WellFormed, SeenRegistered, Knows
  <2>5. QED
    BY <1>1, <2>2, <2>3, <2>4, StaysAtManifest
<1>4. QED
  BY <1>2, <1>3

LEMMA CheckBindingMoves ==
  ASSUME IngestInv, NEW r \in Request, CheckBinding(r)
  PROVE  Moves(r)
<1>1. /\ req[r].pc = "binding"
      /\ UNCHANGED <<tables, log, up, reader, stored, races, faults>>
  BY DEF CheckBinding
<1>2. CASE Refuse(r)
  BY <1>1, <1>2, RefusedMoves
<1>3. ASSUME bindings[req[r].wm] = NoManifest, UNCHANGED answers, NEW v \in Version,
             req' = [req EXCEPT ![r].pc = "register", ![r].ver = v]
      PROVE  Moves(r)
  <2> DEFINE q == [req[r] EXCEPT !.pc = "register", !.ver = v]
  <2>1. req[r] \in Slot /\ WellFormed(req[r])
    BY SlotFields DEF IngestInv, RequestsInv
  <2>2. /\ q \in Slot /\ q.pc = "register" /\ q.id = req[r].id /\ q.wm = req[r].wm
        /\ q.batch = req[r].batch /\ q.todo = req[r].todo /\ q.logged = req[r].logged
        /\ q.ver = v
    BY <2>1 DEF Slot, Step
  <2>3. req' = [req EXCEPT ![r] = q]
    BY <1>3
  <2> HIDE DEF q
  <2>4. WellFormed(q) /\ SeenRegistered(q)
    BY <1>1, <2>1, <2>2 DEF WellFormed, SeenRegistered
  <2>5. q.id \in ManifestId \ raced => Knows(q)
    <3>1. q.id \in ManifestId \ raced => ~Registered(q.id)
      BY <1>1, <2>2, Alone DEF IngestInv, Knows
    <3>2. ~q.logged
      BY <1>1, <2>1, <2>2 DEF WellFormed
    <3>3. QED
      BY <2>2, <3>1, <3>2 DEF Knows
  <2>6. QED
    BY <1>1, <1>3, <2>2, <2>3, <2>4, <2>5, StaysAtManifest
<1>4. QED
  BY <1>2, <1>3 DEF CheckBinding

LEMMA DeliverMoves ==
  ASSUME IngestInv, NEW r \in Request, NEW batch \in SUBSET Object, Deliver(r, batch)
  PROVE  Moves(r)
<1> DEFINE q == [Free EXCEPT !.pc = "pick", !.batch = batch, !.todo = batch]
<1>1. /\ q \in Slot /\ q.pc = "pick" /\ q.id = NoManifest /\ q.wm = NoWatermark
      /\ q.logged = FALSE /\ q.batch = batch /\ q.todo = batch
  BY DEF Free, Slot, Step
<1>2. /\ up /\ req[r].pc = "free" /\ batch \subseteq stored
      /\ UNCHANGED <<tables, log, up, reader, stored, answers, races, faults>>
      /\ req' = [req EXCEPT ![r] = q]
  BY FreeSlot DEF Deliver
<1> HIDE DEF q
<1>3. GoesTo(r, q)
  BY <1>1, <1>2, LeavesManifest
<1>4. QED
  BY <1>1, <1>2, <1>3 DEF IngestInv, TypeOK, Moves, answers, races, faults

LEMMA SkipMoves ==
  ASSUME IngestInv, NEW r \in Request, NEW m \in Object, Skip(r, m)
  PROVE  Moves(r)
<1> DEFINE left == req[r].todo \ {m}
           q == [req[r] EXCEPT !.todo = left]
<1>1. /\ req[r].pc = "pick"
      /\ UNCHANGED <<tables, log, up, reader, stored, claim, races, lossy, crashes, failures>>
      /\ skipped' = skipped \cup {m}
      /\ req' = [req EXCEPT ![r] = IF left = {} THEN Free ELSE q]
      /\ acked' = IF left = {} THEN acked \cup req[r].batch ELSE acked
  BY DEF Skip
<1>2. req[r] \in Slot /\ WellFormed(req[r]) /\ req[r].todo \subseteq Object
  BY SlotFields DEF IngestInv, RequestsInv
<1>3. /\ q \in Slot /\ q.pc = "pick" /\ q.id = req[r].id /\ q.wm = req[r].wm
      /\ q.batch = req[r].batch /\ q.todo = left /\ q.logged = req[r].logged
      /\ left \subseteq req[r].todo
  BY <1>1, <1>2 DEF Slot, Step
<1> HIDE DEF q, left
<1>4. acked' \subseteq stored
  BY <1>1, <1>2 DEF WellFormed, IngestInv, TypeOK
<1>5. \E x \in Slot : GoesTo(r, x)
  <2>1. CASE left = {}
    BY <1>1, <2>1, FreeSlot, LeavesManifest
  <2>2. CASE left # {}
    <3>1. WellFormed(q) /\ SeenRegistered(q) /\ q.id \notin ManifestId /\ q.wm \notin WatermarkId
      BY <1>1, <1>2, <1>3, Constants DEF WellFormed, SeenRegistered
    <3>2. GoesTo(r, q)
      BY <1>1, <1>3, <2>2, <3>1 DEF GoesTo
    <3>3. QED
      BY <1>3, <3>2
  <2>3. QED
    BY <2>1, <2>2
<1>6. QED
  BY <1>1, <1>4, <1>5, Running DEF IngestInv, TypeOK, Moves, races

LEMMA LookUpManifestMoves ==
  ASSUME IngestInv, NEW r \in Request, LookUpManifest(r)
  PROVE  Moves(r)
<1> DEFINE q == [req[r] EXCEPT !.pc = "index", !.ver = manifests[req[r].id]]
<1>1. /\ req[r].pc = "manifest" /\ req[r].batch # {}
      /\ UNCHANGED <<tables, log, up, reader, stored, answers, races, faults>>
      /\ req' = [req EXCEPT ![r] = q]
  BY DEF LookUpManifest, IsEvent
<1>2. /\ req[r] \in Slot /\ WellFormed(req[r]) /\ req[r].id \in ManifestId
      /\ manifests[req[r].id] \in Version \cup {NoVersion}
  BY <1>1, SlotFields DEF IngestInv, RequestsInv, WellFormed, TypeOK
<1>3. /\ q \in Slot /\ q.pc = "index" /\ q.id = req[r].id /\ q.wm = req[r].wm
      /\ q.batch = req[r].batch /\ q.todo = req[r].todo /\ q.logged = req[r].logged
      /\ q.ver = manifests[req[r].id]
  BY <1>2 DEF Slot, Step
<1> HIDE DEF q
<1>4. WellFormed(q) /\ SeenRegistered(q) /\ Knows(q)
  BY <1>1, <1>2, <1>3 DEF WellFormed, SeenRegistered, Knows, Registered
<1>5. QED
  BY <1>1, <1>3, <1>4, StaysAtManifest

LEMMA LookUpIndexMoves ==
  ASSUME IngestInv, NEW r \in Request, LookUpIndex(r)
  PROVE  Moves(r)
<1>1. /\ req[r].pc = "index"
      /\ UNCHANGED <<tables, log, up, reader, stored, races, faults>>
  BY Zenon DEF LookUpIndex
<1>2. /\ req[r] \in Slot /\ WellFormed(req[r]) /\ SeenRegistered(req[r])
      /\ req[r].id \in ManifestId /\ req[r].batch # {}
  BY <1>1, SlotFields DEF IngestInv, RequestsInv, WellFormed
<1>3. Indexed(req[r].id) <=> Has(tree, req[r].id)
  BY DEF Indexed, Has
<1>4. ASSUME req[r].ver # NoVersion, Indexed(req[r].id), Succeed(r)
      PROVE  Moves(r)
  <2> DEFINE o == [id |-> req[r].id, wm |-> NoWatermark]
  <2>1. o \in [id : ManifestId, wm : {NoWatermark}] /\ o.id = req[r].id
    BY <1>2
  <2>2. Registered(o.id)
    BY <1>1, <1>2, <1>4 DEF SeenRegistered
  <2>3. o.id \notin lossy \cup raced => Has(leaves, o.id) /\ Has(tree, o.id)
    <3>1. ASSUME req[r].id \notin lossy \cup raced PROVE Has(leaves, req[r].id)
      <4>1. Settled(req[r].id)
        BY <1>2, <3>1 DEF IngestInv, SettledInv
      <4>2. \A p \in At(req[r].id) : req[p].pc # "store"
        BY <1>1, <4>1 DEF Settled, At
      <4>3. QED
        BY <1>3, <1>4, <3>1, <4>1, <4>2 DEF Settled
    <3>2. QED
      BY <1>3, <1>4, <2>1, <3>1
  <2>4. claim' = claim \/ claim' = {o}
    BY <1>2, <1>4 DEF Succeed, IsEvent
  <2> HIDE DEF o
  <2>5. claim' = claim \/ ClaimsWhatIs(o)
    BY <2>1, <2>2, <2>3, <2>4 DEF ClaimsWhatIs
  <2>6. (\E q \in Slot : GoesTo(r, q)) /\ acked' \subseteq stored
    BY <1>4, ProceedLeaves DEF Succeed
  <2>7. QED
    BY <1>1, <2>1, <2>5, <2>6, Running DEF IngestInv, TypeOK, Moves, races, faults
<1>5. ASSUME req[r].ver # NoVersion, ~Indexed(req[r].id), UNCHANGED answers,
             req' = [req EXCEPT ![r].pc = "append"]
      PROVE  Moves(r)
  <2> DEFINE q == [req[r] EXCEPT !.pc = "append"]
  <2>1. /\ q \in Slot /\ q.pc = "append" /\ q.id = req[r].id /\ q.wm = req[r].wm
        /\ q.batch = req[r].batch /\ q.todo = req[r].todo /\ q.logged = req[r].logged
        /\ q.ver = req[r].ver /\ q.ver \in Version
    BY <1>2, <1>5 DEF Slot, Step
  <2>2. req' = [req EXCEPT ![r] = q]
    BY <1>5
  <2> HIDE DEF q
  <2>3. WellFormed(q) /\ SeenRegistered(q)
    BY <1>1, <1>2, <1>5, <2>1 DEF WellFormed, SeenRegistered
  <2>4. q.id \in ManifestId \ raced => Knows(q)
    <3>1. q.id \in ManifestId \ raced => q.ver = manifests[q.id]
      BY <1>1, <2>1, Alone DEF IngestInv, Knows
    <3>2. QED
      BY <1>3, <1>5, <2>1, <3>1 DEF Knows
  <2>5. QED
    BY <1>1, <1>2, <1>5, <2>1, <2>2, <2>3, <2>4, StaysAtManifest
<1>6. ASSUME req[r].ver = NoVersion, UNCHANGED answers, NEW v \in Version,
             req' = [req EXCEPT ![r].pc = "register", ![r].ver = v,
                                ![r].logged = Indexed(req[r].id)]
      PROVE  Moves(r)
  <2> DEFINE q == [req[r] EXCEPT !.pc = "register", !.ver = v, !.logged = Indexed(req[r].id)]
  <2>1. Indexed(req[r].id) \in BOOLEAN
    BY DEF Indexed
  <2>2. /\ q \in Slot /\ q.pc = "register" /\ q.id = req[r].id /\ q.wm = req[r].wm
        /\ q.batch = req[r].batch /\ q.todo = req[r].todo /\ q.ver = v
        /\ q.logged = Indexed(req[r].id)
    BY <1>2, <2>1 DEF Slot, Step
  <2>3. req' = [req EXCEPT ![r] = q]
    BY <1>6
  <2> HIDE DEF q
  <2>4. WellFormed(q) /\ SeenRegistered(q)
    BY <1>1, <1>2, <2>2 DEF WellFormed, SeenRegistered
  <2>5. q.id \in ManifestId \ raced => Knows(q)
    <3>1. ASSUME q.id \in ManifestId \ raced
          PROVE  ~Registered(q.id) /\ ~Has(tree, q.id)
      <4>1. ~Registered(q.id)
        BY <1>1, <1>6, <2>2, <3>1, Alone DEF IngestInv, Knows, Registered
      <4>2. QED
        BY <3>1, <4>1 DEF IngestInv, SettledInv, Settled
    <3>2. QED
      BY <1>3, <2>2, <3>1 DEF Knows
  <2>6. QED
    BY <1>1, <1>2, <1>6, <2>2, <2>3, <2>4, <2>5, StaysAtManifest
<1>7. QED
  BY <1>4, <1>5, <1>6, Zenon DEF LookUpIndex

-----------------------------------------------------------------------------
\* What every step of one request does to the requests, and the invariants that
\* are about one request at a time.

LEMMA AtAfter ==
  ASSUME TypeOK, NEW r \in Request, NEW q \in Slot, req' = [req EXCEPT ![r] = q], NEW m
  PROVE  /\ req' \in [Request -> Slot] /\ req'[r] = q
         /\ \A p \in Request \ {r} : req'[p] = req[p]
         /\ At(m)' = IF q.id = m THEN At(m) \cup {r} ELSE At(m) \ {r}
BY DEF TypeOK, At

\* At a manifest nobody contends for, whose stores do not change: the request that
\* moves knows what it should, and was not storing its leaf.
LEMMA SettledMoves ==
  ASSUME IngestInv, NEW r \in Request, NEW q \in Slot, GoesTo(r, q), req[r].pc # "store",
         raced \subseteq raced', UNCHANGED <<tables, log, up, lossy>>
  PROVE  SettledInv'
<1> SUFFICES ASSUME NEW m \in ManifestId \ raced' PROVE Settled(m)'
  BY DEF SettledInv
<1>1. Settled(m) /\ TypeOK
  BY DEF IngestInv, SettledInv
<1>2. /\ UNCHANGED <<manifests, leaves, tree, up, lossy>>
      /\ req' = [req EXCEPT ![r] = q]
  BY DEF GoesTo, tables, log
<1>3. /\ req'[r] = q
      /\ \A p \in Request \ {r} : req'[p] = req[p]
      /\ At(m)' = IF q.id = m THEN At(m) \cup {r} ELSE At(m) \ {r}
  BY <1>1, <1>2, AtAfter
<1>4. q.id = m => Knows(q) /\ At(m) \subseteq {r}
  BY DEF GoesTo, At
<1>5. \A p, x \in At(m)' : p = x
  BY <1>1, <1>3, <1>4 DEF Settled
<1>6. \A p \in At(m)' : Knows(req[p])'
  <2> SUFFICES ASSUME NEW p \in At(m)' PROVE Knows(req[p])'
    OBVIOUS
  <2>1. CASE p = r
    <3>1. q.id = m
      BY <1>3, <2>1
    <3>2. QED
      BY <1>2, <1>3, <1>4, <2>1, <3>1 DEF Knows, Registered
  <2>2. CASE p # r
    <3>1. p \in At(m) /\ req'[p] = req[p]
      BY <1>3, <2>2 DEF At
    <3>2. Knows(req[p])
      BY <1>1, <3>1 DEF Settled
    <3>3. QED
      BY <1>2, <3>1, <3>2 DEF Knows, Registered
  <2>3. QED
    BY <2>1, <2>2
<1>7. \A p \in At(m) : req[p].pc = "store" => p \in At(m)' /\ req'[p].pc = "store"
  BY <1>3 DEF At
<1>8. QED
  BY <1>1, <1>2, <1>5, <1>6, <1>7 DEF Settled, Registered

LEMMA BoundMoves ==
  ASSUME IngestInv, NEW r \in Request, NEW q \in Slot, GoesTo(r, q),
         contested \subseteq contested', UNCHANGED <<tables, log, up, reader>>
  PROVE  BoundInv'
<1>1. /\ req'[r] = q /\ \A p \in Request \ {r} : req'[p] = req[p]
      /\ UNCHANGED bindings
  BY AtAfter DEF IngestInv, GoesTo, tables
<1> SUFFICES ASSUME NEW p \in Request, req'[p].wm \in WatermarkId \ contested'
             PROVE  /\ \A x \in Request : req'[x].wm = req'[p].wm => x = p
                    /\ ~IsEvent(p)' =>
                         /\ req'[p].pc = "register" => bindings[req'[p].wm] = NoManifest
                         /\ req'[p].pc \in {"append", "store"}
                              => bindings[req'[p].wm] = req'[p].id
  BY <1>1 DEF BoundInv
<1>2. CASE p = r
  BY <1>1, <1>2 DEF GoesTo, IsEvent
<1>3. CASE p # r
  <2>1. /\ req'[p] = req[p] /\ req[p].wm \in WatermarkId \ contested
        /\ IsEvent(p)' <=> IsEvent(p)
    BY <1>1, <1>3 DEF IsEvent
  <2>2. q.wm # req[p].wm
    BY <1>3, <2>1 DEF GoesTo
  <2>3. QED
    BY <1>1, <2>1, <2>2 DEF IngestInv, BoundInv
<1>4. QED
  BY <1>2, <1>3

LEMMA ClaimIsSmall ==
  ASSUME TypeOK, claim # {} => \E o \in claim : claim = {o},
         NEW o \in [id : ManifestId, wm : WatermarkId \cup {NoWatermark}],
         claim' = claim \/ claim' = {o}
  PROVE  /\ claim' \subseteq [id : ManifestId, wm : WatermarkId \cup {NoWatermark}]
         /\ claim' # {} => \E x \in claim' : claim' = {x}
         /\ Cardinality(claim') <= 1
<1>1. claim' \subseteq [id : ManifestId, wm : WatermarkId \cup {NoWatermark}]
  BY DEF TypeOK
<1>2. claim' # {} => \E x \in claim' : claim' = {x}
  OBVIOUS
<1>3. Cardinality(claim') <= 1
  <2>1. CASE claim' = {}
    BY <2>1, FS_EmptySet
  <2>2. ASSUME NEW x \in claim', claim' = {x} PROVE Cardinality(claim') <= 1
    <3>1. Cardinality({x}) = 1
      BY FS_Singleton
    <3>2. QED
      BY <2>2, <3>1
  <2>3. QED
    BY <1>2, <2>1, <2>2
<1>4. QED
  BY <1>1, <1>2, <1>3

LEMMA MovesPreserve ==
  ASSUME IngestInv, NEW r \in Request, Moves(r)
  PROVE  IngestInv'
<1>1. PICK q \in Slot : GoesTo(r, q)
  BY DEF Moves
<1>2. /\ up /\ req[r].pc # "store"
      /\ UNCHANGED <<manifests, bindings, leaves, tree, up, reader, stored, lossy, crashes,
                     failures>>
      /\ raced \subseteq raced' /\ raced' \subseteq ManifestId
      /\ contested \subseteq contested' /\ contested' \subseteq WatermarkId
      /\ acked' \subseteq stored /\ skipped' \subseteq Object
  BY DEF Moves, tables, log
<1>3. /\ req' \in [Request -> Slot] /\ req'[r] = q
      /\ \A p \in Request \ {r} : req'[p] = req[p]
  BY <1>1, AtAfter DEF IngestInv, GoesTo
<1>4. /\ claim' \subseteq [id : ManifestId, wm : WatermarkId \cup {NoWatermark}]
      /\ claim' # {} => \E x \in claim' : claim' = {x}
      /\ Cardinality(claim') <= 1
  <2>1. CASE claim' = claim
    BY <2>1 DEF IngestInv, TypeOK, ClaimInv
  <2>2. ASSUME NEW o \in [id : ManifestId, wm : {NoWatermark}], ClaimsWhatIs(o)
        PROVE  /\ claim' \subseteq [id : ManifestId, wm : WatermarkId \cup {NoWatermark}]
               /\ claim' # {} => \E x \in claim' : claim' = {x}
               /\ Cardinality(claim') <= 1
    BY <2>2, ClaimIsSmall DEF ClaimsWhatIs, IngestInv, ClaimInv
  <2>3. QED
    BY <2>1, <2>2 DEF Moves
<1>5. TypeOK'
  BY <1>2, <1>3, <1>4 DEF IngestInv, TypeOK
<1>6. RequestsInv'
  BY <1>1, <1>2, <1>3 DEF IngestInv, RequestsInv, GoesTo, WellFormed, SeenRegistered, Registered
<1>7. StoppedInv'
  BY <1>2 DEF StoppedInv
<1>8. SettledInv'
  BY <1>1, <1>2, SettledMoves DEF tables, log
<1>9. BoundInv'
  BY <1>1, <1>2, BoundMoves DEF tables, log
<1>10. ReaderInv'
  BY <1>2 DEF IngestInv, ReaderInv
<1>11. OkIsProven' /\ OkIsRecoverable'
  <2>1. CASE claim' = claim
    <3>1. OkIsProven'
      BY <1>2, <2>1 DEF IngestInv, ClaimInv, OkIsProven, Registered, Indexed, LeavesOf
    <3>2. OkIsRecoverable'
      BY <1>2, <2>1 DEF IngestInv, ClaimInv, OkIsRecoverable
    <3>3. QED
      BY <3>1, <3>2
  <2>2. ASSUME NEW o \in [id : ManifestId, wm : {NoWatermark}], ClaimsWhatIs(o)
        PROVE  OkIsProven' /\ OkIsRecoverable'
    BY <1>2, <2>2 DEF ClaimsWhatIs, OkIsProven, OkIsRecoverable, Registered, Indexed,
                      Has, LeavesOf
  <2>3. QED
    BY <2>1, <2>2 DEF Moves
<1>12. QED
  BY <1>4, <1>5, <1>6, <1>7, <1>8, <1>9, <1>10, <1>11 DEF IngestInv, ClaimInv

-----------------------------------------------------------------------------
\* The writes.

\* A write to one manifest does not disturb another.
LEMMA OthersSettled ==
  ASSUME TypeOK, NEW m \in ManifestId, Settled(m),
         NEW r \in Request, NEW q \in Slot, req' = [req EXCEPT ![r] = q],
         req[r].id # m, q.id # m, manifests'[m] = manifests[m],
         Once(leaves', m, manifests[m]), Once(tree', m, manifests[m]),
         Has(leaves', m) <=> Has(leaves, m), Has(tree', m) <=> Has(tree, m),
         up' = up, lossy \subseteq lossy'
  PROVE  Settled(m)'
<1>1. At(m)' = At(m) /\ \A p \in At(m) : req'[p] = req[p] /\ req[p].id = m
  BY AtAfter DEF At
<1>2. \A p \in At(m) : Knows(req[p])'
  <2> SUFFICES ASSUME NEW p \in At(m) PROVE Knows(req[p])'
    OBVIOUS
  <2>1. req'[p] = req[p] /\ req[p].id = m /\ Knows(req[p])
    BY <1>1 DEF Settled
  <2>2. QED
    BY <2>1 DEF Knows, Registered
<1>3. QED
  BY <1>1, <1>2 DEF Settled, Registered

\* The fields of a request about to write.
LEMMA Writer ==
  ASSUME IngestInv, NEW r \in Request, req[r].pc \in {"register", "append", "store"}
  PROVE  /\ up
         /\ req[r] \in Slot /\ WellFormed(req[r]) /\ SeenRegistered(req[r])
         /\ req[r].id \in ManifestId /\ req[r].wm \in WatermarkId /\ req[r].ver \in Version
         /\ req[r].ver # NoVersion /\ LeafOf(r) \in Leaf
         /\ LeafOf(r).id = req[r].id /\ LeafOf(r).ver = req[r].ver
<1>1. /\ req[r] \in Slot /\ WellFormed(req[r]) /\ SeenRegistered(req[r])
      /\ req[r].id \in ManifestId /\ req[r].wm \in WatermarkId /\ req[r].ver \in Version
  BY SlotFields DEF IngestInv, RequestsInv, WellFormed
<1>2. QED
  BY <1>1, Running, Constants DEF LeafOf, Leaf

\* What a request answers for is typed, and it is the only claim.
LEMMA SucceedClaims ==
  ASSUME IngestInv, NEW r \in Request, Succeed(r), req[r].id \in ManifestId,
         req[r].wm \in WatermarkId
  PROVE  /\ claim' \subseteq [id : ManifestId, wm : WatermarkId \cup {NoWatermark}]
         /\ claim' # {} => \E x \in claim' : claim' = {x}
         /\ Cardinality(claim') <= 1
         /\ \A o \in claim' : o \in claim
              \/ (o.id = req[r].id /\ (o.wm # NoWatermark => ~IsEvent(r) /\ o.wm = req[r].wm))
<1> DEFINE o == [id |-> req[r].id, wm |-> IF IsEvent(r) THEN NoWatermark ELSE req[r].wm]
<1>1. /\ o \in [id : ManifestId, wm : WatermarkId \cup {NoWatermark}]
      /\ o.id = req[r].id /\ (o.wm # NoWatermark => ~IsEvent(r) /\ o.wm = req[r].wm)
  OBVIOUS
<1>2. claim' = claim \/ claim' = {o}
  BY DEF Succeed
<1> HIDE DEF o
<1>3. TypeOK /\ (claim # {} => \E x \in claim : claim = {x})
  BY DEF IngestInv, ClaimInv
<1>4. /\ claim' \subseteq [id : ManifestId, wm : WatermarkId \cup {NoWatermark}]
      /\ claim' # {} => \E x \in claim' : claim' = {x}
      /\ Cardinality(claim') <= 1
  BY <1>1, <1>2, <1>3, ClaimIsSmall
<1>5. QED
  BY <1>1, <1>2, <1>4

LEMMA RegisterStep ==
  ASSUME IngestInv, NEW r \in Request, Register(r)
  PROVE  IngestInv'
<1> DEFINE m0 == req[r].id
           k0 == req[r].wm
<1>1. /\ req[r].pc = "register"
      /\ UNCHANGED <<leaves, tree, up, reader, stored, raced, contested, lossy, skipped,
                     crashes, failures>>
      /\ manifests' = [manifests EXCEPT ![m0] = req[r].ver]
      /\ bindings' = [bindings EXCEPT ![k0] = IF @ = NoManifest THEN m0 ELSE @]
  BY DEF Register, log, races, faults
<1>2. /\ up /\ req[r] \in Slot /\ WellFormed(req[r])
      /\ m0 \in ManifestId /\ k0 \in WatermarkId /\ req[r].ver \in Version
      /\ req[r].ver # NoVersion
  BY <1>1, Writer
<1>3. /\ TypeOK
      /\ manifests \in [ManifestId -> Version \cup {NoVersion}]
      /\ bindings \in [WatermarkId -> ManifestId \cup {NoManifest}]
  BY DEF IngestInv, TypeOK
<1>4. PICK q \in Slot :
        /\ req' = [req EXCEPT ![r] = q]
        /\ WellFormed(q)
        /\ \/ q.pc \in {"free", "pick"} /\ req[r].logged /\ Succeed(r)
           \/ /\ q.pc = "append" /\ ~req[r].logged /\ UNCHANGED answers
              /\ q.id = m0 /\ q.wm = k0 /\ q.ver = req[r].ver /\ q.batch = req[r].batch
  <2>1. CASE req[r].logged
    BY <2>1, ProceedLeaves DEF Register, Succeed, GoesTo
  <2>2. CASE ~req[r].logged
    <3> DEFINE q == [req[r] EXCEPT !.pc = "append"]
    <3>1. /\ q \in Slot /\ q.pc = "append" /\ q.id = m0 /\ q.wm = k0 /\ q.ver = req[r].ver
          /\ q.batch = req[r].batch /\ q.todo = req[r].todo /\ q.logged = req[r].logged
      BY <1>2 DEF Slot, Step
    <3>2. req' = [req EXCEPT ![r] = q] /\ UNCHANGED answers
      BY <2>2 DEF Register
    <3> HIDE DEF q
    <3>3. WellFormed(q)
      BY <1>1, <1>2, <3>1 DEF WellFormed
    <3>4. QED
      BY <2>2, <3>1, <3>2, <3>3
  <2>3. QED
    BY <2>1, <2>2
<1>5. /\ req' \in [Request -> Slot] /\ req'[r] = q
      /\ \A p \in Request \ {r} : req'[p] = req[p]
  BY <1>3, <1>4, AtAfter
<1>6. /\ claim' \subseteq [id : ManifestId, wm : WatermarkId \cup {NoWatermark}]
      /\ claim' # {} => \E x \in claim' : claim' = {x}
      /\ Cardinality(claim') <= 1 /\ acked' \subseteq stored
      /\ \A o \in claim' : o \in claim \/ (o.id = m0 /\ o.wm = NoWatermark /\ req[r].logged)
  <2>1. CASE Succeed(r) /\ req[r].logged
    <3>1. IsEvent(r)
      BY <1>2, <2>1 DEF WellFormed, IsEvent
    <3>2. acked' \subseteq stored
      BY <2>1, ProceedLeaves DEF Succeed
    <3>3. QED
      BY <1>2, <2>1, <3>1, <3>2, SucceedClaims
  <2>2. CASE UNCHANGED answers
    BY <1>3, <2>2 DEF IngestInv, ClaimInv, TypeOK, answers
  <2>3. QED
    BY <1>4, <2>1, <2>2
<1>7. \A m \in ManifestId : Registered(m) => Registered(m)'
  BY <1>1, <1>2, <1>3 DEF Registered
<1>8. manifests'[m0] # NoVersion
  BY <1>1, <1>2, <1>3
<1>9. m0 \notin raced => ~Registered(m0) /\ ~req[r].logged /\ Settled(m0)
  BY <1>1, <1>2, Alone DEF IngestInv, Knows, SettledInv
<1>10. TypeOK'
  BY <1>1, <1>2, <1>3, <1>5, <1>6 DEF TypeOK
<1>11. RequestsInv'
  <2> SUFFICES ASSUME NEW p \in Request PROVE WellFormed(req[p])' /\ SeenRegistered(req[p])'
    BY DEF RequestsInv
  <2>1. CASE p = r
    <3>1. /\ req'[p] = q /\ WellFormed(q)
          /\ (q.pc \in {"free", "pick"} \/ (q.pc = "append" /\ q.id = m0))
      BY <1>4, <1>5, <2>1
    <3>2. WellFormed(req[p])'
      BY <1>1, <3>1 DEF WellFormed
    <3>3. QED
      BY <1>8, <3>1, <3>2 DEF SeenRegistered, Registered
  <2>2. CASE p # r
    <3>1. req'[p] = req[p] /\ WellFormed(req[p]) /\ SeenRegistered(req[p])
      BY <1>5, <2>2 DEF IngestInv, RequestsInv
    <3>2. req[p].pc \in {"append", "store", "index"} => req[p].id \in ManifestId
      BY <3>1 DEF WellFormed
    <3>3. SeenRegistered(req[p])'
      BY <1>7, <3>1, <3>2 DEF SeenRegistered
    <3>4. QED
      BY <1>1, <3>1, <3>3 DEF WellFormed
  <2>3. QED
    BY <2>1, <2>2
<1>12. StoppedInv'
  BY <1>1, <1>2 DEF StoppedInv
<1>13. SettledInv'
  <2> SUFFICES ASSUME NEW m \in ManifestId \ raced PROVE Settled(m)'
    BY <1>1 DEF SettledInv
  <2>1. Settled(m)
    BY DEF IngestInv, SettledInv
  <2>2. CASE m # m0
    <3>1. q.id # m
      BY <1>4, <2>2, Constants DEF WellFormed
    <3>2. manifests'[m] = manifests[m]
      BY <1>1, <1>3, <2>2 DEF TypeOK
    <3>3. Once(leaves, m, manifests[m]) /\ Once(tree, m, manifests[m])
      BY <2>1 DEF Settled
    <3>4. QED
      BY <1>1, <1>3, <1>4, <2>1, <2>2, <3>1, <3>2, <3>3, OthersSettled
  <2>3. CASE m = m0
    <3>1. ~Has(leaves, m) /\ ~Has(tree, m) /\ q.pc = "append" /\ q.id = m /\ q.ver = req[r].ver
      BY <1>4, <1>9, <2>1, <2>3 DEF Settled
    <3>2. manifests'[m] = req[r].ver
      BY <1>1, <1>3, <2>3 DEF TypeOK
    <3>3. At(m)' = {r}
      BY <1>3, <1>4, <2>1, <2>3, <3>1, AtAfter DEF At, Settled
    <3>4. Once(leaves, m, manifests'[m]) /\ Once(tree, m, manifests'[m])
      BY <3>1, NoneIsOnce
    <3>5. Knows(req[r])'
      BY <1>1, <1>5, <3>1, <3>2 DEF Knows
    <3>6. QED
      BY <1>1, <3>1, <3>3, <3>4, <3>5 DEF Settled
  <2>4. QED
    BY <2>2, <2>3
<1>14. BoundInv'
  <2> SUFFICES ASSUME NEW p \in Request, req'[p].wm \in WatermarkId \ contested
               PROVE  /\ \A x \in Request : req'[x].wm = req'[p].wm => x = p
                      /\ ~IsEvent(p)' =>
                           /\ req'[p].pc = "register" => bindings'[req'[p].wm] = NoManifest
                           /\ req'[p].pc \in {"append", "store"}
                                => bindings'[req'[p].wm] = req'[p].id
    BY <1>1 DEF BoundInv
  <2>1. CASE p = r
    <3>1. /\ q.pc = "append" /\ q.id = m0 /\ q.wm = k0 /\ q.batch = req[r].batch
          /\ req'[p] = q
      BY <1>4, <1>5, <2>1, Constants DEF WellFormed
    <3>2. \A x \in Request : req'[x].wm = k0 => x = r
      BY <1>5, <2>1, <3>1 DEF IngestInv, BoundInv
    <3>3. req[r].batch = {} => bindings'[k0] = m0
      <4>1. req[r].batch = {} => bindings[k0] = NoManifest
        BY <1>1, <2>1, <3>1 DEF IngestInv, BoundInv, IsEvent
      <4>2. QED
        BY <1>1, <1>2, <1>3, <4>1 DEF TypeOK
    <3>4. QED
      BY <2>1, <3>1, <3>2, <3>3 DEF IsEvent
  <2>2. CASE p # r
    <3>1. req'[p] = req[p] /\ (IsEvent(p)' <=> IsEvent(p))
      BY <1>5, <2>2 DEF IsEvent
    <3>2. /\ \A x \in Request : req[x].wm = req[p].wm => x = p
          /\ ~IsEvent(p) =>
               /\ req[p].pc = "register" => bindings[req[p].wm] = NoManifest
               /\ req[p].pc \in {"append", "store"} => bindings[req[p].wm] = req[p].id
      BY <3>1 DEF IngestInv, BoundInv
    <3>3. k0 # req[p].wm
      BY <2>2, <3>2
    <3>4. bindings'[req[p].wm] = bindings[req[p].wm]
      BY <1>1, <1>3, <3>1, <3>3 DEF TypeOK
    <3>5. q.wm \in {k0, NoWatermark}
      BY <1>4 DEF WellFormed
    <3>6. q.wm # req[p].wm
      BY <3>1, <3>3, <3>5, Constants
    <3>7. \A x \in Request : req'[x].wm = req[p].wm => x = p
      BY <1>5, <3>2, <3>6
    <3>8. QED
      BY <3>1, <3>2, <3>4, <3>7
  <2>3. QED
    BY <2>1, <2>2
<1>15. ReaderInv'
  <2>1. reader.pc = "manifest" /\ reader.id \notin raced =>
          manifests'[reader.id] = manifests[reader.id]
    <3>1. reader.pc = "manifest" /\ reader.id \notin raced => Registered(reader.id)
      BY DEF IngestInv, ReaderInv, Registered
    <3>2. reader.pc = "manifest" => reader.id \in ManifestId
      BY DEF IngestInv, ReaderInv
    <3>3. QED
      BY <1>1, <1>3, <1>9, <3>1, <3>2 DEF TypeOK
  <2>2. QED
    BY <1>1, <2>1 DEF IngestInv, ReaderInv
<1>16. OkIsProven'
  <2> SUFFICES ASSUME NEW o \in claim'
               PROVE  /\ Registered(o.id)'
                      /\ o.id \notin lossy \cup raced =>
                           LeavesOf(leaves, o.id) # {} /\ (up => Indexed(o.id))
    BY <1>1 DEF OkIsProven, Indexed, LeavesOf
  <2>1. CASE o \in claim
    BY <1>3, <1>7, <2>1 DEF IngestInv, ClaimInv, OkIsProven, TypeOK
  <2>2. CASE o \notin claim
    BY <1>6, <1>8, <1>9, <2>2 DEF Registered
  <2>3. QED
    BY <2>1, <2>2
<1>17. OkIsRecoverable'
  <2> SUFFICES ASSUME NEW o \in claim', o.wm # NoWatermark, o.id \notin raced, o.wm \notin contested
               PROVE  bindings'[o.wm] = o.id
    BY <1>1 DEF OkIsRecoverable
  <2>1. o \in claim /\ o.id \in ManifestId /\ o.wm \in WatermarkId
    BY <1>6
  <2>2. bindings[o.wm] = o.id
    BY <2>1 DEF IngestInv, ClaimInv, OkIsRecoverable
  <2>3. QED
    BY <1>1, <1>3, <2>1, <2>2, Constants DEF TypeOK
<1>18. QED
  BY <1>6, <1>10, <1>11, <1>12, <1>13, <1>14, <1>15, <1>16, <1>17 DEF IngestInv, ClaimInv

LEMMA AppendLeafStep ==
  ASSUME IngestInv, NEW r \in Request, AppendLeaf(r)
  PROVE  IngestInv'
<1> DEFINE m0 == req[r].id
           q == [req[r] EXCEPT !.pc = "store"]
<1>1. /\ req[r].pc = "append" /\ req' = [req EXCEPT ![r] = q]
      /\ tree' = Append(tree, LeafOf(r))
      /\ UNCHANGED <<manifests, bindings, leaves, up, reader, stored, acked, claim, raced,
                     contested, lossy, skipped, crashes, failures>>
  BY DEF AppendLeaf, tables, answers, races, faults
<1>2. /\ up /\ req[r] \in Slot /\ WellFormed(req[r]) /\ SeenRegistered(req[r])
      /\ m0 \in ManifestId /\ req[r].ver \in Version
      /\ LeafOf(r) \in Leaf /\ LeafOf(r).id = m0 /\ LeafOf(r).ver = req[r].ver
  BY <1>1, Writer
<1>3. TypeOK /\ tree \in Seq(Leaf) /\ Len(tree) \in Nat
  BY DEF IngestInv, TypeOK
<1>4. /\ q \in Slot /\ q.pc = "store" /\ q.id = m0 /\ q.wm = req[r].wm /\ q.ver = req[r].ver
      /\ q.batch = req[r].batch /\ q.todo = req[r].todo /\ q.logged = req[r].logged
  BY <1>2 DEF Slot, Step
<1> HIDE DEF q
<1>5. /\ req' \in [Request -> Slot] /\ req'[r] = q
      /\ \A p \in Request \ {r} : req'[p] = req[p]
  BY <1>1, <1>3, <1>4, AtAfter
<1>6. /\ tree' \in Seq(Leaf) /\ Len(tree') = Len(tree) + 1
      /\ \A i \in 1..Len(tree) : tree'[i] = tree[i]
      /\ Has(tree', m0) /\ (~Has(tree, m0) => Once(tree', m0, req[r].ver))
  BY <1>1, <1>2, <1>3, AppendedLeaves
<1>7. TypeOK'
  <2>1. reader' \in [pc : {"free", "index", "manifest"}, id : ManifestId \cup {NoManifest},
                     pos : 0..Len(tree'), ver : Version \cup {NoVersion}]
    <3>1. /\ reader.pc \in {"free", "index", "manifest"}
          /\ reader.id \in ManifestId \cup {NoManifest}
          /\ reader.ver \in Version \cup {NoVersion} /\ reader.pos \in 0..Len(tree)
          /\ reader = [pc |-> reader.pc, id |-> reader.id, pos |-> reader.pos, ver |-> reader.ver]
      BY <1>3 DEF TypeOK
    <3>2. reader.pos \in 0..Len(tree')
      BY <1>3, <1>6, <3>1
    <3>3. QED
      BY <1>1, <3>1, <3>2
  <2>2. QED
    BY <1>1, <1>3, <1>5, <1>6, <2>1 DEF TypeOK
<1>8. RequestsInv'
  <2>1. WellFormed(q) /\ SeenRegistered(q)
    BY <1>1, <1>2, <1>4 DEF WellFormed, SeenRegistered
  <2>2. QED
    BY <1>1, <1>5, <2>1 DEF IngestInv, RequestsInv, WellFormed, SeenRegistered, Registered
<1>9. StoppedInv'
  BY <1>1, <1>2 DEF StoppedInv
<1>10. SettledInv'
  <2> SUFFICES ASSUME NEW m \in ManifestId \ raced PROVE Settled(m)'
    BY <1>1 DEF SettledInv
  <2>1. Settled(m)
    BY DEF IngestInv, SettledInv
  <2>2. CASE m # m0
    <3>1. Has(tree', m) <=> Has(tree, m)
      BY <1>1, <1>2, <1>3, <2>2, AppendedLeaves
    <3>2. Once(leaves, m, manifests[m]) /\ Once(tree', m, manifests[m])
      BY <1>1, <1>2, <1>3, <2>1, <2>2, AppendedLeaves DEF Settled
    <3>3. QED
      BY <1>1, <1>3, <1>4, <2>1, <2>2, <3>1, <3>2, OthersSettled
  <2>3. CASE m = m0
    <3>1. /\ q.ver = manifests[m] /\ ~Has(tree, m) /\ \A p \in Request \ {r} : req[p].id # m
      BY <1>1, <1>4, <2>3, Alone DEF IngestInv, Knows
    <3>2. ~Has(leaves, m)
      BY <1>2, <2>1, <3>1 DEF Settled
    <3>3. At(m)' = {r}
      BY <1>1, <1>3, <1>4, <2>3, <3>1, AtAfter DEF At
    <3>4. Once(leaves, m, manifests[m]) /\ Once(tree', m, manifests[m]) /\ Has(tree', m)
      BY <1>4, <1>6, <2>3, <3>1, <3>2, NoneIsOnce
    <3>5. Registered(m)
      BY <1>1, <1>2, <2>3 DEF SeenRegistered
    <3>6. Knows(req[r])'
      BY <1>1, <1>4, <1>5, <2>3, <3>1, <3>2, <3>4 DEF Knows
    <3>7. QED
      BY <1>1, <1>4, <1>5, <3>2, <3>3, <3>4, <3>5, <3>6 DEF Settled, Registered
  <2>4. QED
    BY <2>2, <2>3
<1>11. BoundInv'
  <2> SUFFICES ASSUME NEW p \in Request, req'[p].wm \in WatermarkId \ contested
               PROVE  /\ \A x \in Request : req'[x].wm = req'[p].wm => x = p
                      /\ ~IsEvent(p)' =>
                           /\ req'[p].pc = "register" => bindings[req'[p].wm] = NoManifest
                           /\ req'[p].pc \in {"append", "store"}
                                => bindings[req'[p].wm] = req'[p].id
    BY <1>1 DEF BoundInv
  <2>1. \A x \in Request : req'[x].wm = req[x].wm /\ req'[x].batch = req[x].batch
                             /\ req'[x].id = req[x].id
    BY <1>4, <1>5
  <2>2. /\ req'[p].pc = "register" => req[p].pc = "register"
        /\ req'[p].pc \in {"append", "store"} => req[p].pc \in {"append", "store"}
    BY <1>1, <1>4, <1>5
  <2>3. IsEvent(p)' <=> IsEvent(p)
    BY <2>1 DEF IsEvent
  <2>4. /\ \A x \in Request : req[x].wm = req[p].wm => x = p
        /\ ~IsEvent(p) =>
             /\ req[p].pc = "register" => bindings[req[p].wm] = NoManifest
             /\ req[p].pc \in {"append", "store"} => bindings[req[p].wm] = req[p].id
    BY <2>1 DEF IngestInv, BoundInv
  <2>5. QED
    BY <2>1, <2>2, <2>3, <2>4
<1>12. ReaderInv'
  <2>1. reader.pc # "free" => reader.pos \in 1..Len(tree') /\ tree'[reader.pos] = tree[reader.pos]
    BY <1>3, <1>6 DEF IngestInv, ReaderInv
  <2>2. QED
    BY <1>1, <2>1 DEF IngestInv, ReaderInv
<1>13. ClaimInv'
  <2>1. OkIsProven'
    <3> SUFFICES ASSUME NEW o \in claim
                 PROVE  /\ Registered(o.id)
                        /\ o.id \notin lossy \cup raced =>
                             LeavesOf(leaves, o.id) # {} /\ LeavesOf(tree', o.id) # {}
      BY <1>1 DEF OkIsProven, Indexed, LeavesOf, Registered
    <3>1. /\ Registered(o.id)
          /\ o.id \notin lossy \cup raced => LeavesOf(leaves, o.id) # {} /\ Has(tree, o.id)
      BY <1>2 DEF IngestInv, ClaimInv, OkIsProven, Indexed, Has
    <3>2. Has(tree, o.id) => Has(tree', o.id)
      BY <1>1, <1>2, <1>3, AppendedLeaves
    <3>3. QED
      BY <3>1, <3>2 DEF Has
  <2>2. OkIsRecoverable'
    BY <1>1 DEF IngestInv, ClaimInv, OkIsRecoverable
  <2>3. QED
    BY <1>1, <2>1, <2>2 DEF IngestInv, ClaimInv
<1>14. QED
  BY <1>7, <1>8, <1>9, <1>10, <1>11, <1>12, <1>13 DEF IngestInv

\* The INSERT is committed, or raises, and append returns, or raises, with the lock.
LEMMA StoreStep ==
  ASSUME IngestInv, NEW r \in Request, StoreLeaf(r) \/ StoreRaises(r)
  PROVE  IngestInv'
<1> DEFINE m0 == req[r].id
           stays == leaves' = leaves /\ lossy' = lossy \cup {m0} /\ claim' = claim
           grows == leaves' = Append(leaves, LeafOf(r)) /\ lossy' = lossy
<1>1. /\ req[r].pc = "store"
      /\ UNCHANGED <<manifests, bindings, tree, up, reader, stored, raced, contested, skipped,
                     crashes>>
      /\ stays \/ grows
      /\ failures' \in {failures, failures + 1} /\ failures' \in 0..MaxFailures
  <2>1. failures \in 0..MaxFailures
    BY DEF IngestInv, TypeOK
  <2>2. CASE StoreLeaf(r)
    BY <2>1, <2>2 DEF StoreLeaf, tables, races, faults
  <2>3. CASE StoreRaises(r)
    BY <2>1, <2>3, Constants DEF StoreRaises, Refuse, answers, tables, races
  <2>4. QED
    BY <2>2, <2>3
<1> HIDE DEF stays, grows
<1>2. /\ up /\ req[r] \in Slot /\ WellFormed(req[r]) /\ SeenRegistered(req[r])
      /\ m0 \in ManifestId /\ req[r].wm \in WatermarkId /\ req[r].ver \in Version
      /\ LeafOf(r) \in Leaf /\ LeafOf(r).id = m0 /\ LeafOf(r).ver = req[r].ver
      /\ Registered(m0)
  BY <1>1, Writer DEF SeenRegistered
<1>3. TypeOK /\ leaves \in Seq(Leaf)
  BY DEF IngestInv, TypeOK
<1>4. PICK q \in Slot : req' = [req EXCEPT ![r] = q] /\ WellFormed(q) /\ q.pc \in {"free", "pick"}
  <2>1. CASE StoreLeaf(r)
    BY <2>1, ProceedLeaves DEF StoreLeaf, Succeed, GoesTo
  <2>2. CASE StoreRaises(r)
    BY <2>2, FreeSlot DEF StoreRaises, Refuse, WellFormed
  <2>3. QED
    BY <2>1, <2>2
<1>5. /\ req' \in [Request -> Slot] /\ req'[r] = q
      /\ \A p \in Request \ {r} : req'[p] = req[p]
      /\ q.id = NoManifest /\ q.wm = NoWatermark
  BY <1>3, <1>4, AtAfter DEF WellFormed
<1>6. /\ claim' \subseteq [id : ManifestId, wm : WatermarkId \cup {NoWatermark}]
      /\ claim' # {} => \E x \in claim' : claim' = {x}
      /\ Cardinality(claim') <= 1 /\ acked' \subseteq stored
      /\ \A o \in claim' : o \in claim
           \/ (o.id = m0 /\ (o.wm # NoWatermark => ~IsEvent(r) /\ o.wm = req[r].wm))
      /\ stays => claim' = claim
  <2>1. CASE StoreLeaf(r)
    <3>1. Succeed(r) /\ ~(stays /\ claim' # claim)
      BY <2>1 DEF StoreLeaf, stays
    <3>2. acked' \subseteq stored
      BY <3>1, ProceedLeaves DEF Succeed
    <3>3. QED
      BY <1>2, <3>1, <3>2, SucceedClaims
  <2>2. CASE StoreRaises(r)
    <3>1. claim' = claim /\ acked' = acked
      BY <2>2 DEF StoreRaises, Refuse, answers
    <3>2. QED
      BY <1>3, <3>1 DEF IngestInv, ClaimInv, TypeOK
  <2>3. QED
    BY <2>1, <2>2
<1>7. /\ leaves' \in Seq(Leaf) /\ lossy' \subseteq ManifestId /\ lossy \subseteq lossy'
      /\ \A m : Has(leaves, m) => Has(leaves', m)
  <2>1. \A m : Has(leaves, m) => Has(Append(leaves, LeafOf(r)), m)
    BY <1>2, <1>3, AppendedLeaves
  <2>2. Append(leaves, LeafOf(r)) \in Seq(Leaf)
    BY <1>2, <1>3
  <2>3. QED
    BY <1>1, <1>2, <1>3, <2>1, <2>2 DEF TypeOK, stays, grows
<1>8. TypeOK'
  BY <1>1, <1>3, <1>5, <1>6, <1>7 DEF TypeOK
<1>9. RequestsInv'
  <2>1. WellFormed(q) /\ SeenRegistered(q)
    BY <1>4 DEF SeenRegistered
  <2>2. QED
    BY <1>1, <1>5, <2>1 DEF IngestInv, RequestsInv, WellFormed, SeenRegistered, Registered
<1>10. StoppedInv'
  BY <1>1, <1>2 DEF StoppedInv
<1>11. SettledInv'
  <2> SUFFICES ASSUME NEW m \in ManifestId \ raced PROVE Settled(m)'
    BY <1>1 DEF SettledInv
  <2>1. Settled(m)
    BY DEF IngestInv, SettledInv
  <2>2. CASE m # m0
    <3>1. Once(leaves, m, manifests[m]) /\ Once(tree, m, manifests[m])
      BY <2>1 DEF Settled
    <3>2. (Has(leaves', m) <=> Has(leaves, m)) /\ Once(leaves', m, manifests[m])
      <4>1. CASE stays
        BY <3>1, <4>1 DEF stays
      <4>2. CASE grows
        BY <1>2, <1>3, <2>2, <3>1, <4>2, AppendedLeaves DEF grows
      <4>3. QED
        BY <1>1, <4>1, <4>2
    <3>3. q.id # m
      BY <1>5, Constants
    <3>4. QED
      BY <1>1, <1>3, <1>4, <1>7, <2>1, <2>2, <3>1, <3>2, <3>3, OthersSettled
  <2>3. CASE m = m0
    <3>1. /\ req[r].ver = manifests[m] /\ Has(tree, m) /\ ~Has(leaves, m)
          /\ \A p \in Request \ {r} : req[p].id # m
      BY <1>1, <2>3, Alone DEF IngestInv, Knows
    <3>2. At(m)' = {}
      BY <1>3, <1>4, <1>5, <2>3, <3>1, Constants, AtAfter DEF At
    <3>3. Once(tree, m, manifests[m]) /\ Registered(m)
      BY <1>2, <2>1, <2>3 DEF Settled
    <3>4. CASE stays
      <4>1. m \in lossy' /\ Once(leaves', m, manifests[m]) /\ ~Has(leaves', m)
        BY <2>3, <3>1, <3>4, NoneIsOnce DEF stays
      <4>2. QED
        BY <1>1, <3>1, <3>2, <3>3, <4>1 DEF Settled, Registered
    <3>5. CASE grows
      <4>1. Has(leaves', m) /\ Once(leaves', m, manifests[m])
        BY <1>2, <1>3, <2>3, <3>1, <3>5, AppendedLeaves DEF grows
      <4>2. QED
        BY <1>1, <3>1, <3>2, <3>3, <4>1 DEF Settled, Registered
    <3>6. QED
      BY <1>1, <3>4, <3>5
  <2>4. QED
    BY <2>2, <2>3
<1>12. BoundInv'
  <2> SUFFICES ASSUME NEW p \in Request, req'[p].wm \in WatermarkId \ contested
               PROVE  /\ \A x \in Request : req'[x].wm = req'[p].wm => x = p
                      /\ ~IsEvent(p)' =>
                           /\ req'[p].pc = "register" => bindings[req'[p].wm] = NoManifest
                           /\ req'[p].pc \in {"append", "store"}
                                => bindings[req'[p].wm] = req'[p].id
    BY <1>1 DEF BoundInv
  <2>1. p # r /\ req'[p] = req[p] /\ q.wm # req[p].wm
    BY <1>5, Constants
  <2>2. IsEvent(p)' <=> IsEvent(p)
    BY <2>1 DEF IsEvent
  <2>3. QED
    BY <1>5, <2>1, <2>2 DEF IngestInv, BoundInv
<1>13. ReaderInv'
  BY <1>1 DEF IngestInv, ReaderInv
<1>14. OkIsProven'
  <2> SUFFICES ASSUME NEW o \in claim'
               PROVE  /\ Registered(o.id)
                      /\ o.id \notin lossy' \cup raced => Has(leaves', o.id) /\ Has(tree, o.id)
    BY <1>1 DEF OkIsProven, Indexed, Registered, Has
  <2>1. CASE o \in claim
    <3>1. /\ Registered(o.id)
          /\ o.id \notin lossy \cup raced => Has(leaves, o.id) /\ Has(tree, o.id)
      BY <1>2, <2>1 DEF IngestInv, ClaimInv, OkIsProven, Indexed, Has
    <3>2. QED
      BY <1>7, <3>1
  <2>2. CASE o \notin claim
    <3>1. o.id = m0 /\ grows
      BY <1>1, <1>6, <2>2
    <3>2. Has(leaves', m0)
      BY <1>2, <1>3, <3>1, AppendedLeaves DEF grows
    <3>3. m0 \notin raced => Has(tree, m0)
      BY <1>1, <1>2, Alone DEF IngestInv, Knows
    <3>4. QED
      BY <1>2, <3>1, <3>2, <3>3
  <2>3. QED
    BY <2>1, <2>2
<1>15. OkIsRecoverable'
  <2> SUFFICES ASSUME NEW o \in claim', o.wm # NoWatermark, o.id \notin raced, o.wm \notin contested
               PROVE  bindings[o.wm] = o.id
    BY <1>1 DEF OkIsRecoverable
  <2>1. CASE o \in claim
    BY <2>1 DEF IngestInv, ClaimInv, OkIsRecoverable
  <2>2. CASE o \notin claim
    <3>1. o.id = m0 /\ ~IsEvent(r) /\ o.wm = req[r].wm
      BY <1>6, <2>2
    <3>2. QED
      BY <1>1, <1>2, <3>1 DEF IngestInv, BoundInv
  <2>3. QED
    BY <2>1, <2>2
<1>16. QED
  BY <1>6, <1>8, <1>9, <1>10, <1>11, <1>12, <1>13, <1>14, <1>15 DEF IngestInv, ClaimInv

-----------------------------------------------------------------------------
\* Steps that are no request's.

\* A step that changes no store, request, race or claim.
LEMMA QuietStep ==
  ASSUME IngestInv,
         UNCHANGED <<manifests, bindings, leaves, tree, up, req, acked, claim, raced,
                     contested, lossy, skipped, crashes, failures>>,
         stored \subseteq stored', stored' \subseteq Object,
         TypeOK => reader' \in [pc : {"free", "index", "manifest"},
                                id : ManifestId \cup {NoManifest}, pos : 0..Len(tree),
                                ver : Version \cup {NoVersion}],
         ReaderInv', up \/ reader' = NoRead
  PROVE  IngestInv'
<1>1. TypeOK'
  BY DEF IngestInv, TypeOK
<1>2. RequestsInv'
  BY DEF IngestInv, RequestsInv, WellFormed, SeenRegistered, Registered
<1>3. StoppedInv'
  BY DEF IngestInv, StoppedInv
<1>4. SettledInv'
  <2> SUFFICES ASSUME NEW m \in ManifestId \ raced PROVE Settled(m)'
    BY DEF SettledInv
  <2>1. Settled(m) /\ At(m)' = At(m)
    BY DEF IngestInv, SettledInv, At
  <2>2. \A p \in At(m) : Knows(req[p])'
    BY <2>1 DEF Settled, Knows, Registered
  <2>3. QED
    BY <2>1, <2>2 DEF Settled, Registered
<1>5. BoundInv'
  BY DEF IngestInv, BoundInv, IsEvent
<1>6. OkIsProven' /\ OkIsRecoverable'
  <2>1. OkIsProven'
    BY DEF IngestInv, ClaimInv, OkIsProven, Indexed, LeavesOf, Registered
  <2>2. OkIsRecoverable'
    BY DEF IngestInv, ClaimInv, OkIsRecoverable
  <2>3. QED
    BY <2>1, <2>2
<1>7. QED
  BY <1>1, <1>2, <1>3, <1>4, <1>5, <1>6 DEF IngestInv, ClaimInv

LEMMA QuietSteps ==
  ASSUME IngestInv, Read \/ (\E m \in Object : Upload(m)) \/ UNCHANGED vars
  PROVE  IngestInv'
<1>1. ReaderInv /\ StoppedInv /\ TypeOK /\ stored \subseteq Object /\ tree \in Seq(Leaf)
  BY DEF IngestInv, TypeOK
<1>2. /\ reader \in [pc : {"free", "index", "manifest"}, id : ManifestId \cup {NoManifest},
                     pos : 0..Len(tree), ver : Version \cup {NoVersion}]
      /\ NoRead \in [pc : {"free", "index", "manifest"}, id : ManifestId \cup {NoManifest},
                     pos : 0..Len(tree), ver : Version \cup {NoVersion}]
  BY <1>1 DEF TypeOK, NoRead
<1>3. reader.pc # "free" => up
  BY <1>1 DEF StoppedInv, NoRead
<1>4. NoRead.pc = "free" /\ NoRead.pos = 0
  BY DEF NoRead
<1>5. ASSUME NEW m \in ManifestId, ReadIndex(m) PROVE IngestInv'
  <2>1. PICK pos \in LeavesOf(tree, m) :
          reader' = [NoRead EXCEPT !.pc = "index", !.id = m, !.pos = pos]
    BY <1>5, Zenon DEF ReadIndex
  <2>2. pos \in 1..Len(tree) /\ tree[pos].id = m
    BY DEF LeavesOf
  <2>3. /\ reader'.pc = "index" /\ reader'.id = m /\ reader'.pos = pos
        /\ reader' \in [pc : {"free", "index", "manifest"}, id : ManifestId \cup {NoManifest},
                        pos : 0..Len(tree), ver : Version \cup {NoVersion}]
    <3>1. reader' = [pc |-> "index", id |-> m, pos |-> pos, ver |-> NoVersion]
      BY <2>1 DEF NoRead
    <3>2. pos \in 0..Len(tree)
      BY <1>1, <2>2
    <3>3. QED
      BY <3>1, <3>2
  <2>4. up /\ UNCHANGED <<tables, log, up, req, stored, answers, races, faults>>
    BY <1>5 DEF ReadIndex
  <2>5. ReaderInv'
    BY <2>2, <2>3, <2>4 DEF ReaderInv, log
  <2>6. QED
    BY <1>1, <2>3, <2>4, <2>5, QuietStep DEF tables, log, answers, races, faults
<1>6. CASE ReadManifest
  <2>1. reader.pc = "index" /\ UNCHANGED <<tables, log, up, req, stored, answers, races, faults>>
    BY <1>6 DEF ReadManifest
  <2>2. CASE Registered(reader.id)
    <3>1. reader' = [reader EXCEPT !.pc = "manifest", !.ver = manifests[reader.id]]
      BY <1>6, <2>2 DEF ReadManifest
    <3>2. reader.id \in ManifestId /\ manifests[reader.id] \in Version
      BY <1>1, <2>1, <2>2 DEF ReaderInv, TypeOK, Registered
    <3>3. /\ reader'.pc = "manifest" /\ reader'.id = reader.id /\ reader'.pos = reader.pos
          /\ reader'.ver = manifests[reader.id]
          /\ reader' \in [pc : {"free", "index", "manifest"}, id : ManifestId \cup {NoManifest},
                          pos : 0..Len(tree), ver : Version \cup {NoVersion}]
      BY <1>2, <3>1, <3>2
    <3>4. ReaderInv'
      BY <1>1, <2>1, <2>2, <3>3 DEF ReaderInv, tables, log, races, Registered
    <3>5. QED
      BY <1>1, <1>3, <2>1, <3>3, <3>4, QuietStep DEF tables, log, answers, races, faults
  <2>3. CASE ~Registered(reader.id)
    <3>1. reader' = NoRead
      BY <1>6, <2>3 DEF ReadManifest
    <3>2. ReaderInv'
      BY <1>4, <3>1 DEF ReaderInv
    <3>3. QED
      BY <1>1, <1>2, <2>1, <3>1, <3>2, QuietStep DEF tables, log, answers, races, faults
  <2>4. QED
    BY <2>2, <2>3
<1>7. CASE ServeProof
  <2>1. reader' = NoRead /\ UNCHANGED <<tables, log, up, req, stored, answers, races, faults>>
    BY <1>7 DEF ServeProof
  <2>2. ReaderInv'
    BY <1>4, <2>1 DEF ReaderInv
  <2>3. QED
    BY <1>1, <1>2, <2>1, <2>2, QuietStep DEF tables, log, answers, races, faults
<1>8. ASSUME UNCHANGED <<tables, log, up, req, reader, answers, races, faults>>,
             stored \subseteq stored', stored' \subseteq Object
      PROVE  IngestInv'
  <2>1. UNCHANGED <<manifests, bindings, leaves, tree, up, req, reader, acked, claim, raced,
                    contested, lossy, skipped, crashes, failures>>
    BY <1>8 DEF tables, log, answers, races, faults
  <2>2. ReaderInv'
    BY <1>1, <2>1 DEF ReaderInv
  <2>3. QED
    BY <1>1, <1>2, <1>8, <2>1, <2>2, QuietStep DEF StoppedInv
<1>9. ASSUME NEW m \in Object, Upload(m) PROVE IngestInv'
  BY <1>1, <1>8, <1>9 DEF Upload
<1>10. CASE UNCHANGED vars
  BY <1>1, <1>8, <1>10 DEF vars
<1>11. QED
  BY <1>5, <1>6, <1>7, <1>9, <1>10 DEF Read

\* The process dies or starts again: what the tables hold is all there is.
LEMMA CrashRestartStep ==
  ASSUME IngestInv, Crash \/ Restart
  PROVE  IngestInv'
<1>1. /\ UNCHANGED <<manifests, bindings, leaves, stored, acked, claim, raced, contested, lossy,
                     skipped, failures>>
      /\ tree' \in {<< >>, leaves} /\ (up' => tree' = leaves) /\ up' \in BOOLEAN
      /\ ~up' => tree' = << >>
      /\ reader' = NoRead /\ crashes' \in 0..MaxCrashes
      /\ req' \in [Request -> Slot] /\ \A r \in Request : req'[r] = Free \/ ~up
  <2>1. CASE Crash
    <3>1. crashes \in 0..MaxCrashes
      BY DEF IngestInv, TypeOK
    <3>2. crashes' \in 0..MaxCrashes
      BY <2>1, <3>1, Constants DEF Crash
    <3>3. req' \in [Request -> Slot] /\ \A r \in Request : req'[r] = Free
      BY <2>1, FreeSlot DEF Crash
    <3>4. QED
      BY <2>1, <3>2, <3>3 DEF Crash, tables, answers, races
  <2>2. CASE Restart
    <3>1. ~up /\ reader = NoRead
      BY <2>2 DEF Restart, IngestInv, StoppedInv
    <3>2. QED
      BY <2>2, <3>1 DEF Restart, tables, answers, races, faults, IngestInv, TypeOK
  <2>3. QED
    BY <2>1, <2>2
<1>2. \A r \in Request : /\ req'[r].pc = "free" /\ req'[r].id = NoManifest
                         /\ req'[r].wm = NoWatermark /\ WellFormed(req[r])'
  <2> SUFFICES ASSUME NEW r \in Request
               PROVE  /\ req'[r].pc = "free" /\ req'[r].id = NoManifest
                      /\ req'[r].wm = NoWatermark /\ WellFormed(req[r])'
    OBVIOUS
  <2>1. CASE Crash
    BY <2>1, FreeSlot DEF Crash, WellFormed
  <2>2. CASE Restart
    <3>1. req'[r] = req[r] /\ stored' = stored /\ req[r].pc = "free" /\ WellFormed(req[r])
      BY <2>2 DEF Restart, IngestInv, StoppedInv, RequestsInv
    <3>2. QED
      BY <3>1 DEF WellFormed
  <2>3. QED
    BY <2>1, <2>2
<1>3. /\ tree' \in Seq(Leaf)
      /\ reader' \in [pc : {"free", "index", "manifest"}, id : ManifestId \cup {NoManifest},
                      pos : 0..Len(tree'), ver : Version \cup {NoVersion}]
      /\ reader'.pc = "free" /\ reader'.pos = 0
  <2>1. leaves \in Seq(Leaf) /\ << >> \in Seq(Leaf)
    BY DEF IngestInv, TypeOK
  <2>2. tree' \in Seq(Leaf)
    BY <1>1, <2>1
  <2>3. 0 \in 0..Len(tree')
    BY <2>2
  <2>4. QED
    BY <1>1, <2>2, <2>3 DEF NoRead
<1>4. TypeOK'
  BY <1>1, <1>3 DEF IngestInv, TypeOK
<1>5. RequestsInv'
  BY <1>2 DEF RequestsInv, SeenRegistered
<1>6. StoppedInv'
  BY <1>1, <1>2 DEF StoppedInv, NoRead
<1>7. SettledInv'
  <2> SUFFICES ASSUME NEW m \in ManifestId \ raced PROVE Settled(m)'
    BY <1>1 DEF SettledInv
  <2>1. Settled(m)
    BY DEF IngestInv, SettledInv
  <2>2. At(m)' = {}
    BY <1>2, Constants DEF At
  <2>3. /\ Once(tree', m, manifests[m]) /\ (~Registered(m) => ~Has(tree', m))
        /\ Has(tree', m) => Has(leaves, m)
        /\ up' /\ Has(leaves, m) => Has(tree', m)
    BY <1>1, <2>1, NoLeaves DEF Settled
  <2>4. QED
    BY <1>1, <2>1, <2>2, <2>3 DEF Settled, Registered
<1>8. BoundInv'
  BY <1>2, Constants DEF BoundInv
<1>9. ReaderInv'
  BY <1>3 DEF ReaderInv
<1>10. OkIsProven' /\ OkIsRecoverable'
  <2>1. OkIsProven'
    BY <1>1 DEF IngestInv, ClaimInv, OkIsProven, Indexed, LeavesOf, Registered
  <2>2. OkIsRecoverable'
    BY <1>1 DEF IngestInv, ClaimInv, OkIsRecoverable
  <2>3. QED
    BY <2>1, <2>2
<1>11. QED
  BY <1>1, <1>4, <1>5, <1>6, <1>7, <1>8, <1>9, <1>10 DEF IngestInv, ClaimInv

\* Every step of every request, of the process and of the database keeps it.
THEOREM IngestNextPreserves == IngestInv /\ [Next]_vars => IngestInv'
<1> SUFFICES ASSUME IngestInv, [Next]_vars PROVE IngestInv'
  OBVIOUS
<1>1. ASSUME NEW r \in Request, Arrive(r) PROVE IngestInv'
  BY <1>1, BeginIngestMoves, DeliverMoves, MovesPreserve DEF Arrive
<1>2. ASSUME NEW r \in Request, Handle(r) PROVE IngestInv'
  <2>1. CASE CheckManifest(r) \/ CheckBinding(r) \/ LookUpManifest(r) \/ LookUpIndex(r)
    BY <2>1, CheckManifestMoves, CheckBindingMoves, LookUpManifestMoves, LookUpIndexMoves,
       MovesPreserve
  <2>2. CASE \E m \in Object : Pick(r, m) \/ Skip(r, m)
    BY <2>2, PickMoves, SkipMoves, MovesPreserve
  <2>3. CASE Register(r) \/ AppendLeaf(r) \/ StoreLeaf(r) \/ StoreRaises(r)
    BY <2>3, RegisterStep, AppendLeafStep, StoreStep
  <2>4. QED
    BY <1>2, <2>1, <2>2, <2>3 DEF Handle
<1>3. QED
  BY <1>1, <1>2, QuietSteps, CrashRestartStep DEF Next

\* IngestInv holds in every reachable state, whatever the manifests, watermarks,
\* bodies, requests, crashes and failures.
THEOREM IngestInvariant == Spec => []IngestInv
BY IngestInitEstablishes, IngestNextPreserves, PTL DEF Spec

-----------------------------------------------------------------------------
\* What registration promises.

\* The tables, the tree and the requests stay in their types.  (sbr.py, ingest;
\* b2_events.py, ingest_stored_object.)
THEOREM IngestTypeCorrect == Spec => []TypeOK
<1>1. IngestInv => TypeOK
  BY DEF IngestInv
<1>2. QED
  BY <1>1, IngestInvariant, PTL

\* Ingest is idempotent across redeliveries, paths, failures and crashes, where no two
\* requests are at one manifest.  (ingest, ingest_stored_object, TransparencyLog.append.)
THEOREM LeavesAreUnique == Spec => []OneLeafPerManifest
<1>1. IngestInv => OneLeafPerManifest
  BY DEF IngestInv, SettledInv, Settled, Once, OneLeafPerManifest
<1>2. QED
  BY <1>1, IngestInvariant, PTL

\* A 2xx answer means registered and proven, now and after any restart.  (ingest,
\* b2_event_webhook.)
THEOREM AnswersAreProven == Spec => []OkIsProven
<1>1. IngestInv => OkIsProven
  BY DEF IngestInv, ClaimInv
<1>2. QED
  BY <1>1, IngestInvariant, PTL

\* What /ingest answered 200 for is recovered by its watermark.  (ingest, register.)
THEOREM AnswersAreRecoverable == Spec => []OkIsRecoverable
<1>1. IngestInv => OkIsRecoverable
  BY DEF IngestInv, ClaimInv
<1>2. QED
  BY <1>1, IngestInvariant, PTL

\* The body of a registered manifest never changes, if its requests do not overlap:
\* whoever writes it has read that it is absent, and it still is.  (register, behind
\* the checks of ingest and ingest_stored_object.)
THEOREM RegisteredNeverChanges == Spec => RegisteredStays
<1>1. ASSUME IngestInv, Next
      PROVE  \A m \in ManifestId : Registered(m) /\ m \notin raced' => manifests'[m] = manifests[m]
  <2> SUFFICES ASSUME NEW m \in ManifestId, Registered(m), m \notin raced'
               PROVE  manifests'[m] = manifests[m]
    OBVIOUS
  <2>1. ASSUME NEW r \in Request, Register(r) PROVE manifests'[m] = manifests[m]
    <3>1. /\ req[r].pc = "register" /\ raced' = raced
          /\ manifests' = [manifests EXCEPT ![req[r].id] = req[r].ver]
      BY <2>1 DEF Register, races
    <3>2. req[r].id \in ManifestId
      BY <1>1, <3>1, Writer
    <3>3. req[r].id # m
      BY <1>1, <3>1, <3>2, Alone DEF IngestInv, Knows
    <3>4. QED
      BY <1>1, <3>1, <3>3 DEF IngestInv, TypeOK
  <2>2. ASSUME NEW r \in Request, Arrive(r) PROVE manifests' = manifests
    BY <2>2, Zenon DEF Arrive, BeginIngest, Deliver, tables
  <2>3. ASSUME NEW r \in Request, Handle(r), ~Register(r) PROVE manifests' = manifests
    BY <2>3, Zenon DEF Handle, CheckManifest, CheckBinding, Pick, Skip, LookUpManifest, LookUpIndex,
      AppendLeaf, StoreLeaf, StoreRaises, tables
  <2>4. CASE Read \/ (\E o \in Object : Upload(o)) \/ Crash \/ Restart
    BY <2>4, Zenon DEF Read, ReadIndex, ReadManifest, ServeProof, Upload, Crash, Restart, tables
  <2>5. QED
    BY <1>1, <2>1, <2>2, <2>3, <2>4 DEF Next
<1>2. ASSUME IngestInv, UNCHANGED vars
      PROVE  \A m \in ManifestId : Registered(m) /\ m \notin raced' => manifests'[m] = manifests[m]
  BY <1>2 DEF vars, tables
<1>3. QED
  BY <1>1, <1>2, IngestInvariant, PTL DEF Spec, RegisteredStays

\* A served inclusion proof is about the manifest it names, although position, body
\* and path are read at three moments.  (_inclusion_proof.)
THEOREM ServedProofIsOfManifest == Spec => ProofIsOfManifest
<1>1. ASSUME IngestInv, ServeProof, reader.id \notin raced
      PROVE  tree[reader.pos] = [id |-> reader.id, ver |-> reader.ver]
  <2>1. /\ reader.pc = "manifest" /\ reader.id \in ManifestId
        /\ reader.pos \in 1..Len(tree) /\ tree[reader.pos].id = reader.id
        /\ reader.ver = manifests[reader.id] /\ tree \in Seq(Leaf)
    BY <1>1 DEF ServeProof, IngestInv, ReaderInv, TypeOK
  <2>2. reader.pos \in LeavesOf(tree, reader.id)
    BY <2>1 DEF LeavesOf
  <2>3. Once(tree, reader.id, reader.ver)
    BY <1>1, <2>1 DEF IngestInv, SettledInv, Settled
  <2>4. tree[reader.pos].ver = reader.ver
    BY <2>2, <2>3 DEF Once
  <2>5. tree[reader.pos] \in Leaf
    BY <2>1
  <2>6. QED
    BY <2>1, <2>4, <2>5 DEF Leaf
<1>2. IngestInv /\ [Next]_vars =>
        (ServeProof /\ reader.id \notin raced =>
           tree[reader.pos] = [id |-> reader.id, ver |-> reader.ver])
  BY <1>1
<1>3. QED
  BY <1>2, IngestInvariant, PTL DEF Spec, ProofIsOfManifest
==============================================================================
