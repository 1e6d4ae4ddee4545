-------------------------- MODULE ByoUploadProofs --------------------------
(***************************************************************************)
(* Proofs about ByoUpload: for any keys, contents, requests and bounds, a  *)
(* register call that is answered 200 names an image that its key has held *)
(* at a size the key had while the call ran, and that image is registered  *)
(* and has its leaf.                                                       *)
(*                                                                         *)
(* The inductive invariant says what a call knows at each await: what it   *)
(* has read of the bucket, of the cache, of the index and of the log is    *)
(* still so, in the sense that matters, when it acts on it.                *)
(***************************************************************************)
EXTENDS ByoUpload, SequenceTheorems, TLAPS

Busy == {"size", "cached", "get", "decode", "lookup", "index", "register", "append", "remember"}
Read == {"decode", "lookup", "index", "register", "append", "remember"}
Decoded == {"lookup", "index", "register", "append", "remember"}

Call ==
  [pc : Busy \cup {"idle", "done"}, key : Key \cup {Nothing}, size : Nat,
   id : Content \cup {Nothing}, known : BOOLEAN, logged : BOOLEAN,
   during : SUBSET (Content \cup {Nothing}), status : {0, 200, 404, 413, 415, 500, 502}]

CacheEntry == [key : Key, id : Content, size : Nat]

ByoTypeOK ==
  /\ persistent \in BOOLEAN
  /\ window \in [Key -> {"none", "open", "expired"}]
  /\ object \in [Key -> Content \cup {Nothing}]
  /\ held \in [Key -> SUBSET Content]
  /\ registered \subseteq Image /\ tree \subseteq Image /\ leaves \subseteq tree
  /\ cache \in Seq(CacheEntry)
  /\ req \in [Request -> Call]
  /\ puts \in Nat /\ calls \in Nat /\ restarts \in Nat

\* The history holds what the bucket holds.
HeldInv == \A k \in Key : object[k] # Nothing => object[k] \in held[k]

\* An entry of the cache names a registered and logged image of its key, at its size.
EntryOK(e) ==
  /\ e.id \in registered \cap tree \cap Image
  /\ e.id \in held[e.key]
  /\ e.size = SizeOf[e.id]

CacheInv == \A e \in Entries : EntryOK(e)

\* A call in progress has seen what its key holds now.
Seen(q) == q.pc \in Busy => q.key \in Key /\ object[q.key] \in q.during

\* The answer is of the key, by its bytes or by a cached size.
OfTheKey(q) ==
  q.pc \in Read \cup {"cached"} \/ q.status = 200 =>
    /\ q.key \in Key
    /\ q.id \in held[q.key]
    /\ SizeOf[q.id] <= Cap
    /\ SizeOf[q.id] \in Sizes(q.during)

Decodes(q) == q.pc \in Decoded \cup {"cached"} \/ q.status = 200 => q.id \in Image

\* What was read of the index and of the log, and what was written there.
IsLogged(q) ==
  /\ q.pc \in {"append", "remember"} \/ q.status = 200 => q.id \in registered
  /\ q.pc \in {"cached", "remember"} \/ q.status = 200 => q.id \in tree
  /\ q.pc = "index" /\ q.known => q.id \in registered
  /\ q.pc = "register" /\ q.logged => q.id \in tree

CallOK(q) ==
  /\ q.status # 0 => q.pc = "done"
  /\ Seen(q) /\ OfTheKey(q) /\ Decodes(q) /\ IsLogged(q)

CallsInv == \A r \in Request : CallOK(req[r])

ByoInv == ByoTypeOK /\ HeldInv /\ CacheInv /\ CallsInv
-----------------------------------------------------------------------------
\* The calls.

LEMMA IdleIsOK == Idle \in Call /\ CallOK(Idle)
<1>1. Idle \in Call
  BY DEF Idle, Call
<1>2. CallOK(Idle)
  BY DEF Idle, CallOK, Seen, OfTheKey, Decodes, IsLogged, Busy, Read, Decoded
<1> QED BY <1>1, <1>2

\* What a call knows stays so while the history, the index and the log only grow, and
\* while what its key holds is the same or is watched.
LEMMA CallStays ==
  ASSUME NEW q, NEW p, q \in Call, p \in Call, CallOK(q),
         p.pc = q.pc, p.key = q.key, p.id = q.id, p.status = q.status,
         p.known = q.known, p.logged = q.logged, q.during \subseteq p.during,
         \A k \in Key : held[k] \subseteq held'[k],
         registered \subseteq registered', tree \subseteq tree',
         q.pc \in Busy => object'[q.key] \in p.during
  PROVE  CallOK(p)'
<1>1. Sizes(q.during) \subseteq Sizes(p.during)
  BY DEF Sizes
<1>2. Seen(p)'
  BY DEF CallOK, Seen
<1>3. OfTheKey(p)'
  BY <1>1 DEF CallOK, OfTheKey
<1>4. Decodes(p)'
  BY DEF CallOK, Decodes
<1>5. IsLogged(p)'
  BY DEF CallOK, IsLogged
<1>6. p.status # 0 => p.pc = "done"
  BY DEF CallOK
<1> QED BY <1>2, <1>3, <1>4, <1>5, <1>6 DEF CallOK

\* A step of one call: the others know what they knew.
LEMMA StepKeepsCalls ==
  ASSUME ByoInv, NEW r \in Request, NEW q, q \in Call, CallOK(q)',
         req' = [req EXCEPT ![r] = q], UNCHANGED <<object, held>>,
         registered \subseteq registered', tree \subseteq tree'
  PROVE  /\ req' \in [Request -> Call]
         /\ CallsInv'
<1>1. req \in [Request -> Call]
  BY DEF ByoInv, ByoTypeOK
<1>2. req' \in [Request -> Call]
  BY <1>1
<1>3. ASSUME NEW s \in Request PROVE CallOK(req[s])'
  <2>1. CASE s = r
    <3>1. req'[s] = q
      BY <2>1, <1>1
    <3> QED BY <3>1 DEF CallOK, Seen, OfTheKey, Decodes, IsLogged
  <2>2. CASE s # r
    <3>1. req'[s] = req[s] /\ req[s] \in Call /\ CallOK(req[s])
      BY <2>2, <1>1 DEF ByoInv, CallsInv
    <3> PICK p : p = req[s]
      OBVIOUS
    <3>2. p.pc \in Busy => object'[p.key] \in p.during
      BY <3>1 DEF CallOK, Seen
    <3>3. CallOK(p)'
      BY <3>1, <3>2, CallStays
    <3>4. req'[s] = p
      BY <3>1
    <3> QED BY <3>3, <3>4 DEF CallOK, Seen, OfTheKey, Decodes, IsLogged
  <2> QED BY <2>1, <2>2
<1> QED BY <1>2, <1>3 DEF CallsInv

\* The bucket changes under the calls that are at the key: each of them has seen it.
LEMMA WatchKeepsCalls ==
  ASSUME ByoInv, ByoAssumption, NEW k \in Key, NEW c \in Content \cup {Nothing}, Watch(k, c),
         object' = [object EXCEPT ![k] = c],
         \A j \in Key : held[j] \subseteq held'[j],
         UNCHANGED <<registered, tree>>
  PROVE  /\ req' \in [Request -> Call]
         /\ CallsInv'
<1>1. /\ req \in [Request -> Call] /\ object \in [Key -> Content \cup {Nothing}]
      /\ \A j \in Key : object'[j] = IF j = k THEN c ELSE object[j]
  BY DEF ByoInv, ByoTypeOK
<1>2. ASSUME NEW s \in Request
      PROVE  req'[s] \in Call /\ CallOK(req[s])'
  <2> PICK q : q = req[s]
    OBVIOUS
  <2>1. q \in Call /\ CallOK(q)
    BY <1>1 DEF ByoInv, CallsInv
  <2>2. CASE q.key = k /\ q.pc # "done"
    <3> PICK p : p = [q EXCEPT !.during = @ \cup {c}]
      OBVIOUS
    <3>1. /\ p \in Call
          /\ p.pc = q.pc /\ p.key = q.key /\ p.id = q.id /\ p.status = q.status
          /\ p.known = q.known /\ p.logged = q.logged
          /\ p.during = q.during \cup {c}
      BY <2>1 DEF Call
    <3>2. object'[q.key] \in p.during
      BY <3>1, <2>2, <1>1
    <3>3. CallOK(p)'
      BY <2>1, <3>1, <3>2, CallStays
    <3>4. req'[s] = p
      BY <2>2 DEF Watch
    <3> QED BY <3>1, <3>3, <3>4 DEF CallOK, Seen, OfTheKey, Decodes, IsLogged
  <2>3. CASE ~(q.key = k /\ q.pc # "done")
    <3>1. q.pc \in Busy => object'[q.key] \in q.during
      BY <2>1, <2>3, <1>1 DEF CallOK, Seen, Busy
    <3>2. CallOK(q)'
      BY <2>1, <3>1, CallStays
    <3>3. req'[s] = q
      BY <2>3 DEF Watch
    <3> QED BY <2>1, <3>2, <3>3 DEF CallOK, Seen, OfTheKey, Decodes, IsLogged
  <2> QED BY <2>2, <2>3
<1>3. req' = [s \in Request |-> req'[s]]
  BY DEF Watch
<1> QED BY <1>2, <1>3 DEF CallsInv

\* The cache is as it was, or empty, or an entry that is right has come.
LEMMA CacheStays ==
  ASSUME ByoInv, UNCHANGED cache, \A k \in Key : held[k] \subseteq held'[k],
         registered \subseteq registered', tree \subseteq tree'
  PROVE  CacheInv'
<1>1. \A e \in Entries : e \in CacheEntry /\ EntryOK(e)
  BY DEF ByoInv, ByoTypeOK, CacheInv, Entries
<1>2. Entries' = Entries
  BY DEF Entries
<1>3. ASSUME NEW e \in Entries' PROVE EntryOK(e)'
  BY <1>1, <1>2 DEF EntryOK, CacheEntry
<1> QED BY <1>3 DEF CacheInv

-----------------------------------------------------------------------------
\* The updates of one field of a call.

WithPc(p, x) == [p EXCEPT !.pc = x]
WithKey(p, x) == [p EXCEPT !.key = x]
WithSize(p, x) == [p EXCEPT !.size = x]
WithId(p, x) == [p EXCEPT !.id = x]
WithKnown(p, x) == [p EXCEPT !.known = x]
WithLogged(p, x) == [p EXCEPT !.logged = x]
WithDuring(p, x) == [p EXCEPT !.during = x]
WithStatus(p, x) == [p EXCEPT !.status = x]

LEMMA WithPcIsCall ==
  ASSUME NEW p \in Call, NEW x \in Busy \cup {"done"}
  PROVE  /\ WithPc(p, x) \in Call /\ WithPc(p, x).pc = x
         /\ WithPc(p, x).key = p.key /\ WithPc(p, x).id = p.id /\ WithPc(p, x).known = p.known
         /\ WithPc(p, x).logged = p.logged /\ WithPc(p, x).during = p.during
         /\ WithPc(p, x).status = p.status
BY DEF Call, WithPc

LEMMA WithKeyIsCall ==
  ASSUME NEW p \in Call, NEW x \in Key
  PROVE  /\ WithKey(p, x) \in Call /\ WithKey(p, x).key = x
         /\ WithKey(p, x).pc = p.pc /\ WithKey(p, x).id = p.id /\ WithKey(p, x).known = p.known
         /\ WithKey(p, x).logged = p.logged /\ WithKey(p, x).during = p.during
         /\ WithKey(p, x).status = p.status
BY DEF Call, WithKey

LEMMA WithSizeIsCall ==
  ASSUME NEW p \in Call, NEW x \in Nat
  PROVE  /\ WithSize(p, x) \in Call /\ WithSize(p, x).size = x
         /\ WithSize(p, x).pc = p.pc /\ WithSize(p, x).key = p.key /\ WithSize(p, x).id = p.id
         /\ WithSize(p, x).known = p.known /\ WithSize(p, x).logged = p.logged
         /\ WithSize(p, x).during = p.during
         /\ WithSize(p, x).status = p.status
BY DEF Call, WithSize

LEMMA WithIdIsCall ==
  ASSUME NEW p \in Call, NEW x \in Content \cup {Nothing}
  PROVE  /\ WithId(p, x) \in Call /\ WithId(p, x).id = x
         /\ WithId(p, x).pc = p.pc /\ WithId(p, x).key = p.key /\ WithId(p, x).known = p.known
         /\ WithId(p, x).logged = p.logged /\ WithId(p, x).during = p.during
         /\ WithId(p, x).status = p.status
BY DEF Call, WithId

LEMMA WithKnownIsCall ==
  ASSUME NEW p \in Call, NEW x \in BOOLEAN
  PROVE  /\ WithKnown(p, x) \in Call /\ WithKnown(p, x).known = x
         /\ WithKnown(p, x).pc = p.pc /\ WithKnown(p, x).key = p.key /\ WithKnown(p, x).id = p.id
         /\ WithKnown(p, x).logged = p.logged /\ WithKnown(p, x).during = p.during
         /\ WithKnown(p, x).status = p.status
BY DEF Call, WithKnown

LEMMA WithLoggedIsCall ==
  ASSUME NEW p \in Call, NEW x \in BOOLEAN
  PROVE  /\ WithLogged(p, x) \in Call /\ WithLogged(p, x).logged = x
         /\ WithLogged(p, x).pc = p.pc /\ WithLogged(p, x).key = p.key /\ WithLogged(p, x).id = p.id
         /\ WithLogged(p, x).known = p.known /\ WithLogged(p, x).during = p.during
         /\ WithLogged(p, x).status = p.status
BY DEF Call, WithLogged

LEMMA WithDuringIsCall ==
  ASSUME NEW p \in Call, NEW x \in SUBSET (Content \cup {Nothing})
  PROVE  /\ WithDuring(p, x) \in Call /\ WithDuring(p, x).during = x
         /\ WithDuring(p, x).pc = p.pc /\ WithDuring(p, x).key = p.key /\ WithDuring(p, x).id = p.id
         /\ WithDuring(p, x).known = p.known /\ WithDuring(p, x).logged = p.logged
         /\ WithDuring(p, x).status = p.status
BY DEF Call, WithDuring

LEMMA WithStatusIsCall ==
  ASSUME NEW p \in Call, NEW x \in {0, 200, 404, 413, 415, 500, 502}
  PROVE  /\ WithStatus(p, x) \in Call /\ WithStatus(p, x).status = x
         /\ WithStatus(p, x).pc = p.pc /\ WithStatus(p, x).key = p.key /\ WithStatus(p, x).id = p.id
         /\ WithStatus(p, x).known = p.known /\ WithStatus(p, x).logged = p.logged
         /\ WithStatus(p, x).during = p.during
BY DEF Call, WithStatus
-----------------------------------------------------------------------------
\* A refused call knows nothing.
LEMMA RefusedIsOK ==
  ASSUME NEW r, NEW status \in {404, 413, 415, 500, 502}, Refuse(r, status)
  PROVE  \E q \in Call : Step(r, q) /\ q.pc = "done" /\ q.status = status
<1> DEFINE q == WithStatus(WithPc(Idle, "done"), status)
<1>1. WithPc(Idle, "done") \in Call /\ WithPc(Idle, "done").pc = "done"
  BY IdleIsOK, WithPcIsCall
<1>2. q \in Call /\ q.pc = "done" /\ q.status = status
  BY <1>1, WithStatusIsCall
<1>3. Step(r, q)
  BY ZenonT(40) DEF Refuse, WithPc, WithStatus
<1> HIDE DEF q
<1> QED BY <1>2, <1>3
-----------------------------------------------------------------------------
\* The browser and the bucket.

LEMMA PresignPutKeeps ==
  ASSUME ByoInv, NEW k \in Key, NEW declared \in 1..Cap, PresignPut(k, declared)
  PROVE  ByoInv'
<1>1. UNCHANGED <<persistent, object, held, puts, registered, tree, leaves, cache, req, calls,
                  restarts>>
  BY DEF PresignPut, registry
<1>2. ByoTypeOK'
  BY <1>1 DEF PresignPut, ByoInv, ByoTypeOK
<1> QED BY <1>1, <1>2 DEF ByoInv, HeldInv, CacheInv, Entries, EntryOK, CallsInv, CallOK,
                          Seen, OfTheKey, Decodes, IsLogged

LEMMA ExpireKeeps ==
  ASSUME ByoInv, NEW k \in Key, Expire(k)
  PROVE  ByoInv'
<1>1. UNCHANGED <<persistent, object, held, puts, registered, tree, leaves, cache, req, calls,
                  restarts>>
  BY DEF Expire, registry
<1>2. ByoTypeOK'
  BY <1>1 DEF Expire, ByoInv, ByoTypeOK
<1> QED BY <1>1, <1>2 DEF ByoInv, HeldInv, CacheInv, Entries, EntryOK, CallsInv, CallOK,
                          Seen, OfTheKey, Decodes, IsLogged

LEMMA BrowserPutKeeps ==
  ASSUME ByoInv, ByoAssumption, NEW k \in Key, NEW c \in Content, BrowserPut(k, c)
  PROVE  ByoInv'
<1>1. /\ UNCHANGED <<persistent, window, registered, tree, leaves, cache, calls, restarts>>
      /\ puts' = puts + 1
      /\ object' = [object EXCEPT ![k] = c]
      /\ held' = [held EXCEPT ![k] = @ \cup {c}]
      /\ Watch(k, c)
  BY DEF BrowserPut, registry
<1>2. /\ object \in [Key -> Content \cup {Nothing}] /\ held \in [Key -> SUBSET Content]
      /\ HeldInv
  BY DEF ByoInv, ByoTypeOK
<1>3. /\ object' \in [Key -> Content \cup {Nothing}] /\ held' \in [Key -> SUBSET Content]
      /\ \A j \in Key : held[j] \subseteq held'[j]
      /\ HeldInv'
  BY <1>1, <1>2 DEF HeldInv
<1>4. req' \in [Request -> Call] /\ CallsInv'
  BY <1>1, <1>3, WatchKeepsCalls
<1>5. CacheInv'
  BY <1>1, <1>3, CacheStays
<1>6. ByoTypeOK'
  BY <1>1, <1>3, <1>4 DEF ByoInv, ByoTypeOK
<1> QED BY <1>3, <1>4, <1>5, <1>6 DEF ByoInv

LEMMA LifecycleDeleteKeeps ==
  ASSUME ByoInv, ByoAssumption, NEW k \in Key, LifecycleDelete(k)
  PROVE  ByoInv'
<1>1. /\ UNCHANGED <<persistent, window, held, puts, registered, tree, leaves, cache, calls,
                     restarts>>
      /\ object' = [object EXCEPT ![k] = Nothing]
      /\ Watch(k, Nothing)
  BY DEF LifecycleDelete, registry
<1>2. object \in [Key -> Content \cup {Nothing}] /\ HeldInv
  BY DEF ByoInv, ByoTypeOK
<1>3. object' \in [Key -> Content \cup {Nothing}] /\ HeldInv'
  BY <1>1, <1>2 DEF HeldInv
<1>4. req' \in [Request -> Call] /\ CallsInv'
  BY <1>1, WatchKeepsCalls
<1>5. CacheInv'
  BY <1>1, CacheStays
<1>6. ByoTypeOK'
  BY <1>1, <1>3, <1>4 DEF ByoInv, ByoTypeOK
<1> QED BY <1>3, <1>4, <1>5, <1>6 DEF ByoInv
-----------------------------------------------------------------------------
\* The register call.

\* What a step of one call has to show.
LEMMA StepKeeps ==
  ASSUME ByoInv, NEW r \in Request, NEW q, q \in Call, CallOK(q)', Step(r, q),
         UNCHANGED <<registry, cache>>
  PROVE  ByoInv'
<1>1. /\ UNCHANGED <<persistent, window, object, held, puts, calls, restarts>>
      /\ UNCHANGED <<registered, tree, leaves, cache>>
      /\ req' = [req EXCEPT ![r] = q]
  BY DEF Step, bucket, registry
<1>2. req' \in [Request -> Call] /\ CallsInv'
  BY <1>1, StepKeepsCalls
<1>3. CacheInv'
  BY <1>1, CacheStays
<1>4. ByoTypeOK' /\ HeldInv'
  BY <1>1, <1>2 DEF ByoInv, ByoTypeOK, HeldInv
<1> QED BY <1>2, <1>3, <1>4 DEF ByoInv

LEMMA RefuseKeeps ==
  ASSUME ByoInv, NEW r \in Request, NEW status \in {404, 413, 415, 500, 502},
         Refuse(r, status), UNCHANGED <<registry, cache>>
  PROVE  ByoInv'
<1>1. PICK q \in Call : Step(r, q) /\ q.pc = "done" /\ q.status = status
  BY RefusedIsOK
<1>2. CallOK(q)'
  BY <1>1 DEF CallOK, Seen, OfTheKey, Decodes, IsLogged, Busy, Read, Decoded
<1> QED BY <1>1, <1>2, StepKeeps

\* The fields of a call.
LEMMA CallFields ==
  ASSUME ByoInv, NEW r \in Request
  PROVE  /\ req[r] \in Call /\ CallOK(req[r])
         /\ req[r].size \in Nat /\ req[r].during \subseteq Content \cup {Nothing}
         /\ req[r].known \in BOOLEAN /\ req[r].logged \in BOOLEAN
         /\ req[r].id \in Content \cup {Nothing} /\ req[r].key \in Key \cup {Nothing}
<1>1. req[r] \in Call /\ CallOK(req[r])
  BY DEF ByoInv, ByoTypeOK, CallsInv
<1> QED BY <1>1 DEF Call

\* A call that was begun has its status unset.
LEMMA StatusUnset ==
  ASSUME NEW q, CallOK(q), q.pc \in Busy
  PROVE  q.status = 0 /\ q.key \in Key /\ object[q.key] \in q.during
BY DEF CallOK, Seen, Busy

LEMMA BeginRegisterKeeps ==
  ASSUME ByoInv, ByoAssumption, NEW r \in Request, NEW k \in Key, BeginRegister(r, k)
  PROVE  ByoInv'
<1>1. \E q \in Call : /\ req' = [req EXCEPT ![r] = q]
                      /\ q.pc = "size" /\ q.key = k /\ q.during = {object[k]} /\ q.status = 0
  <2> DEFINE a == WithPc(Idle, "size")
             b == WithKey(a, k)
             q == WithDuring(b, {object[k]})
  <2>1. {object[k]} \in SUBSET (Content \cup {Nothing})
    BY DEF ByoInv, ByoTypeOK
  <2>2. a \in Call /\ a.pc = "size" /\ a.status = 0
    BY IdleIsOK, WithPcIsCall DEF Busy, Idle
  <2> HIDE DEF a
  <2>3. b \in Call /\ b.pc = "size" /\ b.key = k /\ b.status = 0
    BY <2>2, WithKeyIsCall
  <2> HIDE DEF b
  <2>4. q \in Call /\ q.pc = "size" /\ q.key = k /\ q.during = {object[k]} /\ q.status = 0
    BY <2>1, <2>3, WithDuringIsCall
  <2>5. req' = [req EXCEPT ![r] = q]
    BY Zenon DEF BeginRegister, WithPc, WithKey, WithDuring, a, b
  <2> HIDE DEF q
  <2> QED BY <2>4, <2>5
<1>2. /\ UNCHANGED <<persistent, window, object, held, puts, restarts>>
      /\ UNCHANGED <<registered, tree, leaves, cache>>
      /\ calls' = calls + 1
  BY DEF BeginRegister, bucket, registry
<1>3. PICK q \in Call : /\ req' = [req EXCEPT ![r] = q]
                        /\ q.pc = "size" /\ q.key = k /\ q.during = {object[k]} /\ q.status = 0
  BY <1>1
<1>4. CallOK(q)'
  BY <1>2, <1>3 DEF CallOK, Seen, OfTheKey, Decodes, IsLogged, Read, Decoded
<1>5. req' \in [Request -> Call] /\ CallsInv'
  BY <1>2, <1>3, <1>4, StepKeepsCalls
<1>6. CacheInv'
  BY <1>2, CacheStays
<1>7. ByoTypeOK' /\ HeldInv'
  BY <1>2, <1>5 DEF ByoInv, ByoTypeOK, HeldInv
<1> QED BY <1>5, <1>6, <1>7 DEF ByoInv

\* The stored size of a key is that of an image it holds.
LEMMA SizeIsOfObject ==
  ASSUME ByoInv, ByoAssumption, NEW k \in Key
  PROVE  /\ Size(k) \in Nat
         /\ Size(k) # 0 => object[k] \in held[k] /\ Size(k) = SizeOf[object[k]]
BY DEF ByoInv, ByoTypeOK, HeldInv, ByoAssumption, Size

LEMMA EntriesAreRight ==
  ASSUME ByoInv, NEW e \in Entries
  PROVE  e \in CacheEntry /\ EntryOK(e)
<1>1. PICK i \in DOMAIN cache : e = cache[i]
  BY DEF Entries
<1>2. e \in CacheEntry
  BY <1>1 DEF ByoInv, ByoTypeOK
<1>3. EntryOK(e)
  BY DEF ByoInv, CacheInv
<1> QED BY <1>2, <1>3

\* What an update of a call leaves as it was.
Same(p, q) == q.key = p.key /\ q.during = p.during /\ q.status = p.status

LEMMA CheckSizeEffect ==
  ASSUME ByoInv, ByoAssumption, NEW r \in Request, CheckSize(r)
  PROVE  \/ Refuse(r, 404) \/ Refuse(r, 413)
         \/ \E q \in Call : Step(r, q) /\ q.pc = "get" /\ Same(req[r], q)
         \/ \E q \in Call, e \in Entries :
              /\ Step(r, q) /\ q.pc = "cached" /\ Same(req[r], q) /\ q.id = e.id
              /\ e.key = req[r].key /\ e.size = Size(req[r].key) /\ e.size \in 1..Cap
<1>1. PICK p \in Call : p = req[r] /\ p.key \in Key
  BY CallFields, StatusUnset DEF CheckSize, Busy
<1>2. PICK n \in Nat : n = Size(p.key)
  BY <1>1, SizeIsOfObject
<1> DEFINE a == WithSize(WithPc(p, "get"), n)
           b(e) == WithId(WithSize(WithPc(p, "cached"), n), e.id)
<1>3. a \in Call /\ a.pc = "get" /\ Same(p, a)
  <2>1. \A c \in Call : c.pc = "get" /\ Same(p, c) =>
          WithSize(c, n) \in Call /\ WithSize(c, n).pc = "get" /\ Same(p, WithSize(c, n))
    BY WithSizeIsCall, ZenonT(40) DEF Same
  <2>2. WithPc(p, "get") \in Call /\ WithPc(p, "get").pc = "get" /\ Same(p, WithPc(p, "get"))
    BY WithPcIsCall DEF Busy, Same
  <2> QED BY <2>1, <2>2
<1>4. ASSUME NEW e \in Entries
      PROVE  b(e) \in Call /\ b(e).pc = "cached" /\ Same(p, b(e)) /\ b(e).id = e.id
  <2>1. e.id \in Content
    BY EntriesAreRight DEF CacheEntry
  <2>2. WithPc(p, "cached") \in Call /\ WithPc(p, "cached").pc = "cached"
        /\ Same(p, WithPc(p, "cached"))
    BY WithPcIsCall DEF Busy, Same
  <2>3. \A c \in Call : c.pc = "cached" /\ Same(p, c) =>
          WithSize(c, n) \in Call /\ WithSize(c, n).pc = "cached" /\ Same(p, WithSize(c, n))
    BY WithSizeIsCall, ZenonT(40) DEF Same
  <2>4. \A c \in Call : c.pc = "cached" /\ Same(p, c) =>
          WithId(c, e.id) \in Call /\ WithId(c, e.id).pc = "cached"
          /\ Same(p, WithId(c, e.id)) /\ WithId(c, e.id).id = e.id
    BY <2>1, WithIdIsCall DEF Same
  <2> QED BY <2>2, <2>3, <2>4
<1>5. \/ Refuse(r, 404) \/ Refuse(r, 413)
      \/ Step(r, a)
      \/ \E e \in Entries : e.key = p.key /\ e.size = n /\ n \in 1..Cap /\ Step(r, b(e))
  BY <1>1, <1>2, Zenon DEF CheckSize, WithPc, WithSize, WithId
<1> HIDE DEF a, b
<1> QED BY <1>1, <1>2, <1>3, <1>4, <1>5

LEMMA CheckSizeKeeps ==
  ASSUME ByoInv, ByoAssumption, NEW r \in Request, CheckSize(r)
  PROVE  ByoInv'
<1>1. req[r].pc = "size" /\ UNCHANGED <<registry, cache>>
  BY DEF CheckSize
<1>2. UNCHANGED <<registered, tree, leaves, cache>>
  BY <1>1 DEF registry
<1>3. PICK p : p = req[r]
  OBVIOUS
<1>4. /\ p \in Call /\ CallOK(p) /\ p.status = 0
      /\ p.key \in Key /\ object[p.key] \in p.during
  BY <1>1, <1>3, CallFields, StatusUnset DEF Busy
<1>5. CASE Refuse(r, 404) \/ Refuse(r, 413)
  BY <1>1, <1>5, RefuseKeeps
<1>6. ASSUME NEW q \in Call, Step(r, q), q.pc = "get", Same(p, q)
      PROVE  ByoInv'
  <2>1. UNCHANGED <<object, held>>
    BY <1>6 DEF Step, bucket
  <2>2. CallOK(q)'
    BY <1>4, <1>6, <2>1 DEF Same, CallOK, Seen, OfTheKey, Decodes, IsLogged, Read, Decoded
  <2> QED BY <1>1, <1>6, <2>2, StepKeeps
<1>7. ASSUME NEW q \in Call, NEW e \in Entries,
             Step(r, q), q.pc = "cached", Same(p, q), q.id = e.id,
             e.key = p.key, e.size = Size(p.key), e.size \in 1..Cap
      PROVE  ByoInv'
  <2>1. UNCHANGED <<object, held>>
    BY <1>7 DEF Step, bucket
  <2>2. /\ e.size = SizeOf[object[p.key]] /\ e.size <= Cap
        /\ object[p.key] \in Content /\ object[p.key] # Nothing
    BY <1>4, <1>7, SizeIsOfObject DEF ByoAssumption, ByoInv, ByoTypeOK
  <2>3. EntryOK(e)
    BY EntriesAreRight
  <2>4. SizeOf[q.id] \in Sizes(q.during)
    BY <1>4, <1>7, <2>2, <2>3 DEF Sizes, EntryOK, Same
  <2>5. CallOK(q)'
    BY <1>2, <1>4, <1>7, <2>1, <2>2, <2>3, <2>4
    DEF Same, EntryOK, CallOK, Seen, OfTheKey, Decodes, IsLogged, Read, Decoded
  <2> QED BY <1>1, <1>7, <2>5, StepKeeps
<1> QED BY <1>3, <1>5, <1>6, <1>7, CheckSizeEffect

-----------------------------------------------------------------------------
\* Keeping also what the call is about.
SameId(p, q) == Same(p, q) /\ q.id = p.id

LEMMA OkEffect ==
  ASSUME ByoInv, NEW r \in Request, Ok(r)
  PROVE  \E q \in Call : /\ Step(r, q) /\ q.pc = "done" /\ q.status = 200
                         /\ q.key = req[r].key /\ q.during = req[r].during /\ q.id = req[r].id
<1>1. PICK p \in Call : p = req[r]
  BY CallFields
<1> DEFINE a == WithPc(p, "done")
           b == WithStatus(a, 200)
           c == WithSize(b, 0)
           d == WithKnown(c, FALSE)
           q == WithLogged(d, FALSE)
           Right(s) ==
              s \in Call /\ s.pc = "done" /\ s.key = p.key /\ s.during = p.during /\ s.id = p.id
<1>2. Step(r, q)
  BY <1>1, Zenon DEF Ok, WithPc, WithStatus, WithSize, WithKnown, WithLogged
<1>3. Right(a)
  BY WithPcIsCall
<1> HIDE DEF a
<1>4. Right(b) /\ b.status = 200
  BY <1>3, WithStatusIsCall
<1> HIDE DEF b
<1>5. Right(c) /\ c.status = 200
  BY <1>4, WithSizeIsCall
<1> HIDE DEF c
<1>6. Right(d) /\ d.status = 200
  BY <1>5, WithKnownIsCall
<1> HIDE DEF d
<1>7. Right(q) /\ q.status = 200
  BY <1>6, WithLoggedIsCall
<1> HIDE DEF q
<1> QED BY <1>1, <1>2, <1>7

\* The answer 200 of a call that is of its key, decodes, and is registered and logged.
LEMMA OkIsOK ==
  ASSUME NEW p, CallOK(p), p.pc \in {"cached", "remember"},
         NEW q, q.pc = "done", q.status = 200, q.key = p.key, q.during = p.during, q.id = p.id,
         UNCHANGED <<object, held>>, p.id \in registered', p.id \in tree'
  PROVE  CallOK(q)'
BY DEF CallOK, Seen, OfTheKey, Decodes, IsLogged, Busy, Read, Decoded

LEMMA AnswerCachedKeeps ==
  ASSUME ByoInv, NEW r \in Request, AnswerCached(r)
  PROVE  ByoInv'
<1>1. req[r].pc = "cached" /\ UNCHANGED <<registry, cache>>
  BY DEF AnswerCached
<1>2. UNCHANGED <<registered, tree>>
  BY <1>1 DEF registry
<1>3. PICK p \in Call : p = req[r]
  BY CallFields
<1>4. CallOK(p) /\ p.pc = "cached" /\ p.status = 0
  BY <1>1, <1>3, CallFields, StatusUnset DEF Busy
<1>5. CASE p.id \in registered /\ Ok(r)
  <2>1. PICK q \in Call : /\ Step(r, q) /\ q.pc = "done" /\ q.status = 200
                          /\ q.key = p.key /\ q.during = p.during /\ q.id = p.id
    BY <1>3, <1>5, OkEffect
  <2>2. UNCHANGED <<object, held>>
    BY <2>1 DEF Step, bucket
  <2>3. p.id \in registered' /\ p.id \in tree'
    BY <1>2, <1>4, <1>5 DEF CallOK, IsLogged
  <2>4. CallOK(q)'
    BY <1>4, <2>1, <2>2, <2>3, OkIsOK
  <2> QED BY <1>1, <2>1, <2>4, StepKeeps
<1> DEFINE q == WithId(WithPc(p, "get"), Nothing)
<1>6. CASE Step(r, q)
  <2>1. q \in Call /\ q.pc = "get" /\ Same(p, q)
    <3>1. WithPc(p, "get") \in Call /\ WithPc(p, "get").pc = "get" /\ Same(p, WithPc(p, "get"))
      BY WithPcIsCall DEF Busy, Same
    <3>2. \A c \in Call : c.pc = "get" /\ Same(p, c) =>
            /\ WithId(c, Nothing) \in Call /\ WithId(c, Nothing).pc = "get"
            /\ Same(p, WithId(c, Nothing))
      BY WithIdIsCall DEF Same
    <3> QED BY <3>1, <3>2
  <2> HIDE DEF q
  <2>2. PICK s \in Call : s = q
    BY <2>1
  <2>3. UNCHANGED <<object, held>>
    BY <1>6 DEF Step, bucket
  <2>4. CallOK(s)'
    BY <1>4, <2>1, <2>2, <2>3
    DEF Same, CallOK, Seen, OfTheKey, Decodes, IsLogged, Busy, Read, Decoded
  <2> QED BY <1>1, <1>6, <2>2, <2>4, StepKeeps
<1>7. (p.id \in registered /\ Ok(r)) \/ Step(r, q)
  BY <1>3, Zenon DEF AnswerCached, WithPc, WithId
<1> QED BY <1>5, <1>6, <1>7

LEMMA GetKeeps ==
  ASSUME ByoInv, ByoAssumption, NEW r \in Request, Get(r)
  PROVE  ByoInv'
<1>1. req[r].pc = "get" /\ UNCHANGED <<registry, cache>>
  BY DEF Get
<1>2. PICK p \in Call : p = req[r]
  BY CallFields
<1>3. /\ CallOK(p) /\ p.pc = "get" /\ p.status = 0
      /\ p.key \in Key /\ object[p.key] \in p.during
  BY <1>1, <1>2, CallFields, StatusUnset DEF Busy
<1>4. PICK c \in Content \cup {Nothing} : c = object[p.key]
  BY <1>3 DEF ByoInv, ByoTypeOK
<1>5. CASE Refuse(r, 404) \/ Refuse(r, 502) \/ Refuse(r, 413)
  BY <1>1, <1>5, RefuseKeeps
<1> DEFINE q == WithId(WithPc(p, "decode"), c)
<1>6. CASE c # Nothing /\ Size(p.key) <= Cap /\ Step(r, q)
  <2>1. q \in Call /\ q.pc = "decode" /\ Same(p, q) /\ q.id = c
    <3>1. /\ WithPc(p, "decode") \in Call /\ WithPc(p, "decode").pc = "decode"
          /\ Same(p, WithPc(p, "decode"))
      BY WithPcIsCall DEF Busy, Same
    <3>2. \A d \in Call : d.pc = "decode" /\ Same(p, d) =>
            /\ WithId(d, c) \in Call /\ WithId(d, c).pc = "decode"
            /\ Same(p, WithId(d, c)) /\ WithId(d, c).id = c
      BY WithIdIsCall DEF Same
    <3> QED BY <3>1, <3>2
  <2> HIDE DEF q
  <2>2. PICK s \in Call : s = q
    BY <2>1
  <2>3. UNCHANGED <<object, held>>
    BY <1>6 DEF Step, bucket
  <2>4. c \in held[p.key] /\ SizeOf[c] <= Cap /\ SizeOf[c] \in Sizes(p.during)
    BY <1>3, <1>4, <1>6 DEF ByoInv, HeldInv, Size, Sizes
  <2>5. CallOK(s)'
    BY <1>3, <2>1, <2>2, <2>3, <2>4
    DEF Same, CallOK, Seen, OfTheKey, Decodes, IsLogged, Busy, Read, Decoded
  <2> QED BY <1>1, <1>6, <2>2, <2>5, StepKeeps
<1>7. \/ Refuse(r, 404) \/ Refuse(r, 502) \/ Refuse(r, 413)
      \/ c # Nothing /\ Size(p.key) <= Cap /\ Step(r, q)
  BY <1>2, <1>4, Zenon DEF Get, WithPc, WithId
<1> QED BY <1>5, <1>6, <1>7

LEMMA DecodeKeeps ==
  ASSUME ByoInv, NEW r \in Request, Decode(r)
  PROVE  ByoInv'
<1>1. req[r].pc = "decode" /\ UNCHANGED <<registry, cache>>
  BY DEF Decode
<1>2. PICK p \in Call : p = req[r]
  BY CallFields
<1>3. CallOK(p) /\ p.pc = "decode" /\ p.status = 0
  BY <1>1, <1>2, CallFields, StatusUnset DEF Busy
<1> DEFINE q == WithPc(p, "lookup")
<1>4. q \in Call /\ q.pc = "lookup" /\ SameId(p, q)
  BY WithPcIsCall DEF Busy, SameId, Same
<1>5. Refuse(r, 415) \/ (p.id \in Image /\ Step(r, q))
  BY <1>2, Zenon DEF Decode, WithPc
<1> HIDE DEF q
<1>6. PICK s \in Call : s = q
  BY <1>4
<1>7. CASE p.id \in Image /\ Step(r, q)
  <2>1. UNCHANGED <<object, held>>
    BY <1>7 DEF Step, bucket
  <2>2. CallOK(s)'
    BY <1>3, <1>4, <1>6, <1>7, <2>1
    DEF SameId, Same, CallOK, Seen, OfTheKey, Decodes, IsLogged, Busy, Read, Decoded
  <2> QED BY <1>1, <1>6, <1>7, <2>2, StepKeeps
<1> QED BY <1>1, <1>5, <1>7, RefuseKeeps

LEMMA LookupKeeps ==
  ASSUME ByoInv, NEW r \in Request, Lookup(r)
  PROVE  ByoInv'
<1>1. req[r].pc = "lookup" /\ UNCHANGED <<registry, cache>>
  BY DEF Lookup
<1>2. PICK p \in Call : p = req[r]
  BY CallFields
<1>3. CallOK(p) /\ p.pc = "lookup" /\ p.status = 0
  BY <1>1, <1>2, CallFields, StatusUnset DEF Busy
<1>4. PICK known \in BOOLEAN : known = (p.id \in registered)
  <2>1. (p.id \in registered) = TRUE \/ (p.id \in registered) = FALSE
    OBVIOUS
  <2> QED BY <2>1
<1> DEFINE q == WithKnown(WithPc(p, "index"), known)
<1>5. q \in Call /\ q.pc = "index" /\ SameId(p, q) /\ q.known = known
  <2>1. /\ WithPc(p, "index") \in Call /\ WithPc(p, "index").pc = "index"
        /\ SameId(p, WithPc(p, "index"))
    BY WithPcIsCall DEF Busy, SameId, Same
  <2>2. \A c \in Call : c.pc = "index" /\ SameId(p, c) =>
          /\ WithKnown(c, known) \in Call /\ WithKnown(c, known).pc = "index"
          /\ SameId(p, WithKnown(c, known)) /\ WithKnown(c, known).known = known
    BY WithKnownIsCall DEF SameId, Same
  <2> QED BY <2>1, <2>2
<1>6. Step(r, q)
  BY <1>2, <1>4, Zenon DEF Lookup, WithPc, WithKnown
<1> HIDE DEF q
<1>7. PICK s \in Call : s = q
  BY <1>5
<1>8. UNCHANGED <<object, held, registered, tree>>
  BY <1>1, <1>6 DEF Step, bucket, registry
<1>9. CallOK(s)'
  BY <1>3, <1>4, <1>5, <1>7, <1>8, ZenonT(40)
  DEF SameId, Same, CallOK, Seen, OfTheKey, Decodes, IsLogged, Busy, Read, Decoded
<1> QED BY <1>1, <1>6, <1>7, <1>9, StepKeeps

LEMMA LookupLeafKeeps ==
  ASSUME ByoInv, NEW r \in Request, LookupLeaf(r)
  PROVE  ByoInv'
<1>1. req[r].pc = "index" /\ UNCHANGED <<registry, cache>>
  BY DEF LookupLeaf
<1>2. PICK p \in Call : p = req[r]
  BY CallFields
<1>3. CallOK(p) /\ p.pc = "index" /\ p.status = 0 /\ p.known \in BOOLEAN
  BY <1>1, <1>2, CallFields, StatusUnset DEF Busy
<1>4. PICK logged \in BOOLEAN : logged = (p.id \in tree)
  <2>1. (p.id \in tree) = TRUE \/ (p.id \in tree) = FALSE
    OBVIOUS
  <2> QED BY <2>1
<1>5. PICK x \in {"register", "remember", "append"} :
        x = (IF ~p.known THEN "register" ELSE IF logged THEN "remember" ELSE "append")
  OBVIOUS
<1> DEFINE q == WithPc(WithLogged(p, logged), x)
<1>6. q \in Call /\ q.pc = x /\ SameId(p, q) /\ q.logged = logged
  <2>1. /\ WithLogged(p, logged) \in Call /\ WithLogged(p, logged).logged = logged
        /\ SameId(p, WithLogged(p, logged))
    BY WithLoggedIsCall DEF SameId, Same
  <2>2. \A c \in Call : c.logged = logged /\ SameId(p, c) =>
          /\ WithPc(c, x) \in Call /\ WithPc(c, x).pc = x
          /\ SameId(p, WithPc(c, x)) /\ WithPc(c, x).logged = logged
    BY WithPcIsCall DEF Busy, SameId, Same
  <2> QED BY <2>1, <2>2
<1>7. Step(r, q)
  BY <1>2, <1>4, <1>5, Zenon DEF LookupLeaf, WithPc, WithLogged
<1> HIDE DEF q
<1>8. PICK s \in Call : s = q
  BY <1>6
<1>9. UNCHANGED <<object, held, registered, tree>>
  BY <1>1, <1>7 DEF Step, bucket, registry
<1>10. CallOK(s)'
  BY <1>3, <1>4, <1>5, <1>6, <1>8, <1>9, ZenonT(40)
  DEF SameId, Same, CallOK, Seen, OfTheKey, Decodes, IsLogged, Busy, Read, Decoded
<1> QED BY <1>1, <1>7, <1>8, <1>10, StepKeeps

\* A step that registers or logs, and leaves the cache alone.
LEMMA GrowthKeeps ==
  ASSUME ByoInv, NEW r \in Request, NEW q, q \in Call, CallOK(q)', Step(r, q), UNCHANGED cache,
         registered \subseteq registered', registered' \subseteq Image,
         tree \subseteq tree', tree' \subseteq Image, leaves' \subseteq tree'
  PROVE  ByoInv'
<1>1. /\ UNCHANGED <<persistent, window, object, held, puts, calls, restarts>>
      /\ req' = [req EXCEPT ![r] = q]
  BY DEF Step, bucket
<1>2. req' \in [Request -> Call] /\ CallsInv'
  BY <1>1, StepKeepsCalls
<1>3. CacheInv'
  BY <1>1, CacheStays
<1>4. ByoTypeOK' /\ HeldInv'
  BY <1>1, <1>2 DEF ByoInv, ByoTypeOK, HeldInv
<1> QED BY <1>2, <1>3, <1>4 DEF ByoInv

LEMMA RegisterKeeps ==
  ASSUME ByoInv, NEW r \in Request, Register(r)
  PROVE  ByoInv'
<1>1. /\ req[r].pc = "register"
      /\ registered' = registered \cup {req[r].id} /\ UNCHANGED <<tree, leaves, cache>>
  BY DEF Register
<1>2. PICK p \in Call : p = req[r]
  BY CallFields
<1>3. CallOK(p) /\ p.pc = "register" /\ p.status = 0
  BY <1>1, <1>2, CallFields, StatusUnset DEF Busy
<1>4. PICK x \in {"remember", "append"} : x = (IF p.logged THEN "remember" ELSE "append")
  OBVIOUS
<1> DEFINE q == WithPc(p, x)
<1>5. q \in Call /\ q.pc = x /\ SameId(p, q)
  BY WithPcIsCall DEF Busy, SameId, Same
<1>6. Step(r, q)
  BY <1>2, <1>4, Zenon DEF Register, WithPc
<1> HIDE DEF q
<1>7. PICK s \in Call : s = q
  BY <1>5
<1>8. UNCHANGED <<object, held>>
  BY <1>6 DEF Step, bucket
<1>9. p.id \in Image
  BY <1>3 DEF CallOK, Decodes, Decoded
<1>10. CallOK(s)'
  <2>1. p.id \in registered'
    BY <1>1, <1>2
  <2>2. tree' = tree
    BY <1>1
  <2> QED BY <1>3, <1>4, <1>5, <1>7, <1>8, <2>1, <2>2
          DEF SameId, Same, CallOK, Seen, OfTheKey, Decodes, IsLogged, Busy, Read, Decoded
<1> QED BY <1>1, <1>2, <1>6, <1>7, <1>9, <1>10, GrowthKeeps DEF ByoInv, ByoTypeOK

LEMMA AppendLeafKeeps ==
  ASSUME ByoInv, NEW r \in Request, AppendLeaf(r)
  PROVE  ByoInv'
<1>1. /\ req[r].pc = "append"
      /\ tree' = tree \cup {req[r].id} /\ UNCHANGED <<registered, cache>>
      /\ leaves' = leaves \cup {req[r].id} \/ leaves' = leaves
  BY DEF AppendLeaf
<1>2. PICK p \in Call : p = req[r]
  BY CallFields
<1>3. CallOK(p) /\ p.pc = "append" /\ p.status = 0
  BY <1>1, <1>2, CallFields, StatusUnset DEF Busy
<1>4. p.id \in Image
  BY <1>3 DEF CallOK, Decodes, Decoded
<1>5. ASSUME NEW s \in Call, Step(r, s), CallOK(s)'
      PROVE  ByoInv'
  <2>1. /\ registered' = registered /\ tree \subseteq tree' /\ tree' \subseteq Image
        /\ leaves' \subseteq tree' /\ registered \subseteq Image
    BY <1>1, <1>2, <1>4 DEF ByoInv, ByoTypeOK
  <2> QED BY <1>1, <1>5, <2>1, GrowthKeeps
<1> DEFINE q == WithPc(p, "remember")
<1>6. q \in Call /\ q.pc = "remember" /\ SameId(p, q)
  BY WithPcIsCall DEF Busy, SameId, Same
<1>7. Refuse(r, 500) \/ Step(r, q)
  BY <1>2, Zenon DEF AppendLeaf, WithPc
<1> HIDE DEF q
<1>8. CASE Refuse(r, 500)
  <2>1. PICK s \in Call : Step(r, s) /\ s.pc = "done" /\ s.status = 500
    BY <1>8, RefusedIsOK
  <2>2. CallOK(s)'
    BY <2>1 DEF CallOK, Seen, OfTheKey, Decodes, IsLogged, Busy, Read, Decoded
  <2> QED BY <1>5, <2>1, <2>2
<1>9. CASE Step(r, q)
  <2>1. PICK s \in Call : s = q
    BY <1>6
  <2>2. UNCHANGED <<object, held>>
    BY <1>9 DEF Step, bucket
  <2>3. p.id \in registered' /\ p.id \in tree'
    BY <1>1, <1>2, <1>3 DEF CallOK, IsLogged
  <2>4. CallOK(s)'
    BY <1>3, <1>6, <2>1, <2>2, <2>3
    DEF SameId, Same, CallOK, Seen, OfTheKey, Decodes, IsLogged, Busy, Read, Decoded
  <2> QED BY <1>5, <1>9, <2>1, <2>4
<1> QED BY <1>7, <1>8, <1>9

\* A full cache drops its oldest entry, and what is put is the new entry or was there.
LEMMA PutEntries ==
  ASSUME NEW c \in Seq(CacheEntry), NEW e \in CacheEntry
  PROVE  /\ Put(c, e) \in Seq(CacheEntry)
         /\ \A i \in DOMAIN Put(c, e) :
              Put(c, e)[i] = e \/ \E j \in DOMAIN c : Put(c, e)[i] = c[j]
<1>1. CASE \E i \in DOMAIN c : c[i].key = e.key
  <2> DEFINE d == [i \in DOMAIN c |-> IF c[i].key = e.key THEN e ELSE c[i]]
  <2>1. Put(c, e) = d
    BY <1>1, Zenon DEF Put
  <2>2. DOMAIN c = 1..Len(c) /\ Len(c) \in Nat /\ \A i \in DOMAIN c : c[i] \in CacheEntry
    OBVIOUS
  <2>3. d \in [1..Len(c) -> CacheEntry]
    BY <2>2
  <2>4. d \in Seq(CacheEntry)
    BY <2>2, <2>3, IsASeq
  <2>5. \A i \in DOMAIN d : d[i] = e \/ \E j \in DOMAIN c : d[i] = c[j]
    OBVIOUS
  <2> HIDE DEF d
  <2> QED BY <2>1, <2>4, <2>5
<1>2. CASE ~\E i \in DOMAIN c : c[i].key = e.key
  <2>1. Put(c, e) = Append(c, e)
    BY <1>2, Zenon DEF Put
  <2>2. /\ Append(c, e) \in Seq(CacheEntry)
        /\ \A i \in DOMAIN Append(c, e) :
             Append(c, e)[i] = e \/ \E j \in DOMAIN c : Append(c, e)[i] = c[j]
    OBVIOUS
  <2> QED BY <2>1, <2>2
<1> QED BY <1>1, <1>2

LEMMA TailEntries ==
  ASSUME NEW c \in Seq(CacheEntry), c # << >>
  PROVE  /\ Tail(c) \in Seq(CacheEntry)
         /\ \A i \in DOMAIN Tail(c) : \E j \in DOMAIN c : Tail(c)[i] = c[j]
<1>1. Tail(c) \in Seq(CacheEntry) /\ Len(Tail(c)) = Len(c) - 1 /\ Len(c) \in Nat
  OBVIOUS
<1>2. \A i \in 1..Len(Tail(c)) : i + 1 \in 1..Len(c) /\ Tail(c)[i] = c[i + 1]
  OBVIOUS
<1> QED BY <1>1, <1>2

LEMMA RememberKeeps ==
  ASSUME ByoInv, ByoAssumption, NEW r \in Request, Remember(r)
  PROVE  ByoInv'
<1>1. req[r].pc = "remember" /\ Ok(r) /\ UNCHANGED registry
  BY DEF Remember
<1>2. UNCHANGED <<registered, tree, leaves>>
  BY <1>1 DEF registry
<1>3. PICK p \in Call : p = req[r]
  BY CallFields
<1>4. /\ CallOK(p) /\ p.pc = "remember" /\ p.status = 0 /\ p.key \in Key
  BY <1>1, <1>3, CallFields, StatusUnset DEF Busy
<1>5. PICK q \in Call : /\ Step(r, q) /\ q.pc = "done" /\ q.status = 200
                        /\ q.key = p.key /\ q.during = p.during /\ q.id = p.id
  BY <1>1, <1>3, OkEffect
<1>6. /\ UNCHANGED <<persistent, window, object, held, puts, calls, restarts>>
      /\ req' = [req EXCEPT ![r] = q]
  BY <1>5 DEF Step, bucket
<1>7. p.id \in registered /\ p.id \in tree /\ p.id \in Image /\ p.id \in held[p.key]
  BY <1>4 DEF CallOK, IsLogged, Decodes, OfTheKey, Decoded, Read
<1>8. req' \in [Request -> Call] /\ CallsInv'
  <2>1. CallOK(q)'
    BY <1>2, <1>4, <1>5, <1>6, <1>7, OkIsOK
  <2> QED BY <1>2, <1>5, <1>6, <2>1, StepKeepsCalls
<1>9. PICK e \in CacheEntry : e = Entry(r) /\ e.key = p.key /\ e.id = p.id /\ e.size = SizeOf[p.id]
  <2>1. SizeOf[p.id] \in Nat /\ p.id \in Content
    BY <1>7 DEF ByoAssumption
  <2> DEFINE e == [key |-> p.key, id |-> p.id, size |-> SizeOf[p.id]]
  <2>2. e \in CacheEntry /\ e.key = p.key /\ e.id = p.id /\ e.size = SizeOf[p.id]
    BY <1>4, <2>1 DEF CacheEntry
  <2>3. e = Entry(r)
    BY <1>3 DEF Entry
  <2> HIDE DEF e
  <2> QED BY <2>2, <2>3
<1>10. PICK c \in Seq(CacheEntry) :
         /\ cache' = Put(c, e)
         /\ \A i \in DOMAIN c : \E j \in DOMAIN cache : c[i] = cache[j]
  <2>1. cache \in Seq(CacheEntry)
    BY DEF ByoInv, ByoTypeOK
  <2>2. CASE Len(cache) >= RegisteredKeysMax
    <3>1. cache # << >>
      BY <2>1, <2>2 DEF ByoAssumption
    <3> QED BY <1>9, <2>1, <2>2, <3>1, TailEntries DEF Remember
  <2>3. CASE ~(Len(cache) >= RegisteredKeysMax)
    BY <1>9, <2>1, <2>3 DEF Remember
  <2> QED BY <2>2, <2>3
<1>11. /\ cache' \in Seq(CacheEntry)
       /\ \A i \in DOMAIN cache' : cache'[i] = e \/ cache'[i] \in Entries
  BY <1>10, PutEntries DEF Entries
<1>12. CacheInv'
  <2>1. ASSUME NEW i \in DOMAIN cache'
        PROVE  /\ cache'[i].id \in registered' \cap tree' \cap Image
               /\ cache'[i].id \in held'[cache'[i].key]
               /\ cache'[i].size = SizeOf[cache'[i].id]
    BY <1>2, <1>6, <1>7, <1>9, <1>11, <2>1, EntriesAreRight DEF EntryOK
  <2> QED BY <2>1 DEF CacheInv, Entries, EntryOK
<1>13. ByoTypeOK' /\ HeldInv'
  BY <1>2, <1>6, <1>8, <1>11 DEF ByoInv, ByoTypeOK, HeldInv
<1> QED BY <1>8, <1>12, <1>13 DEF ByoInv

\* Nothing a call or the cache knew is left when the index and the log may shrink.
LEMMA RestartKeeps ==
  ASSUME ByoInv, Restart
  PROVE  ByoInv'
<1>1. /\ UNCHANGED <<persistent, window, object, held, puts, calls>>
      /\ cache' = << >> /\ req' = [r \in Request |-> Idle] /\ restarts' = restarts + 1
      /\ registered' = registered \/ registered' = {}
      /\ leaves' \subseteq tree' /\ (tree' = leaves \/ tree' = {})
  BY DEF Restart, bucket
<1>2. req' \in [Request -> Call]
  BY <1>1, IdleIsOK
<1>3. CallsInv'
  BY <1>1 DEF CallsInv, Idle, CallOK, Seen, OfTheKey, Decodes, IsLogged, Busy, Read, Decoded
<1>4. cache' \in Seq(CacheEntry) /\ CacheInv'
  BY <1>1 DEF CacheInv, Entries
<1>5. registered' \subseteq Image /\ tree' \subseteq Image
  BY <1>1 DEF ByoInv, ByoTypeOK
<1>6. ByoTypeOK' /\ HeldInv'
  BY <1>1, <1>2, <1>4, <1>5 DEF ByoInv, ByoTypeOK, HeldInv
<1> QED BY <1>3, <1>4, <1>6 DEF ByoInv
-----------------------------------------------------------------------------
\* The invariant.

\* A service that has just started, over an empty bucket, satisfies it.
LEMMA ByoInitEstablishes == Init => ByoInv
<1> SUFFICES ASSUME Init PROVE ByoInv
  OBVIOUS
<1>1. ByoTypeOK
  BY IdleIsOK DEF Init, ByoTypeOK
<1>2. HeldInv /\ CacheInv
  BY DEF Init, HeldInv, CacheInv, Entries
<1>3. CallsInv
  BY IdleIsOK DEF Init, CallsInv
<1> QED BY <1>1, <1>2, <1>3 DEF ByoInv

\* Every action keeps it.
LEMMA ByoNextPreserves == ByoAssumption /\ ByoInv /\ [Next]_vars => ByoInv'
<1> SUFFICES ASSUME ByoAssumption, ByoInv, [Next]_vars PROVE ByoInv'
  OBVIOUS
<1>1. ASSUME NEW k \in Key, NEW declared \in 1..Cap, PresignPut(k, declared) PROVE ByoInv'
  BY <1>1, PresignPutKeeps
<1>2. ASSUME NEW k \in Key, NEW c \in Content, BrowserPut(k, c) PROVE ByoInv'
  BY <1>2, BrowserPutKeeps
<1>3. ASSUME NEW k \in Key, Expire(k) \/ LifecycleDelete(k) PROVE ByoInv'
  BY <1>3, ExpireKeeps, LifecycleDeleteKeeps
<1>4. ASSUME NEW r \in Request, NEW k \in Key, BeginRegister(r, k) PROVE ByoInv'
  BY <1>4, BeginRegisterKeeps
<1>5. ASSUME NEW r \in Request,
             \/ CheckSize(r) \/ AnswerCached(r) \/ Get(r) \/ Decode(r) \/ Lookup(r)
             \/ LookupLeaf(r) \/ Register(r) \/ AppendLeaf(r) \/ Raises(r) \/ Remember(r)
      PROVE  ByoInv'
  <2>1. ASSUME Raises(r) PROVE ByoInv'
    BY <2>1, RefuseKeeps DEF Raises
  <2> QED
    BY <1>5, <2>1, CheckSizeKeeps, AnswerCachedKeeps, GetKeeps, DecodeKeeps, LookupKeeps,
       LookupLeafKeeps, RegisterKeeps, AppendLeafKeeps, RememberKeeps
<1>6. CASE Restart
  BY <1>6, RestartKeeps
<1>7. CASE UNCHANGED vars
  <2>1. UNCHANGED <<persistent, window, object, held, puts, registered, tree, leaves, cache, req,
                    calls, restarts>>
    BY <1>7 DEF vars, bucket, registry
  <2> QED BY <2>1 DEF ByoInv, ByoTypeOK, HeldInv, CacheInv, Entries, EntryOK, CallsInv, CallOK,
                      Seen, OfTheKey, Decodes, IsLogged
<1> QED BY <1>1, <1>2, <1>3, <1>4, <1>5, <1>6, <1>7 DEF Next

\* Whatever the browser, the bucket, the calls and the restarts do, the invariant holds.
THEOREM ByoInvariant == Spec => []ByoInv
<1>1. Init => ByoInv
  BY ByoInitEstablishes
<1>2. ByoInv /\ [Next]_vars => ByoInv'
  BY ByoAssumption, ByoNextPreserves
<1> QED BY <1>1, <1>2, PTL DEF Spec

\* An answer 200 names an image its key has held, and an image of that size was under the
\* key while the call ran, whether it came from the cache or from the bytes.
THEOREM AnswersAreOfTheKey == Spec => []AnswerIsOfTheKey
<1>1. ByoInv => AnswerIsOfTheKey
  BY DEF ByoInv, CallsInv, CallOK, OfTheKey, Decodes, AnswerIsOfTheKey
<1> QED BY <1>1, ByoInvariant, PTL

\* What the cache holds, and what was answered 200, is registered and has its leaf: no
\* retry after a failed append is answered from the cache or from the index alone.
THEOREM AnswersAreLogged == Spec => []OkIsLogged
<1>1. ByoInv => OkIsLogged
  BY DEF ByoInv, CacheInv, EntryOK, CallsInv, CallOK, IsLogged, OkIsLogged
<1> QED BY <1>1, ByoInvariant, PTL
=============================================================================
