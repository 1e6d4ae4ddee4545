------------------------------ MODULE ByoUpload ------------------------------
(***************************************************************************)
(* Bring your own asset (byo.py): the server presigns a PUT for a key of   *)
(* its own making, the browser PUTs to B2 without the server seeing it, as *)
(* often as it likes until the URL expires, and then asks the server to    *)
(* register what the key holds.                                            *)
(*                                                                         *)
(* Every "await" of byo_register and of ingest_stored_object is a point    *)
(* where another register call, a PUT or the bucket's lifecycle rule may   *)
(* come in between.  A register call that finds the key in the cache with  *)
(* the stored size unchanged is answered from the cache.                   *)
(*                                                                         *)
(* Abstractions.  Contents differ in size and in whether they decode; a    *)
(* manifest id is the content it is derived from.  Two appends of one      *)
(* content are one leaf here (Ingest tells them apart).  The register core *)
(* is that of the event webhook.                                           *)
(***************************************************************************)
EXTENDS Naturals, Sequences, FiniteSets

CONSTANTS
  Key,
  Content,
  Image,            \* the contents that decode
  SizeOf,           \* the size of each content
  Cap,              \* _MAX_UPLOAD_BYTES
  RegisteredKeysMax,\* _REGISTERED_KEYS_MAX
  Request,
  Nothing,
  MaxPuts,          \* bound: PUTs of the browser
  MaxCalls,         \* bound: register calls
  MaxRestarts       \* bound: restarts of the process

ASSUME ByoAssumption ==
  /\ Image \subseteq Content
  /\ SizeOf \in [Content -> Nat \ {0}]
  /\ Nothing \notin Content \cup Key
  /\ RegisteredKeysMax \in Nat \ {0}
  /\ {Cap, MaxPuts, MaxCalls, MaxRestarts} \subseteq Nat

VARIABLES
  persistent,       \* whether DATABASE_URL is set
  window,           \* the presigned URL of a key: "none", "open", "expired"
  object,           \* what the bucket holds under a key
  registered,       \* the manifests of the index
  tree,             \* the leaves of the log in memory
  leaves,           \* ... and in its table
  cache,            \* _REGISTERED_KEYS, oldest first
  req,
  held,             \* history: what a key has held
  puts, calls, restarts

bucket == <<window, object, held, puts>>
registry == <<registered, tree, leaves>>
vars == <<persistent, bucket, registry, cache, req, calls, restarts>>

-----------------------------------------------------------------------------
Idle == [pc |-> "idle", key |-> Nothing, size |-> 0, id |-> Nothing, known |-> FALSE,
         logged |-> FALSE, during |-> {}, status |-> 0]

\* A key that holds nothing has size 0.
Size(k) == IF object[k] = Nothing THEN 0 ELSE SizeOf[object[k]]

Entries == {cache[i] : i \in DOMAIN cache}

Init ==
  /\ persistent \in BOOLEAN
  /\ window = [k \in Key |-> "none"]
  /\ object = [k \in Key |-> Nothing]
  /\ registered = {} /\ tree = {} /\ leaves = {}
  /\ cache = << >>
  /\ req = [r \in Request |-> Idle]
  /\ held = [k \in Key |-> {}]
  /\ puts = 0 /\ calls = 0 /\ restarts = 0

\* What a call in progress, or one that just ended, may have seen its key hold.
Watch(k, c) ==
  req' = [r \in Request |-> IF req[r].key = k /\ req[r].pc # "done"
                            THEN [req[r] EXCEPT !.during = @ \cup {c}] ELSE req[r]]

-----------------------------------------------------------------------------
\* The browser and the bucket.

\* byo_upload_url: an allowed type, a declared size within the cap; else it is refused.
PresignPut(k, declared) ==
  /\ window[k] = "none"
  /\ declared \in 1..Cap
  /\ window' = [window EXCEPT ![k] = "open"]
  /\ UNCHANGED <<persistent, object, held, puts, registry, cache, req, calls, restarts>>

\* The browser may PUT anything, whatever size it declared, and again.
BrowserPut(k, c) ==
  /\ window[k] = "open"
  /\ puts < MaxPuts
  /\ puts' = puts + 1
  /\ object' = [object EXCEPT ![k] = c]
  /\ held' = [held EXCEPT ![k] = @ \cup {c}]
  /\ Watch(k, c)
  /\ UNCHANGED <<persistent, window, registry, cache, calls, restarts>>

Expire(k) ==
  /\ window[k] = "open"
  /\ window' = [window EXCEPT ![k] = "expired"]
  /\ UNCHANGED <<persistent, object, held, puts, registry, cache, req, calls, restarts>>

\* The lifecycle rule of the byo/ prefix.
LifecycleDelete(k) ==
  /\ object[k] # Nothing
  /\ object' = [object EXCEPT ![k] = Nothing]
  /\ Watch(k, Nothing)
  /\ UNCHANGED <<persistent, window, held, puts, registry, cache, calls, restarts>>

-----------------------------------------------------------------------------
\* POST /demo/byo/register.

Step(r, q) == req' = [req EXCEPT ![r] = q] /\ UNCHANGED <<persistent, bucket, calls, restarts>>

\* Of a refused call only the status is kept.
Refuse(r, status) == Step(r, [Idle EXCEPT !.pc = "done", !.status = status])

Ok(r) ==
  Step(r, [req[r] EXCEPT !.pc = "done", !.status = 200, !.size = 0, !.known = FALSE,
                         !.logged = FALSE])

BeginRegister(r, k) ==
  /\ req[r].pc \in {"idle", "done"}
  /\ calls < MaxCalls
  /\ calls' = calls + 1
  /\ req' = [req EXCEPT ![r] = [Idle EXCEPT !.pc = "size", !.key = k, !.during = {object[k]}]]
  /\ UNCHANGED <<persistent, bucket, registry, cache, restarts>>

\* Faulty: the stored size is not compared with the cached one.
CheckSizeTrusting(r) ==
  /\ req[r].pc = "size"
  /\ LET size == Size(req[r].key)
         cached == {e \in Entries : e.key = req[r].key}
     IN \/ size = 0 /\ Refuse(r, 404)
        \/ size > Cap /\ Refuse(r, 413)
        \/ /\ size \in 1..Cap /\ cached = {}
           /\ Step(r, [req[r] EXCEPT !.pc = "get", !.size = size])
        \/ /\ size \in 1..Cap
           /\ \E e \in cached : Step(r, [req[r] EXCEPT !.pc = "cached", !.size = size, !.id = e.id])
  /\ UNCHANGED <<registry, cache>>

\* The stored size: 404 or 413, or on to the cache if the size is unchanged, or else
\* to the full path.
CheckSize(r) ==
  /\ req[r].pc = "size"
  /\ LET size == Size(req[r].key)
         cached == {e \in Entries : e.key = req[r].key /\ e.size = size}
     IN \/ size = 0 /\ Refuse(r, 404)
        \/ size > Cap /\ Refuse(r, 413)
        \/ /\ size \in 1..Cap /\ cached = {}
           /\ Step(r, [req[r] EXCEPT !.pc = "get", !.size = size])
        \/ /\ size \in 1..Cap
           /\ \E e \in cached : Step(r, [req[r] EXCEPT !.pc = "cached", !.size = size, !.id = e.id])
  /\ UNCHANGED <<registry, cache>>

\* The cached manifest must still be registered; else the full path.
AnswerCached(r) ==
  /\ req[r].pc = "cached"
  /\ IF req[r].id \in registered THEN Ok(r)
     ELSE Step(r, [req[r] EXCEPT !.pc = "get", !.id = Nothing])
  /\ UNCHANGED <<registry, cache>>

\* The bytes: gone since (404), an outage (502), larger than the size said (413), or read.
Get(r) ==
  /\ req[r].pc = "get"
  /\ LET c == object[req[r].key]
     IN \/ c = Nothing /\ Refuse(r, 404)
        \/ Refuse(r, 502)
        \/ c # Nothing /\ Size(req[r].key) > Cap /\ Refuse(r, 413)
        \/ /\ c # Nothing /\ Size(req[r].key) <= Cap
           /\ Step(r, [req[r] EXCEPT !.pc = "decode", !.id = c])
  /\ UNCHANGED <<registry, cache>>

Decode(r) ==
  /\ req[r].pc = "decode"
  /\ IF req[r].id \in Image THEN Step(r, [req[r] EXCEPT !.pc = "lookup"]) ELSE Refuse(r, 415)
  /\ UNCHANGED <<registry, cache>>

\* ingest_stored_object: is it registered, ...
Lookup(r) ==
  /\ req[r].pc = "lookup"
  /\ Step(r, [req[r] EXCEPT !.pc = "index", !.known = req[r].id \in registered])
  /\ UNCHANGED <<registry, cache>>

\* Faulty: a manifest that is registered is taken to be logged.
LookupLeafOrNot(r) ==
  /\ req[r].pc = "index"
  /\ Step(r, [req[r] EXCEPT !.pc = IF req[r].known THEN "remember" ELSE "register"])
  /\ UNCHANGED <<registry, cache>>

\* ... is it logged; what is both is done with, and what is registered is not again.
LookupLeaf(r) ==
  /\ req[r].pc = "index"
  /\ LET logged == req[r].id \in tree
     IN Step(r, [req[r] EXCEPT !.logged = logged,
                               !.pc = IF ~req[r].known THEN "register"
                                      ELSE IF logged THEN "remember" ELSE "append"])
  /\ UNCHANGED <<registry, cache>>

Register(r) ==
  /\ req[r].pc = "register"
  /\ registered' = registered \cup {req[r].id}
  /\ Step(r, [req[r] EXCEPT !.pc = IF req[r].logged THEN "remember" ELSE "append"])
  /\ UNCHANGED <<tree, leaves, cache>>

\* The append, or its INSERT raises and the answer is 500; the tree has the leaf.
AppendLeaf(r) ==
  /\ req[r].pc = "append"
  /\ tree' = tree \cup {req[r].id}
  /\ \/ leaves' = leaves \cup {req[r].id} /\ Step(r, [req[r] EXCEPT !.pc = "remember"])
     \/ persistent /\ leaves' = leaves /\ Refuse(r, 500)
  /\ UNCHANGED <<registered, cache>>

\* What no handler catches is a 500: storage.size fails, or the database does.
Raises(r) ==
  /\ \/ req[r].pc = "size"
     \/ persistent /\ req[r].pc \in {"cached", "lookup", "register"}
  /\ Refuse(r, 500)
  /\ UNCHANGED <<registry, cache>>

Entry(r) == [key |-> req[r].key, id |-> req[r].id, size |-> SizeOf[req[r].id]]

\* A dict keeps the place of a key that is set again.
Put(c, e) ==
  IF \E i \in DOMAIN c : c[i].key = e.key
  THEN [i \in DOMAIN c |-> IF c[i].key = e.key THEN e ELSE c[i]]
  ELSE Append(c, e)

\* A full cache drops its oldest entry first, be it this key's own.
Remember(r) ==
  /\ req[r].pc = "remember"
  /\ cache' = Put(IF Len(cache) >= RegisteredKeysMax THEN Tail(cache) ELSE cache, Entry(r))
  /\ Ok(r)
  /\ UNCHANGED registry

-----------------------------------------------------------------------------
\* The process restarts: the calls and the cache are gone, and without a database
\* the index and the log as well.
Restart ==
  /\ restarts < MaxRestarts
  /\ restarts' = restarts + 1
  /\ cache' = << >>
  /\ req' = [r \in Request |-> Idle]
  /\ IF persistent
       THEN tree' = leaves /\ UNCHANGED <<registered, leaves>>
       ELSE registered' = {} /\ tree' = {} /\ leaves' = {}
  /\ UNCHANGED <<persistent, bucket, calls>>

Next ==
  \/ \E k \in Key, declared \in 1..Cap : PresignPut(k, declared)
  \/ \E k \in Key, c \in Content : BrowserPut(k, c)
  \/ \E k \in Key : Expire(k) \/ LifecycleDelete(k)
  \/ \E r \in Request, k \in Key : BeginRegister(r, k)
  \/ \E r \in Request :
       \/ CheckSize(r) \/ AnswerCached(r) \/ Get(r) \/ Decode(r) \/ Lookup(r)
       \/ LookupLeaf(r) \/ Register(r) \/ AppendLeaf(r) \/ Raises(r) \/ Remember(r)
  \/ Restart

Spec == Init /\ [][Next]_vars

-----------------------------------------------------------------------------
Sizes(cs) == {SizeOf[c] : c \in cs \ {Nothing}}

\* A call answered 200 names an image its key has held, and an image of that size was
\* under the key while the call ran: a re-PUT of another size, at any moment, is never
\* answered with the old manifest.  (byo_register's size check and cache.)
AnswerIsOfTheKey ==
  \A r \in Request : req[r].status = 200 =>
    /\ req[r].id \in held[req[r].key] \cap Image
    /\ SizeOf[req[r].id] <= Cap
    /\ SizeOf[req[r].id] \in Sizes(req[r].during)

\* What is cached or has been answered 200 by this process is registered and has its
\* leaf: a retry after a failed append, of which the manifest is registered already,
\* is not answered from the cache or the index alone.  (ingest_stored_object.)
OkIsLogged ==
  /\ \A e \in Entries : e.id \in registered \cap tree
  /\ \A r \in Request : req[r].status = 200 => req[r].id \in registered \cap tree

\* "a size mismatch (the key was re-PUT with different bytes inside the presign window)
\* falls through to the full path so the answer never goes stale."  (byo.py.)
AnswerNeverStale ==
  \A r \in Request : req[r].status = 200 => req[r].id \in req[r].during
=============================================================================
