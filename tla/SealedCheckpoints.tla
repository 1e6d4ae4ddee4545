-------------------------- MODULE SealedCheckpoints --------------------------
(***************************************************************************)
(* The signed heads sealed under B2 Object Lock (rooted_api/checkpoint.py), *)
(* on top of the log and the head cache of TransparencyLog.                *)
(*                                                                         *)
(* GET /transparency/checkpoint/object and the startup seal take the       *)
(* current signed head and, if no object has its epoch's key yet, write it *)
(* there under compliance retention: the object can never be replaced, and *)
(* it outlives every crash.  GET /demo/consistency proves the log extends  *)
(* its previous size and compares that with the object sealed for it.      *)
(*                                                                         *)
(* Abstractions.  Sealing runs synchronously on the event loop right after *)
(* _signed_head returned, so it takes the head that is in the cache and no *)
(* other seal interleaves with its exists-then-put.  A retention lasts as  *)
(* long as the behaviour.  Without a locked bucket, or when B2 fails, the  *)
(* routes answer from a throw-away in-memory store: no step of this module. *)
(***************************************************************************)
EXTENDS TransparencyLog

VARIABLES
  sealed,           \* the locked bucket: epoch -> the head under its key
  audit             \* one /demo/consistency call in progress

sealVars == <<vars, sealed, audit>>

NoAudit == [pc |-> "idle", prior |-> 0, root |-> << >>]

SealInit ==
  /\ Init
  /\ sealed = [epoch \in 0..MaxLeaves |-> NoHead]
  /\ audit = NoAudit

-----------------------------------------------------------------------------
\* Faulty variants.  No action uses them.

\* The key of the tree size instead of the epoch, and no existence check.
SealHeadOver ==
  /\ up
  /\ loop.pc = "idle"
  /\ cache # NoHead
  /\ sealed' = [sealed EXCEPT ![Len(tree)] = cache]
  /\ UNCHANGED <<vars, audit>>

\* The current root compared instead of the prior one.
AuditProveCurrent ==
  /\ audit.pc = "sized"
  /\ owner = NoWorker
  /\ audit' = [audit EXCEPT !.pc = "proved", !.root = tree]
  /\ UNCHANGED <<vars, sealed>>
-----------------------------------------------------------------------------
\* seal_checkpoint: an epoch's existing object stays authoritative.
SealHead ==
  /\ up
  /\ loop.pc = "idle"
  /\ cache # NoHead
  /\ sealed' = [sealed EXCEPT ![cache.epoch] = IF @ = NoHead THEN cache ELSE @]
  /\ UNCHANGED <<vars, audit>>

\* demo_consistency: the log's size, read without its lock; with fewer than two
\* leaves there is nothing to compare.
AuditSize ==
  /\ up
  /\ audit.pc = "idle"
  /\ Len(tree) >= 2
  /\ audit' = [NoAudit EXCEPT !.pc = "sized", !.prior = Len(tree) - 1]
  /\ UNCHANGED <<vars, sealed>>

\* demo_consistency: signed_consistency of the size before, under the lock.
AuditProve ==
  /\ audit.pc = "sized"
  /\ owner = NoWorker
  /\ audit' = [audit EXCEPT !.pc = "proved", !.root = SubSeq(tree, 1, audit.prior)]
  /\ UNCHANGED <<vars, sealed>>

\* demo_consistency: look the prior size up in the locked bucket and answer.
AuditCompare ==
  /\ audit.pc = "proved"
  /\ audit' = NoAudit
  /\ UNCHANGED <<vars, sealed>>

\* What the answer says: the object sealed for the prior size has its root.
SealedRootMatches ==
  sealed[audit.prior] # NoHead /\ sealed[audit.prior].root = audit.root

\* The log goes on; a crash takes the call in progress with it.
LogStep ==
  /\ Next
  /\ audit' = IF up' THEN audit ELSE NoAudit
  /\ UNCHANGED sealed

SealNext ==
  \/ SealHead
  \/ AuditSize
  \/ AuditProve
  \/ AuditCompare
  \/ LogStep

SealSpec == SealInit /\ [][SealNext]_sealVars
-----------------------------------------------------------------------------
SealTypeOK ==
  /\ sealed \in [0..MaxLeaves -> SignedHead \cup {NoHead}]
  /\ audit \in [pc : {"idle", "sized", "proved"}, prior : 0..MaxLeaves, root : Seq(Leaf)]

Sealed == {e \in 0..MaxLeaves : sealed[e] # NoHead}

\* No start of the process has lost a leaf.
Lossless == lossy = {}

\* The sealed objects are a chain: in the order of their epochs they commit to
\* ever longer prefixes of one log, each to at least as many leaves as its epoch
\* says, whatever crashed between two of them - and the live log extends them all.
\* An append that slips into _signed_head puts a longer head under a key than the
\* key says, and even that does not break the chain.
SealedChain ==
  Lossless =>
    \A e, f \in Sealed :
      /\ e <= f => IsPrefix(sealed[e].root, sealed[f].root)
      /\ e <= sealed[e].size
      /\ up => IsPrefix(sealed[e].root, tree)

\* What the object route reads back is never ahead of the head it has just been
\* asked for: the object under that head's key, if it is older, commits to a prefix.
ReadBackNotAhead ==
  up /\ Lossless /\ cache # NoHead /\ cache.epoch \in Sealed =>
    IsPrefix(sealed[cache.epoch].root, cache.root)

\* The audit does not cry wolf: an object that is for the prior size has the root
\* the consistency proof starts from, across restarts and while the log grows.
AuditAgrees ==
  [][AuditCompare /\ Lossless /\ audit.prior \in Sealed
       /\ sealed[audit.prior].size = audit.prior => SealedRootMatches]_sealVars
=============================================================================
