------------------------------ MODULE Receipts ------------------------------
(***************************************************************************)
(* What a client can check: receipts of a manifest, their verification by  *)
(* the server, the redacted disclosure, signatures, the tamper diff and    *)
(* the integrity clash (sbr.py, models.py, signing.py, tamper.py,          *)
(* integrity.py, claim.py).                                                *)
(*                                                                         *)
(* A receipt is portable: it is issued from one state of the log and may   *)
(* be submitted, as it was or put together from several, when the log has  *)
(* grown or the process has restarted.  Issuing and verifying share the    *)
(* three reads of _inclusion_proof, between which the log may grow.        *)
(*                                                                         *)
(* Abstractions.  A canonical hash is the canonical payload, a root is the *)
(* sequence of leaves under it, an audit path says which leaf of which     *)
(* tree it is for, a signature is the payload and the key: hashes do not   *)
(* collide and signatures are not forged.  Registering a manifest twice    *)
(* and overwriting it are Ingest's.                                        *)
(***************************************************************************)
EXTENDS Naturals, Sequences

CONSTANTS
  ManifestId,
  Primary,          \* DEMO_MANIFEST_ID
  Asset,
  Generator,        \* the models that name a generator
  NoModel,          \* a model that names none: missing, "unknown", ...
  Provider,
  NoProvider,       \* no provider, or a placeholder
  Nothing,
  Offered,          \* bound: the manifests that are registered, as bodies
  Staged,           \* bound: the embedded claims a deployment may stage
  MaxReceipts,      \* bound: receipts a client keeps
  MaxRestarts       \* bound: restarts of the process

ASSUME ReceiptsAssumption ==
  /\ Primary \in ManifestId
  /\ {} \notin {Asset, Generator, Provider}
  /\ Nothing \notin ManifestId \cup Asset
  /\ NoModel \notin Generator /\ NoProvider \notin Provider
  /\ {MaxReceipts, MaxRestarts} \subseteq Nat

VARIABLES
  conf,             \* [persistent, keySource], fixed
  registry,         \* the registered manifests
  leaves,           \* the log
  key,              \* the signing key: 0 if configured, or the life that made it
  life,             \* how often the process has restarted
  receipts,         \* receipts the client holds
  call              \* a call in progress, or the last one with its result

vars == <<conf, registry, leaves, key, life, receipts, call>>

-----------------------------------------------------------------------------
Prompt == {"none", "personal", "system"}

Body == [id : ManifestId, asset : Asset, model : Generator \cup {NoModel},
         provider : Provider \cup {NoProvider}, prompt : Prompt]

\* EmbeddedManifestSummary: what a claim in a file says; it need not be true.
Claim == [ai : BOOLEAN, model : Generator \cup {NoModel}, provider : Provider \cup {NoProvider},
          asset : Asset \cup {Nothing}]

ASSUME BoundsAssumption == Offered \subseteq Body /\ Staged \subseteq Claim

Payload(b, prompt) ==
  [id |-> b.id, asset |-> b.asset, model |-> b.model, provider |-> b.provider, prompt |-> prompt]

\* Faulty: the whole manifest is hashed and signed.
CanonicalAll(b) == Payload(b, b.prompt # "none")

\* canonical_payload: a prompt is in it only on a legacy manifest, in its system part.
Canonical(b) == Payload(b, b.prompt = "system")

\* Manifest.redacted: no prompt, wherever it was.
Redacted(b) == [b EXCEPT !.prompt = "none"]

\* sign_manifest and verify_manifest.
Sign(b, k) == [payload |-> Canonical(b), key |-> k]

SignatureValid(b, sig) == sig.payload = Canonical(b) /\ sig.key = key

PositionsOf(m) == {i \in DOMAIN leaves : leaves[i].id = m}

IsLogged(m) == PositionsOf(m) # {}

IndexFor(m) == CHOOSE i \in PositionsOf(m) : \A j \in PositionsOf(m) : j <= i

\* The manifest primary_manifest() builds, and what it was before prompts were personal.
PrimaryBody ==
  [id |-> Primary, asset |-> CHOOSE a \in Asset : TRUE, model |-> CHOOSE g \in Generator : TRUE,
   provider |-> CHOOSE p \in Provider : TRUE, prompt |-> "personal"]

LegacyPrimary == [PrimaryBody EXCEPT !.prompt = "system"]

Idle == [pc |-> "idle", what |-> "none", id |-> Nothing, sub |-> Nothing, index |-> 0,
         body |-> Nothing, size |-> 0, signed |-> FALSE, source |-> "none", verdict |-> FALSE]

Init ==
  /\ conf \in [persistent : BOOLEAN, keySource : {"configured", "ephemeral"}]
  /\ registry = [m \in ManifestId |-> Nothing]
  /\ leaves = << >>
  /\ key = 0 /\ life = 0
  /\ receipts = {}
  /\ call = Idle

-----------------------------------------------------------------------------
\* The registry and the log grow; the process restarts.

Register(b) ==
  /\ registry[b.id] = Nothing
  /\ b.id = Primary => b \in {PrimaryBody, LegacyPrimary}
  /\ registry' = [registry EXCEPT ![b.id] = b]
  /\ UNCHANGED <<conf, leaves, key, life, receipts, call>>

AppendLeaf(m) ==
  /\ registry[m] # Nothing /\ ~IsLogged(m)
  /\ leaves' = Append(leaves, [id |-> m, hash |-> Canonical(registry[m])])
  /\ UNCHANGED <<conf, registry, key, life, receipts, call>>

Restart ==
  /\ life < MaxRestarts
  /\ life' = life + 1
  /\ key' = IF conf.keySource = "ephemeral" THEN life' ELSE key
  /\ IF conf.persistent THEN UNCHANGED <<registry, leaves>>
     ELSE registry' = [m \in ManifestId |-> Nothing] /\ leaves' = << >>
  /\ call' = Idle
  /\ UNCHANGED <<conf, receipts>>

-----------------------------------------------------------------------------
\* Receipts.

Checkpoint(tree, k) == [root |-> tree, key |-> k]

Path(i, tree) == [leaf |-> i, tree |-> tree]

\* _inclusion_proof and _receipt_parts, given the index and the manifest read before:
\* proof, root and checkpoint are of one state.  The index in a receipt starts at 0.
ReceiptOf(m, i, b) ==
  [id |-> m, leafHash |-> Canonical(b), leafIndex |-> i - 1, size |-> Len(leaves),
   root |-> leaves, path |-> Path(i, leaves), checkpoint |-> Checkpoint(leaves, key), life |-> life]

CallStep(c) == call' = c /\ UNCHANGED <<conf, registry, leaves, key, life, receipts>>

\* GET /manifests/{id}/receipts.
BeginIssue(m) ==
  /\ call = Idle
  /\ CallStep([Idle EXCEPT !.pc = "index", !.what = "issue", !.id = m])

\* GET /demo/receipt: of the primary, or the first leaf, or a labelled empty state.
BeginDemoReceipt ==
  /\ call = Idle
  /\ LET m == IF IsLogged(Primary) THEN Primary
              ELSE IF leaves # << >> THEN leaves[1].id ELSE Nothing
     IN CallStep([Idle EXCEPT !.pc = IF m = Nothing THEN "done" ELSE "index",
                              !.what = "issue", !.id = m])

\* A receipt put together from ones the client holds: the fields of one, the audit path
\* and the checkpoint of others.
Combined(x, y, z) == [x EXCEPT !.path = y.path, !.checkpoint = z.checkpoint]

Assembled == {Combined(x, y, z) : x \in receipts, y \in receipts, z \in receipts}

\* POST /manifests/{id}/receipts: another manifest's, or not a receipt by its type, is
\* not verified.
BeginVerify(m, sub, typed) ==
  /\ call = Idle
  /\ CallStep([Idle EXCEPT !.pc = IF sub.id = m /\ typed THEN "index" ELSE "done",
                           !.what = "verify", !.id = m, !.sub = sub])

\* The index first, ...
ReadIndex ==
  /\ call.pc = "index"
  /\ CallStep([call EXCEPT !.pc = "lookup",
                           !.index = IF IsLogged(call.id) THEN IndexFor(call.id) ELSE 0])

\* ... then the manifest; without both there is no receipt (404), or none verifies, ...
ReadManifest ==
  /\ call.pc = "lookup"
  /\ CallStep(IF call.index = 0 \/ registry[call.id] = Nothing THEN [call EXCEPT !.pc = "done"]
              ELSE [call EXCEPT !.pc = "proof", !.body = registry[call.id]])

\* ... then proof, root and checkpoint under the lock.
Issue ==
  /\ call.pc = "proof" /\ call.what = "issue"
  /\ receipts' \in {receipts, {ReceiptOf(call.id, call.index, call.body)} \cup receipts}
  /\ \E s \in [1..MaxReceipts -> receipts'] \cup {<< >>} : {s[i] : i \in DOMAIN s} = receipts'
  /\ call' = [call EXCEPT !.pc = "done", !.verdict = TRUE]
  /\ UNCHANGED <<conf, registry, leaves, key, life>>

\* Faulty: the audit path only has to resolve to the root.
ProofMatchesAnyLeaf(sub, now) ==
  /\ sub.leafHash = now.leafHash
  /\ sub.leafIndex = now.leafIndex
  /\ sub.size = now.size
  /\ sub.root = now.root
  /\ sub.checkpoint.key = key
  /\ sub.checkpoint.root = now.root
  /\ sub.path.tree = now.root

\* _proof_matches: every field is that of the proof issued for this leaf now, and the
\* checkpoint is over its root, by this key.
ProofMatches(sub, now) ==
  /\ sub.leafHash = now.leafHash
  /\ sub.leafIndex = now.leafIndex
  /\ sub.size = now.size
  /\ sub.root = now.root
  /\ sub.path = now.path
  /\ sub.checkpoint.key = key
  /\ sub.checkpoint.root = now.root
  /\ sub.path.tree = now.root

VerifyReceipt ==
  /\ call.pc = "proof" /\ call.what = "verify"
  /\ CallStep([call EXCEPT !.pc = "done", !.size = Len(leaves),
       !.verdict = ProofMatches(call.sub, ReceiptOf(call.id, call.index, call.body))])

-----------------------------------------------------------------------------
\* POST /demo/tamper-diff.

\* The signature is checked first, ...
BeginTamperDiff(b, sig) ==
  /\ call = Idle
  /\ CallStep([Idle EXCEPT !.pc = "authentic", !.what = "tamper", !.id = b.id, !.sub = b,
                           !.signed = SignatureValid(b, sig)])

\* Faulty: the registry's record is compared as it is.
DiffersUnredacted(b, authentic) == Canonical(Redacted(b)) # Canonical(authentic)

\* _signed_fields, of what is disclosed of either.
Differs(b, authentic) == Canonical(Redacted(b)) # Canonical(Redacted(authentic))

\* The verdict is that nothing was tampered with.
CompareWith(authentic, source) ==
  CallStep([call EXCEPT !.pc = "done", !.source = source,
                        !.verdict = call.signed /\ ~Differs(call.sub, authentic)])

\* ... then the registry is asked, and the demo manifest, whatever was submitted, stands
\* in for what it does not have or, if it is a database, does not answer.
TamperDiff ==
  /\ call.pc = "authentic"
  /\ \/ registry[call.id] # Nothing /\ CompareWith(registry[call.id], "registry")
     \/ /\ registry[call.id] = Nothing \/ conf.persistent
        /\ CompareWith(PrimaryBody, "demo")

-----------------------------------------------------------------------------
\* GET /demo/integrity-clash.

\* _is_ai_generated
IsAiGenerated(b) == b.model \in Generator

\* The summary of the claim build_manifest_def makes for a manifest.
ClaimOf(b) ==
  [ai |-> IsAiGenerated(b), model |-> b.model, provider |-> b.provider, asset |-> b.asset]

\* Faulty: providers are not compared.
ClashNoProvider(b, claim) ==
  \/ claim.ai # IsAiGenerated(b)
  \/ {claim.model, b.model} \subseteq Generator /\ claim.model # b.model
  \/ claim.asset # Nothing /\ claim.asset # b.asset

\* compare_provenance: whether there was AI is always compared, a field if both sides
\* name something.
Clash(b, claim) ==
  \/ claim.ai # IsAiGenerated(b)
  \/ {claim.model, b.model} \subseteq Generator /\ claim.model # b.model
  \/ {claim.provider, b.provider} \subseteq Provider /\ claim.provider # b.provider
  \/ claim.asset # Nothing /\ claim.asset # b.asset

\* The staged claim is read first, if it is there, ...
BeginClash(claim) ==
  /\ call = Idle
  /\ CallStep([Idle EXCEPT !.pc = "record", !.what = "clash", !.sub = claim])

\* The answer on manifest m, or the labelled empty state.
ClashAnswer(m) ==
  IF Nothing \in {m, call.sub} THEN [call EXCEPT !.pc = "done"]
  ELSE [call EXCEPT !.pc = "done", !.id = m, !.verdict = Clash(Redacted(registry[m]), call.sub)]

\* ... then the demo's manifest, ...
ReadRecord ==
  /\ call.pc = "record"
  /\ CallStep(IF registry[Primary] # Nothing THEN ClashAnswer(Primary)
              ELSE [call EXCEPT !.pc = "fallback"])

\* ... or else the first in the log that the registry has; one that it had at the
\* snapshot it still has at the lookup.
FallBack ==
  /\ call.pc = "fallback"
  /\ \/ \E i \in DOMAIN leaves :
          /\ registry[leaves[i].id] # Nothing
          /\ \A j \in 1..(i - 1) : registry[leaves[j].id] = Nothing
          /\ CallStep(ClashAnswer(leaves[i].id))
     \/ /\ \A i \in DOMAIN leaves : registry[leaves[i].id] = Nothing
        /\ CallStep(ClashAnswer(Nothing))

-----------------------------------------------------------------------------
Dismiss == call.pc = "done" /\ CallStep(Idle)

\* Manifests with a signature of this or of another one: as registered or as disclosed.
Submitted == LET full == Offered \cup {PrimaryBody, LegacyPrimary}
             IN full \cup {Redacted(b) : b \in full}

Next ==
  \/ \E b \in Offered : Register(b)
  \/ \E m \in ManifestId : AppendLeaf(m) \/ BeginIssue(m)
  \/ BeginDemoReceipt
  \/ \E m \in ManifestId, sub \in Assembled, typed \in BOOLEAN : BeginVerify(m, sub, typed)
  \/ ReadIndex \/ ReadManifest \/ Issue \/ VerifyReceipt
  \/ \E b \in Submitted, signed \in Submitted, k \in {0, key} :
       BeginTamperDiff(b, Sign(signed, k))
  \/ TamperDiff
  \/ \E claim \in Staged \cup {Nothing} : BeginClash(claim)
  \/ ReadRecord \/ FallBack
  \/ Restart
  \/ Dismiss

Spec == Init /\ [][Next]_vars

-----------------------------------------------------------------------------
\* The registry that a receipt was issued of is still the one there is.
OfThisRegistry(r) == conf.persistent \/ r.life = life

Verified == call.what = "verify" /\ call.pc = "done"

\* A receipt is verified only if its leaf, its audit path and its signed root are all
\* of the requested manifest in the log as it was then, whatever the client put together;
\* and a receipt issued under the present key, submitted unchanged, is verified unless
\* the log had grown since.  (_inclusion_proof, _proof_matches.)
VerdictIsTrue ==
  Verified =>
    LET r == call.sub
        then == SubSeq(leaves, 1, call.size)
    IN /\ call.verdict =>
            LET leaf == then[r.leafIndex + 1]
            IN /\ r.root = then /\ r.size = call.size
               /\ leaf.id = call.id /\ leaf.hash = r.leafHash
               /\ r.path = Path(r.leafIndex + 1, then)
               /\ r.checkpoint = Checkpoint(then, key)
       /\ r \in receipts /\ r.id = call.id /\ r.checkpoint.key = key
            /\ call.size > 0 /\ r.root = then => call.verdict

\* A client that hashes what GET /manifests discloses gets the leaf of every receipt
\* it was issued in this life of the registry, and every signature of the registered
\* manifest verifies on the disclosure, unless the manifest is a legacy one whose
\* prompt was signed.  (canonical_payload, redacted, "redacted disclosure ... hashes
\* identically to this leaf".)
DisclosureVerifies ==
  \A m \in ManifestId :
    registry[m] # Nothing /\ registry[m].prompt # "system" =>
      /\ \A r \in receipts : r.id = m /\ OfThisRegistry(r) =>
           r.leafHash = Canonical(Redacted(registry[m]))
      /\ SignatureValid(Redacted(registry[m]), Sign(registry[m], key))

Judged == call.what = "tamper" /\ call.pc = "done"

\* A manifest with its prompt in any place, or withheld.
Versions(b) == {[b EXCEPT !.prompt = p] : p \in Prompt}

\* Receipts of what the call is about, issued in any earlier state of this registry.
ReceiptsOfCall == {r \in receipts : r.id = call.id /\ OfThisRegistry(r)}

\* A holder of a manifest that hashes to the leaf of a receipt, with a signature that
\* covers it, is not told it was tampered with, and one of the demo manifest is not
\* whatever the registry answers; the exception is any other manifest that the registry
\* did not answer for, which is compared with the demo's.  And what the registry's
\* answer calls untampered is, but for the prompt, what was logged.  (tamper_diff.)
NoFalseAlarm ==
  Judged =>
    /\ call.signed /\ call.sub \in Versions(PrimaryBody) => call.verdict
    /\ \A r \in ReceiptsOfCall :
         /\ call.signed /\ r.leafHash = Canonical(call.sub) =>
              call.verdict \/ (call.source = "demo" /\ call.sub \notin Versions(PrimaryBody))
         /\ call.verdict /\ call.source = "registry" =>
              r.leafHash \in {Canonical(b) : b \in Versions(call.sub)}

\* The claim that was made for a logged manifest never clashes with what is disclosed of
\* it, and a claim that does not clash says of its making what the log says, of the same
\* asset: a laundered file is found out, from whichever record the answer was.
\* (_integrity_clash, compare_provenance, build_manifest_def.)
ClashIsTrue ==
  call.what = "clash" /\ call.pc = "done" =>
    \A i \in PositionsOf(call.id) :
      LET h == leaves[i].hash
      IN IF call.verdict THEN call.sub # ClaimOf(h)
         ELSE /\ call.sub.ai = (h.model \in Generator)
              /\ call.sub.model \in {h.model, NoModel} \/ h.model = NoModel
              /\ call.sub.provider \in {h.provider, NoProvider} \/ h.provider = NoProvider
              /\ call.sub.asset \in {h.asset, Nothing}

-----------------------------------------------------------------------------
\* What the tests say of the tamper diff and the code does not do.

\* test_tamper.py: "An untampered manifest is clean".
UntamperedIsClean ==
  Judged /\ call.signed /\ (\E r \in ReceiptsOfCall : r.leafHash = Canonical(call.sub)) =>
    call.verdict
=============================================================================
