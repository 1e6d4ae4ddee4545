\* Three leaves, one crash, two threads that append: one inside _signed_head, one
\* after it.  No INSERT fails; an auditor keeps one published head.
SPECIFICATION SealSpec
CONSTANTS
  ManifestId = {m1, m2}
  Version = {v1}
  Worker = {w1, w2}
  NoWorker = NoWorker
  NoHead = NoHead
  StoreMayFail = FALSE
  MaxLeaves = 3
  MaxBoots = 2
  MaxHeads = 1
  MaxProofs = 0
SYMMETRY Symmetry
INVARIANTS
  SealedChain
  ReadBackNotAhead
PROPERTIES
  AuditAgrees
  ImplementsLedger
