\* Any INSERT may fail, one crash, two threads.
SPECIFICATION Spec
CONSTANTS
  ManifestId = {m1, m2}
  Version = {v1}
  Worker = {w1, w2}
  NoWorker = NoWorker
  NoHead = NoHead
  StoreMayFail = TRUE
  MaxLeaves = 2
  MaxBoots = 2
  MaxHeads = 2
  MaxProofs = 1
SYMMETRY Symmetry
INVARIANTS
  TypeOK
  SnapshotAgrees
  NoFork
  ProofsStayTrue
PROPERTIES
  HeadReproducible
  HeadNotStale
