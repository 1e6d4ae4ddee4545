\* Two registrations, of any modality, and queries of every kind while they happen.
SPECIFICATION ClientsSpec
CONSTANTS
  p1 = p1
  p2 = p2
  p3 = p3
  p4 = p4
  ManifestId = {m1, m2}
  WatermarkId = {k1}
  Nothing = Nothing
  Foreign = Foreign
  MaxHash = 2
  Threshold = 1
  Peers <- FourPeers
  SafePeer = {p1, p3, p4}
  MaxPeers = 2
  MaxFrames = 2
  MaxRegistrations = 2
  MaxLives = 2
  Limit = 1
  MaxChunk = 1
SYMMETRY Symmetry
INVARIANTS
  BodyBounded
  ReportsAreTrue
  MatchIsOfContent
  FindsTheNearest
  FederationTries
PROPERTY BindingsImmutable
