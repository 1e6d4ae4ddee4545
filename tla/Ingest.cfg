\* Two requests at once, one crash, one failing INSERT.
SPECIFICATION Spec
CONSTANTS
  m1 = m1
  m2 = m2
  k1 = k1
  k2 = k2
  ManifestId = {m1, m2}
  Object = {m1}
  CallerId = {m1, m2}
  WatermarkId = {k1}
  Version = {v1, v2}
  Request = {r1, r2}
  NoManifest = NoManifest
  NoWatermark = NoWatermark
  NoVersion = NoVersion
  WatermarkOf <- OneObject
  FetchMayFail = TRUE
  MaxCrashes = 1
  MaxFailures = 1
SYMMETRY Symmetry
INVARIANTS
  TypeOK
  OneLeafPerManifest
  OkIsProven
  OkIsRecoverable
PROPERTIES
  RegisteredStays
  ProofIsOfManifest
