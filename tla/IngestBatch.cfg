\* B2 retries two objects, alone or in one notification, over two crashes; a
\* fetch may fail.
SPECIFICATION FairSpec
CONSTANTS
  m1 = m1
  m2 = m2
  k1 = k1
  k2 = k2
  ManifestId = {m1, m2}
  Object = {m1, m2}
  CallerId = {m1, m2}
  WatermarkId = {k1, k2}
  Version = {v1}
  Request = {r1}
  NoManifest = NoManifest
  NoWatermark = NoWatermark
  NoVersion = NoVersion
  WatermarkOf <- TwoObjects
  FetchMayFail = TRUE
  MaxCrashes = 2
  MaxFailures = 0
PROPERTY EventuallyProven
