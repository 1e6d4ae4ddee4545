\* The smallest instance in which a leaf whose INSERT raised is never stored.
SPECIFICATION FairSpec
CONSTANTS
  m1 = m1
  m2 = m2
  k1 = k1
  k2 = k2
  ManifestId = {m1}
  Object = {m1}
  CallerId = {}
  WatermarkId = {k1}
  Version = {v1}
  Request = {r1}
  NoManifest = NoManifest
  NoWatermark = NoWatermark
  NoVersion = NoVersion
  WatermarkOf <- OneObject
  FetchMayFail = FALSE
  MaxCrashes = 1
  MaxFailures = 1
PROPERTY HealedByRedelivery
