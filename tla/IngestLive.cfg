\* Deliveries of one object overlap, with each other and with /ingest, over two crashes.
SPECIFICATION FairSpec
CONSTANTS
  m1 = m1
  m2 = m2
  k1 = k1
  k2 = k2
  ManifestId = {m1}
  Object = {m1}
  CallerId = {m1}
  WatermarkId = {k1}
  Version = {v1}
  Request = {r1, r2}
  NoManifest = NoManifest
  NoWatermark = NoWatermark
  NoVersion = NoVersion
  WatermarkOf <- OneObject
  FetchMayFail = FALSE
  MaxCrashes = 2
  MaxFailures = 0
PROPERTY EventuallyProven
