\* Two manifests, two receipts kept over a restart, and a log that grows meanwhile.
SPECIFICATION Spec
CONSTANTS
  ManifestId = {demo, m1}
  Primary = demo
  Asset = {a1, a2}
  Generator = {g1, g2}
  NoModel = NoModel
  Provider = {p1, p2}
  NoProvider = NoProvider
  Offered <- TwoAssets
  Staged <- Claims
  Nothing = Nothing
  MaxReceipts = 2
  MaxRestarts = 1
INVARIANTS
  VerdictIsTrue
  DisclosureVerifies
  NoFalseAlarm
  ClashIsTrue
