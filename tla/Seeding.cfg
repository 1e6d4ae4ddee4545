\* Three starts, each of which may stop between any two writes, and one visitor.
SPECIFICATION Spec
CONSTANTS
  primary = primary
  fixture = fixture
  nano = nano
  flux = flux
  visitor = visitor
  DemoSeeds <- TwoImages
  ProviderSeeds <- TwoProviders
  AudioSeed = audio
  VideoSeed = video
  Visitor = {visitor}
  KeyOrder <- Keys
  RebuildCap = 6
  MaxStarts = 3
CHECK_DEADLOCK FALSE
INVARIANTS
  SeedTypeOK
  SeededExactlyOnce
  RebuildRestores
  SignaturesVerify
