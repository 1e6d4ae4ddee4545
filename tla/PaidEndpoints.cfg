\* Two requests of three callers for one slot, over a midnight and a restart.
SPECIFICATION FairSpec
CONSTANTS
  Request = {r1, r2}
  Ip = {ip1, ip2, ip3}
  PerIp = 1
  Global = 2
  MaxInFlight = 1
  GmiModels = 2
  MaxTurns = 2
  MaxDay = 1
  MaxRestarts = 1
INVARIANTS
  PaidTypeOK
  SlotsAccounted
  SpendBounded
  FreshIsRecoverable
PROPERTIES
  ImplementsBudget
  BusyEnds
