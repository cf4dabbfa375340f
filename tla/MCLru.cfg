CONSTANTS
  N = 5
  VictimDepth <- MCVictimDepth
  Lines = 3
  Layers = 2
  MaxLease = 2
  Saturated = 3
  Ways = 4
  Longest = 3
  Insert = 2
  Refs = {"a", "b", "c"}
  Phases = {1, 2}
  PhaseOf <- MCPhaseOf
  Intervals = {1, 4, 18}
  Counts = {0, 1, 3}
  CacheSize = 4
  Rate = 1
  Discretize = 1
SPECIFICATION MCSpec
INVARIANTS
  TypeOK
  OrdinalPositions
  FillsBeforeEvicting
  EvictsLeastRecent
  LeasesCountReferences
  LeaseHonoured
  LeaseFillsBeforeEvicting
  PlruKeepsRecent
  OutlivesIdle
  LeasesFit
  NoRoomWasted
PROPERTIES
  AddressGenerated
