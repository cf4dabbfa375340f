CONSTANTS
  N = 4
  VictimDepth <- MCVictimDepth
SPECIFICATION Spec
INVARIANTS
  FillsBeforeEvicting
