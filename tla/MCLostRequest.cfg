CONSTANTS
  t1 = t1
  t2 = t2
  d1 = d1
  Tag <- MCTag
  Set = {0}
  Line = {0}
  SetOf <- MCSetOf
  W = 1
  Data = {d1}
  NoTag = NoTag
  NoLine = NoLine
  NoWord = NoWord
  NoBlock = NoBlock
  Reference <- MCReference
  Boot = FALSE
  Limit = 2
  Rate = 2
  CounterRange = 4
  TraceRange = 8
  Flags = {0, 1}
  Tags = {"u", "v", "w"}
  NSampler = 2
  Top = 2
  MaxCount = 3
  Thresholds = {0, 1}
SPECIFICATION MCSpec
INVARIANTS
  DoneMeansServed
