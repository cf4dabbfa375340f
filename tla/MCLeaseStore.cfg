CONSTANTS
  a = a
  b = b
  s1 = s1
  s2 = s2
  ldA = ldA
  stA = stA
  ldB = ldB
  Tag = {a, b}
  Set = {0}
  Line = {0}
  SetOf <- MCSetOf
  W = 8
  Data <- MCData
  NoTag = NoTag
  NoLine = NoLine
  NoWord = NoWord
  NoBlock = NoBlock
  Reference <- MCReference
  Boot = FALSE
  Pc <- MCPc
  NoPc = NoPc
  Entries = 16
  Phase = {0, 1}
  Table <- MCTable
  Program <- MCProgram
  StoreAtPhaseChange = TRUE
  NSampler = 2
  Top = 2
  MaxCount = 1
  Thresholds = {0}
SPECIFICATION MCSpec
INVARIANTS
  LoadsSeeLastStore
