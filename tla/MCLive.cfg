CONSTANTS
  code = code
  more = more
  a = a
  b = b
  s1 = s1
  s2 = s2
  Tag <- MCTag
  Set = {0}
  W = 16
  Data <- MCData
  NoTag = NoTag
  NoLine = NoLine
  NoWord = NoWord
  NoBlock = NoBlock
  NoAccess = NoAccess
  ILine = {0}
  ISetOf <- MCSetOf
  Fetch <- MCFetch
  DLine = {0}
  DSetOf <- MCSetOf
  LoadStore <- LiveLoadStore
SPECIFICATION MCFairSpec
PROPERTIES
  StallEnds
  WritebackEnds
