CONSTANTS
  t1 = t1
  t2 = t2
  t3 = t3
  d1 = d1
  Tag <- MCTag
  Set <- MCSet
  Line <- MCLine
  SetOf <- MCSetOf
  W = 2
  Data <- MCData
  NoTag = NoTag
  NoLine = NoLine
  NoWord = NoWord
  NoBlock = NoBlock
  Reference <- MCReference
  Boot = FALSE
SPECIFICATION Spec
INVARIANTS
  TypeOK
  TagsUnique
  StoresAreKept
  NoCopyBehindWriteback
  WritesBackInOrder
  RepeatedReferenceHits
PROPERTIES
  WritebackNotLost
