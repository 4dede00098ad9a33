CONSTANTS
  root = root  a = a  b = b  i1 = i1  i2 = i2  x1 = x1  x2 = x2
  tA = tA  tItem = tItem  tX = tX
  Nodes <- MCNodes
  Root = root
  Parent <- MCParent
  Shape <- MCShape
  RootFields <- MCRootFields
  TypeRef <- MCTypeRef
  BlankLeaves = {x2}
  Operations <- MCOperations
  MaxEvents = 2
SPECIFICATION FairSpec
INVARIANTS NullsPropagate NullsAreExplained OneErrorPerFault MutationsAreSerial LeaksAreOrphans
PROPERTY EveryEventAnswered
CHECK_DEADLOCK FALSE
