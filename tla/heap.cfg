SPECIFICATION Spec
CONSTANTS
  o1 = o1
  o2 = o2
  Objects = {o1, o2}
  NodeSize = 2
  Alignment = 2
  Requests <- MCRequests
  Capacities <- MCCapacities
INVARIANTS
  BlocksTile
  FreeListWhole
  HandedOutFits
PROPERTY ImplementsHeap
