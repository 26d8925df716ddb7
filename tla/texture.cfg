SPECIFICATION Spec
CONSTANTS
  NoInner = NoInner
  Threads = {render, loader}
  Binders = {render, loader}
  Resetters = {render}
  Levels = {0}
  Inners = {i1, i2, i3}
SYMMETRY AddressesAlike
INVARIANTS
  WrapperAlive
  InnerAccounted
  InnerIsMapped
PROPERTY
  NeverResurrected
