SPECIFICATION Spec
CONSTANTS
  NoInner = NoInner
  Threads = {render, loader}
  Binders = {render}
  Resetters = {render}
  Levels = {0}
  Inners = {i1, i2}
INVARIANT
  KeysAreInner
