SPECIFICATION Spec
CONSTANTS
  Threads = {render}
  Places = {a1, a2}
  Wrappers = {w1}
  Nowhere = Nowhere
  Requests = {"large", "plain"}
  PreferDefault = TRUE
  FallBackToManaged = FALSE
INVARIANT
  RelocatedIsWrapped
