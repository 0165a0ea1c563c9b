\* A copy or a move, and the end of the wrapper that owns the includer.
SPECIFICATION Spec
CONSTANTS
  Wrappers = {w1, w2}
  Objects = {o1, o2}
  Includers = {i1}
  Drivers = {}
  Compilers = {}
  Holders = {}
  Results = {}
  Null = Null
INVARIANTS
  CallbacksReachAnIncluder
