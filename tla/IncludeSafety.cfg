\* Two compilations that share the callbacks, files nested two deep, and as many
\* results as they can hold together.
SPECIFICATION Spec
CONSTANTS
  Threads = {t1, t2}
  Results = {r1, r2, r3, r4}
  Null = Null
  Callbacks = {"none", "both", "resolver", "releaser"}
  MaxDirectives = 2
  Throws = TRUE
SYMMETRY Sym
INVARIANTS
  TypeOK
  LedgerMatches
  NothingLeaks
  OnlyResolvedAreReleased
  MutexIsFree
  CounterTellsIncludes
PROPERTIES
  LastInFirstOut
