\* Three threads, two compilers, two table keys: two constructors can race with
\* a destructor while a third thread compiles.  No symmetry: liveness.
SPECIFICATION FairSpec
CONSTANTS
  Threads = {t1, t2, t3}
  Compilers = {c1, c2}
  Keys = {k1, k2}
  NoThread = NoThread
INVARIANTS
  TypeOK
  OneMutex
  MutualExclusion
  CountMatches
  UpWhileCompiling
  TablesStayWhileRead
  UpIffNeeded
PROPERTIES
  WindsDown
  ImplementsService
