\* Two stages, two pragmas, the sample logs; the call ends in its result.
SPECIFICATION Spec
CHECK_DEADLOCK FALSE
CONSTANTS
  Stages = {s1, s2}
  NoStage = NoStage
  Logs <- SampleLogs
  MaxPragmas = 2
  Lengths = {2, 3, 4}
  Words = {5}
  Passes = {TRUE, FALSE}
SYMMETRY Sym
INVARIANTS
  TypeOK
  SuccessIsClean
  CountedOnce
  StatusTellsCause
  StageIsTheRightOne
  OutputMatchesRequest
PROPERTIES
  ImplementsCall
