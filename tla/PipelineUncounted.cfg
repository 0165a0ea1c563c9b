\* Errors in #pragma shader_stage.
SPECIFICATION Spec
CHECK_DEADLOCK FALSE
CONSTANTS
  Stages = {s1}
  NoStage = NoStage
  Logs <- ErrorLogs
  MaxPragmas = 1
  Lengths = {0}
  Words = {5}
  Passes = {FALSE}
INVARIANTS
  FailuresAreCounted
