\* HLSL and GLSL texts of two lines, with #line directives of the user's and of included files.
SPECIFICATION Spec
CHECK_DEADLOCK FALSE
CONSTANTS
  Names = {inc}
  Main = main
  NoName = NoName
  Numbers = {7}
  Stages = {s1, s2}
  BadStage = BadStage
  Versions <- OldAndNew
  Others <- Overruled
  MaxLines = 2
  MaxMacros = 1
INVARIANTS
  ErrorsAreAtPragmas
