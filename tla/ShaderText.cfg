\* Texts of up to three user lines of every kind, in old and new versions.
SPECIFICATION Spec
CHECK_DEADLOCK FALSE
CONSTANTS
  Names = {inc}
  Main = main
  NoName = NoName
  Numbers = {0, 7}
  Stages = {s1, s2}
  BadStage = BadStage
  Versions <- OldAndNew
  Others <- Overruled
  MaxLines = 3
  MaxMacros = 1
INVARIANTS
  TypeOK
  CleanupKeepsPositions
  PragmasAreWhereTheyAre
  StageAsWritten
