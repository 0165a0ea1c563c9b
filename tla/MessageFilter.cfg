\* Names of three characters, texts of two after a location, of five without.
SPECIFICATION Spec
CHECK_DEADLOCK FALSE
CONSTANTS
  FileNames <- OneFile
  NameChars = {":", "1", "space", "a", "-"}
  MaxName = 3
  BodyChars = {":", "1", "space", "a", "C"}
  MaxBody = 2
  MaxGlobal = 5
  Digits = {"1"}
  MaxLine = 2
INVARIANTS
  TypeOK
  LocationIsTheOneMeant
  ClassifiedAsMeant
  NothingIsLost
