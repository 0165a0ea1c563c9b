\* Bases of the tessellation stages.
SPECIFICATION Spec
CONSTANTS
  Objects = {o1}
  Envs = {}
  Versions = {}
  Spirvs = {}
  Levels = {}
  Languages = {}
  Bases = {7}
  Stages = {"tess_control"}
  Plain = {}
  PlainValues = {}
  Registers = {}
  MaxRegisters = 0
  Clients <- BaseClient
  NoObject = NoObject
INVARIANTS
  EveryStageHasItsBase
