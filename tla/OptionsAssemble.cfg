\* The target of an assembly.
SPECIFICATION Spec
CONSTANTS
  Objects = {o1}
  Envs = {"vulkan"}
  Versions = {"vulkan_1_2"}
  Spirvs = {}
  Levels = {}
  Languages = {}
  Bases = {}
  Stages = {}
  Plain = {}
  PlainValues = {}
  Registers = {}
  MaxRegisters = 0
  Clients <- TargetClient
  NoObject = NoObject
INVARIANTS
  AssembleTargetAsAsked
