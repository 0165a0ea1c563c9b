\* Two objects; every environment, version, level; a register set after another.
SPECIFICATION Spec
CONSTANTS
  Objects = {o1, o2}
  Envs = {"vulkan", "opengl", "opengl_compat", "webgpu"}
  Versions = {"0", "vulkan_1_0", "vulkan_1_1", "vulkan_1_2", "vulkan_1_3", "vulkan_1_4", "opengl_4_5", "other"}
  Spirvs = {"1.0", "1.4", "other"}
  Levels = {"zero", "size", "performance"}
  Languages = {"GLSL", "HLSL"}
  Bases = {7}
  Stages = {"vertex", "fragment"}
  Plain = {"limit"}
  PlainValues = {"low", "high"}
  Registers = {t1, t2}
  MaxRegisters = 2
  Clients <- ThreeClients
  NoObject = NoObject
SYMMETRY Sym
INVARIANTS
  TypeOK
  PassesAsAsked
  SpirvAsAsked
  ToolsAgree
  StagesAsAsked
