\* Three options wrappers, two compilers and two result holders, as many C objects as they can own.
SPECIFICATION Spec
CONSTANTS
  Wrappers = {w1, w2, w3}
  Objects = {o1, o2, o3}
  Includers = {i1, i2}
  Drivers = {c1, c2}
  Compilers = {k1, k2}
  Holders = {h1, h2}
  Results = {r1, r2}
  Null = Null
SYMMETRY Sym
INVARIANTS
  TypeOK
  OptionsHaveOneOwner
  HandlesHaveOneOwner
  OwnIncluderIsCalled
