SPECIFICATION Spec
CONSTANTS
  Signals = {g1, g2}
  Slots = {d1, d2, d3}
  MaxId = 6
  NULL = NULL
SYMMETRY Symmetry
INVARIANTS
  TypeOK
  RegistryAgrees
  NeverBroken
  EveryoneCalled
