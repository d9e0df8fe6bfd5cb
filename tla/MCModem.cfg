SPECIFICATION Spec
CONSTANTS
  Link = {l1, l2, l3, l4, l5}
  Profile = {p, q}
  Slots = 4
  Overlap = FALSE
SYMMETRY Alike
INVARIANTS
  TypeOK
  NoEngineLost
  EveryLinkHears
PROPERTIES
  EveryEngineUsable
