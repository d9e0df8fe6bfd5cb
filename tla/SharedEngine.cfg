SPECIFICATION Spec
CONSTANTS
  Link = {l1, l2, l3}
  Profile = {p}
  Slots = 2
  Overlap = TRUE
INVARIANTS
  AtMostAllSlots
