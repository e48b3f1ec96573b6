SPECIFICATION Spec
CONSTANTS
  Absent = Absent
  Path = {p1}
  Writer = {w1}
  Sweeper = sweeper
  Feature = {"compact", "overlap"}
  MaxAtoms = 2
  MaxHash = 3
  MaxMortal = 1
INVARIANTS DurableUnlessDamaged
SYMMETRY MCSymmetry
CHECK_DEADLOCK FALSE
