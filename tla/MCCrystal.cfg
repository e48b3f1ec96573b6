SPECIFICATION Spec
CONSTANTS
  Absent = Absent
  Path = {p1, p2}
  Writer = {w1, w2}
  Sweeper = sweeper
  Feature = {"crash", "tear", "short", "compact", "evict", "io", "ttl"}
  MaxAtoms = 1
  MaxHash = 3
  MaxMortal = 1
INVARIANTS TypeOK DurableUnlessDamaged FrontierShows LiveResident BuriesOnlyExpired
SYMMETRY MCSymmetry
CHECK_DEADLOCK FALSE
