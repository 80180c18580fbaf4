\* Two entities, two restores and two syncs; four commands are started.
CONSTANTS
  Entities = {e1, e2}
  PageNames = {e1, e2}
  Restores = {r1, r2}
  Backups = {s1}
  Syncs = {p1, p2}
  MaxLeft = 1
  MaxCommands = 4
  Missing = Missing
SPECIFICATION Spec
SYMMETRY Alike
CONSTRAINT TwoAtATime
INVARIANTS DatabaseKept OwnershipKept
