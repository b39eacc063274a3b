SPECIFICATION Spec
CONSTANTS
  Routes = {a, b}
  Slots = {x, y}
  Widths = {1, 2}
  Owners = {o1, o2}
  Drainers = {d}
  LostAtOnce = 1
  NoOwner = NoOwner
  NoHandle = NoHandle
SYMMETRY Symmetry
INVARIANTS TypeOK RosterHeld NobodysDevice OnlyFaultsLookDead Served NoZombie
