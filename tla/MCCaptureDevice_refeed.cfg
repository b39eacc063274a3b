SPECIFICATION FairSpec
CONSTANTS
  Routes = {a, b}
  Slots = {x, y}
  Widths = {1, 2}
  Owners = {o1}
  Drainers = {d}
  LostAtOnce = 0
  NoOwner = NoOwner
  NoHandle = NoHandle
PROPERTY OneEventuallyServed
