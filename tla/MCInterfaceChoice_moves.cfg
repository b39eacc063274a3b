SPECIFICATION FairSpec
CONSTANTS
  x = x
  y = y
  z = z
  Nics = 2
  Addrs = {x, y, z}
  Leases <- MCLeases
  Operators = {o1}
  Rec = Rec
  Routes = {r}
  MaxChanges = 1
  None = None
INVARIANTS MovedTogether GoodbyeIsLast
PROPERTY AddressSettles
