SPECIFICATION FairSpec
CONSTANTS
  near = near
  far = far
  Ids = {i, j}
  Addrs = {near, far}
  Lan = {near}
  Home <- MCHome
  Tenants <- MCTenants
  i = i
  j = j
  Threshold = 2
  Nobody = Nobody
  Nowhere = Nowhere
PROPERTIES TableSettles ManualReturns
