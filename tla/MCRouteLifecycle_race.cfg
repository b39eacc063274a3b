SPECIFICATION Spec
CONSTANTS
  tone = tone
  cap = cap
  play = play
  loop = loop
  away = away
  sup = sup
  disc = disc
  Routes = {r1}
  Configs = {loop}
  CaptureConfigs = {}
  Roles <- MCRoles
  Scope <- MCScope
  Clients = {c1, c2}
  Sweepers = {sup}
  Drainers = {}
  Workers = {t1, t2, t3}
  NoConfig = NoConfig
  NoRoute = NoRoute
  NoProc = NoProc
SYMMETRY ClientAndThreadSymmetry
INVARIANTS IInv TypeOK SingleWorker RemovedIsStopped RemovedIsForgotten OpenNeverMeetsTeardown
PROPERTY ImplementsService
