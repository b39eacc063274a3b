SPECIFICATION FairSpec
CONSTANTS
  tone = tone
  cap = cap
  play = play
  loop = loop
  away = away
  sup = sup
  disc = disc
  Routes = {r1}
  Configs = {loop}
  CaptureConfigs = {loop}
  Roles <- MCRoles
  Scope <- MCScope
  Clients = {c1}
  Sweepers = {sup}
  Drainers = {d}
  Workers = {t1, t2}
  NoConfig = NoConfig
  NoRoute = NoRoute
  NoProc = NoProc
PROPERTIES EventuallySettled DeathShows SweepSparesTheLiving
