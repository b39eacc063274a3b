SPECIFICATION FairSpec
CONSTANTS
  tone = tone
  cap = cap
  play = play
  loop = loop
  away = away
  sup = sup
  disc = disc
  Routes = {r1}
  Configs = {tone, play}
  CaptureConfigs = {}
  Roles <- MCRoles
  Scope <- MCScope
  Clients = {c1, c2}
  Sweepers = {sup}
  Drainers = {}
  Workers = {t1, t2, t3}
  NoConfig = NoConfig
  NoRoute = NoRoute
  NoProc = NoProc
PROPERTY EventuallyAsConfigured
