SPECIFICATION FairSpec
CONSTANTS
  r1 = r1
  r2 = r2
  x = x
  y = y
  Routes = {r1, r2}
  Cards = {x, y}
  Base = 10001
  Hashes <- MCHashes
  Offered <- MCOffered
  Worlds <- MCWorlds
  CardId <- MCCardId
  Patched <- MCPatched
  FirstSlot <- MCFirstSlot
  NoSpec = NoSpec
  NoRoute = NoRoute
  NoEntry = NoEntry
CHECK_DEADLOCK FALSE
INVARIANTS HearsOnlyTwins ConflictNamed TrioMeets PacketsFit DeviceHonest SignalCarried DepthWakes
PROPERTY BothEndsMeet
