SPECIFICATION FairSpec
CONSTANTS
  t1 = t1
  i1 = i1
  i2 = i2
  a = a
  b = b
  c = c
  f = f
  g = g
  h = h
  x = x
  y = y
  Torrent = {t1}
  Instance = {i1, i2}
  Link = {a, b, c}
  File = {f, g, h}
  Data = {x, y}
  TorrentOf <- MCTorrentOf
  InstanceOf <- MCInstanceOf
  Wants <- MCWants
  Hashed = {a, c}
  Library = {f, h}
  Managed = {f, h}
  MaxCandidates = 3
  Home <- MCHome
  Contents <- MCContents
  Ssd = Ssd
  NoLink = NoLink
  Gone = Gone
  None = None
  NoMarker = NoMarker
  Blank = Blank
  Faults = {"stop", "lose", "import", "unlink", "replace", "kill", "rename", "clear"}
  MaxEvents = 3
INVARIANTS
  IndInv
  FirstSeenKept
PROPERTIES
  RepairIsRight
  LeftAlone
  RecheckComplete
  MarkerFollows
  LostIsRepaired
