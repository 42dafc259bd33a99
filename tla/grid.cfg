SPECIFICATION Spec
CONSTANTS
  t1 = t1
  t2 = t2
  i1 = i1
  i2 = i2
  a = a
  b = b
  c = c
  f = f
  g = g
  h = h
  None = None
  Torrent = {t1, t2}
  Instance = {i1, i2}
  Link = {a, b, c}
  File = {f, g, h}
  TorrentOf <- GridTorrentOf
  InstanceOf <- GridInstanceOf
  FileOf <- GridFileOf
  SuspendOnAnomaly = FALSE
  Faults = {"crash", "stop", "poll", "dbloss", "ssdloss", "sideloss", "lastcopy", "oserror", "import", "remove"}
  MaxEvents = 3
INVARIANTS
  IndInv
  HotAccounted
PROPERTIES
  MappingSurvives
  NoNewDangling
  PendingKept
  LedgerSpec
