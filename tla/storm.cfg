SPECIFICATION Spec
CONSTANTS
  t1 = t1
  t2 = t2
  i1 = i1
  i2 = i2
  a = a
  b = b
  c = c
  f = f
  g = g
  h = h
  None = None
  Torrent = {t1}
  Instance = {i1, i2}
  Link = {a, b, c}
  File = {f}
  TorrentOf <- StormTorrentOf
  InstanceOf <- StormInstanceOf
  FileOf <- StormFileOf
  SuspendOnAnomaly = TRUE
  Faults = {"crash", "stop", "poll", "absent", "dbloss", "ssdloss", "sideloss", "fileloss", "lastcopy", "oserror", "publish", "dberror", "import", "remove", "midtick", "move", "unmount"}
  MaxEvents = 3
INVARIANTS
  TypeOK
  PromotionOrder
PROPERTIES
  WriteAhead
  UnseenCopiesStay
