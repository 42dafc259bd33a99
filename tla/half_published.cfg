SPECIFICATION Spec
CONSTANTS
  t1 = t1
  t2 = t2
  i1 = i1
  i2 = i2
  a = a
  b = b
  c = c
  f = f
  g = g
  h = h
  None = None
  Torrent = {t1}
  Instance = {i1, i2}
  Link = {a, b}
  File = {f}
  TorrentOf <- TwoInstancesTorrentOf
  InstanceOf <- TwoInstancesInstanceOf
  FileOf <- TwoInstancesFileOf
  SuspendOnAnomaly = FALSE
  Faults = {"publish"}
  MaxEvents = 2
PROPERTIES
  MappingSurvives
