SPECIFICATION FairSpec
CONSTANTS
  u1 = u1
  u2 = u2
  Users = {u1}
  Kernel = Kernel
  Blank = Blank
  Word = 16
  Uint = 6
  GB = 8
  MB = 2
  MinPow = 1
  SectorSize = 2
  Params = {1, 5}
  Extents = {}
PROPERTIES
  CallsReturn
