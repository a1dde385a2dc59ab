SPECIFICATION FairSpec
CONSTANTS
  u1 = u1
  u2 = u2
  Users = {u1, u2}
  Kernel = Kernel
  Blank = Blank
  Word = 16
  Uint = 6
  GB = 8
  MB = 2
  MinPow = 1
  SectorSize = 2
  Params = {0, 3, 8, 9}
  Extents <- MCExtents
INVARIANTS
  TypeOK
  UsesLiveMemory
  FreedOnce
  RequestsFit
  OpenersNotOvercounted
PROPERTIES
  AlignsToPowerOfTwo
  CallsReturn
  RequestsEnd
  ImplementsDevice
