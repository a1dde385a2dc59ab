SPECIFICATION Spec
CONSTANTS
  Ips = {i1, i2}
  Pids = {p1, p2, p3}
  NoIp = NoIp
  NoPid = NoPid
SYMMETRY Symmetry
INVARIANTS
  TypeOK
  LiveClientHasJail
  NoOrphan
  ExitLeavesNothing
PROPERTIES
  MapStableWhileSwept
  LiveClientsDropAlone
  ImplementsSessions
