SPECIFICATION Spec
CONSTANTS
  Servers = {s1, s2}
  c1 = c1
  c2 = c2
  c3 = c3
  Clients = {c1, c2, c3}
  Ip <- MCIp
  NoServer = NoServer
  NoClient = NoClient
SYMMETRY Symmetry
INVARIANTS
  TypeOK
  BoundServerKnowsClients
  OneClientPerJail
  JailsAreOwned
PROPERTIES
  RunningClientsKeepJails
  EachServerKeepsSessions
