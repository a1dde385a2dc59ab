--------------------------- MODULE RestartsProofs ---------------------------
(***************************************************************************)
(* Theorems about Restarts, for any number of servers, clients and         *)
(* addresses: a server that has the port knows every client that runs, no  *)
(* two share a jail, and none loses its jail to a server that has it.      *)
(***************************************************************************)
EXTENDS Restarts, TLAPS

(* Where a server is, and whether it has the port, go together.            *)
PhaseInv ==
  \A s \in Servers :
    /\ joining[s] \in Clients <=> server[s] \in Adding
    /\ server[s] \in Adding => s \in bound
    /\ s \in bound => Running(s)
    /\ s \notin bound => c_map[s] = {}

(* A client is queued, being added or in the map of the server it asked.   *)
PlaceInv ==
  \A c \in Clients :
    /\ c \in pending => child[c] = "none"
    /\ client[c] = "idle" => child[c] = "none"
    /\ client[c] # "idle" => at[c] \in Servers
    /\ client[c] = "idle" => at[c] = NoServer
    /\ \A s \in Servers :
         /\ c \in c_map[s] => at[c] = s /\ c \notin pending
         /\ joining[s] = c => at[c] = s /\ c \notin pending
         /\ joining[s] = c => c \notin c_map[s]
         /\ joining[s] = c /\ server[s] \in {"populate", "fork"} =>
              child[c] = "none"

(* The clients of a server are of different addresses.                     *)
AddressInv ==
  \A s \in Servers, d \in Clients :
    d \in c_map[s] =>
      /\ \A c \in c_map[s] : Ip[c] = Ip[d] => c = d
      /\ joining[s] \in Clients => Ip[joining[s]] # Ip[d]

(* Only a server that has had the port has been asked by anybody.          *)
AskedInv ==
  \A c \in Clients, s \in Servers :
    at[c] = s => s \in bound \/ server[s] \in {"closed", "crashed"}

OneBound == \A s, t \in bound : s = t

(* Whose the jails are, at any time before the server closes.              *)
OwnedInv ==
  \A s \in bound : server[s] # "closing" =>
    \A a \in jails :
      \/ a \in stale
      \/ \E c \in c_map[s] : a = JailOf(c)
      \/ server[s] \in {"fork", "wait"} /\ a = JailOf(joining[s])

IInv ==
  /\ TypeOK
  /\ PhaseInv
  /\ PlaceInv
  /\ AddressInv
  /\ AskedInv
  /\ OneBound
  /\ BoundServerKnowsClients
  /\ OneClientPerJail
  /\ OwnedInv

-----------------------------------------------------------------------------

LEMMA AddressType == \A c \in Clients : Ip[c] \in Addresses
BY DEF Addresses

(* The invariant holds initially.                                          *)
LEMMA InitIInv == Init => IInv
<1> SUFFICES ASSUME Init PROVE IInv
  OBVIOUS
<1> USE RestartsAssumption DEF Init
<1>1. TypeOK
  BY DEF TypeOK
<1>2. PhaseInv /\ PlaceInv
  BY DEF PhaseInv, PlaceInv, Adding
<1>3. AddressInv /\ OneBound /\ BoundServerKnowsClients
  BY DEF AddressInv, OneBound, BoundServerKnowsClients
<1>4. OneClientPerJail /\ OwnedInv
  BY DEF OneClientPerJail, OwnedInv, Alive
<1>5. AskedInv
  BY DEF AskedInv
<1> QED BY <1>1, <1>2, <1>3, <1>4, <1>5 DEF IInv

(* A server starts, or is told to exit.                                    *)
LEMMA MoveIInv ==
  ASSUME IInv, NEW s \in Servers, Start(s) \/ Exit(s)
  PROVE  IInv'
<1> USE DEF IInv
<1>1. /\ UNCHANGED <<bound, joining, c_map, jails, stale, pending, client,
                     at, child>>
      /\ server' \in [Servers -> Adding \cup
                        {"new", "up", "closing", "closed", "crashed"}]
      /\ \A t \in Servers :
           t # s => server'[t] = server[t]
      /\ server[s] \in {"new", "up"} /\ server'[s] \in {"up", "closing"}
      /\ server[s] = "new" => server'[s] = "up"
      /\ server[s] = "up" => server'[s] = "closing"
  BY DEF Start, Exit, Goto, TypeOK, dirs, sessions
<1>2. TypeOK'
  BY <1>1 DEF TypeOK
<1>3. PhaseInv'
  BY <1>1 DEF PhaseInv, Running, Adding
<1>4. PlaceInv' /\ AddressInv'
  BY <1>1 DEF PlaceInv, AddressInv, PhaseInv, Adding
<1>5. /\ OneBound' /\ BoundServerKnowsClients' /\ OneClientPerJail'
  BY <1>1 DEF OneBound, BoundServerKnowsClients, OneClientPerJail, Alive
<1>6. OwnedInv'
  BY <1>1 DEF OwnedInv, PhaseInv, Running, Adding, TypeOK
<1>7. AskedInv'
  BY <1>1 DEF AskedInv
<1> QED BY <1>2, <1>3, <1>4, <1>5, <1>6, <1>7

(* The port is free only when no child of any server runs.                 *)
LEMMA BindIInv ==
  ASSUME IInv, NEW s \in Servers, Bind(s)
  PROVE  IInv'
<1> USE DEF IInv
<1>1. /\ UNCHANGED <<server, joining, c_map, jails, pending, client, at,
                     child>>
      /\ bound' = bound \cup {s} /\ stale' = jails /\ Running(s)
  BY DEF Bind, sessions
<1>2. /\ bound = {}
      /\ \A c \in Clients : ~Alive(c)
  BY RestartsAssumption
  DEF Bind, PortIsFree, Listens, HoldsSocket, PlaceInv, TypeOK, Alive
<1>3. TypeOK' /\ OneBound'
  BY <1>1, <1>2 DEF TypeOK, OneBound
<1>4. PhaseInv' /\ PlaceInv' /\ AddressInv'
  BY <1>1 DEF PhaseInv, PlaceInv, AddressInv, Running
<1>5. BoundServerKnowsClients' /\ OneClientPerJail'
  BY <1>1, <1>2 DEF BoundServerKnowsClients, OneClientPerJail, Alive
<1>6. OwnedInv'
  BY <1>1, <1>2 DEF OwnedInv
<1>7. AskedInv'
  BY <1>1 DEF AskedInv
<1> QED BY <1>3, <1>4, <1>5, <1>6, <1>7

(* A server ends.                                                          *)
LEMMA EndIInv ==
  ASSUME IInv, NEW s \in Servers,
         BindFails(s) \/ Crash(s) \/ EraseJailDir(s)
  PROVE  IInv'
<1> USE DEF IInv
<1>1. /\ UNCHANGED <<stale, pending, client, at, child>>
      /\ jails' \in {jails, {}}
      /\ \E how \in {"closed", "crashed"} : EndServer(s, how)
  BY DEF BindFails, Crash, EraseJailDir, dirs, sessions
<1>2. /\ server' \in [Servers -> Adding \cup
                        {"new", "up", "closing", "closed", "crashed"}]
      /\ bound' = bound \ {s}
      /\ joining' \in [Servers -> Clients \cup {NoClient}]
      /\ c_map' \in [Servers -> SUBSET Clients]
      /\ server'[s] \in {"closed", "crashed"}
      /\ joining'[s] = NoClient /\ c_map'[s] = {}
      /\ \A t \in Servers : t # s =>
           /\ server'[t] = server[t]
           /\ joining'[t] = joining[t] /\ c_map'[t] = c_map[t]
  BY <1>1 DEF EndServer, TypeOK
<1>3. TypeOK' /\ OneBound'
  BY <1>1, <1>2 DEF TypeOK, OneBound
<1>4. PhaseInv'
  BY <1>1, <1>2, RestartsAssumption DEF PhaseInv, Running, Adding
<1>5. PlaceInv' /\ AddressInv'
  BY <1>1, <1>2, RestartsAssumption DEF PlaceInv, AddressInv
<1>6. BoundServerKnowsClients' /\ OneClientPerJail'
  BY <1>1, <1>2 DEF BoundServerKnowsClients, OneClientPerJail, Alive, TypeOK
<1>7. OwnedInv'
  BY <1>1, <1>2 DEF OwnedInv, TypeOK
<1>8. AskedInv'
  BY <1>1, <1>2 DEF AskedInv
<1> QED BY <1>3, <1>4, <1>5, <1>6, <1>7, <1>8

(* The one server that has the port lets a client in.                      *)
LEMMA AcceptIInv ==
  ASSUME IInv, NEW s \in Servers, NEW c \in Clients, Accept(s, c)
  PROVE  IInv'
<1> USE DEF IInv
<1>1. /\ UNCHANGED <<bound, c_map, jails, stale, at, child>>
      /\ s \in bound /\ at[c] = s /\ c \in pending
      /\ \A d \in c_map[s] : Ip[d] # Ip[c]
      /\ server[s] = "up" /\ server'[s] = "populate" /\ joining'[s] = c
      /\ pending' = pending \ {c}
      /\ server' \in [Servers -> Adding \cup
                        {"new", "up", "closing", "closed", "crashed"}]
      /\ joining' \in [Servers -> Clients \cup {NoClient}]
      /\ \A t \in Servers : t # s =>
           server'[t] = server[t] /\ joining'[t] = joining[t]
  BY DEF Accept, Goto, TypeOK, dirs, Adding
<1>2. /\ client' \in [Clients -> {"idle", "asking", "told", "listening",
                                 "shell", "left"}]
      /\ \A d \in Clients : client'[d] = "idle" <=> client[d] = "idle"
  BY DEF Accept, TypeOK
<1>3. TypeOK'
  BY <1>1, <1>2 DEF TypeOK
<1>4. PhaseInv'
  BY <1>1 DEF PhaseInv, Running, Adding
<1>5. child[c] = "none" /\ joining[s] \notin Clients
  BY <1>1 DEF PlaceInv, PhaseInv, Adding
<1>6. PlaceInv'
  BY <1>1, <1>2, <1>5 DEF PlaceInv, PhaseInv, Adding
<1>7. AddressInv' /\ OneBound'
  BY <1>1 DEF AddressInv, OneBound, TypeOK
<1>8. BoundServerKnowsClients' /\ OneClientPerJail'
  BY <1>1, <1>5
  DEF BoundServerKnowsClients, OneClientPerJail, Alive, OneBound, TypeOK
<1>9. OwnedInv'
  BY <1>1, <1>5 DEF OwnedInv, OneBound
<1>10. AskedInv'
  BY <1>1 DEF AskedInv
<1> QED BY <1>3, <1>4, <1>6, <1>7, <1>8, <1>9, <1>10

(* The jail is built, and the child forked, or the server gives up.        *)
LEMMA BuildIInv ==
  ASSUME IInv, NEW s \in Servers,
         PopulateJail(s) \/ PopulateFails(s) \/ ForkFails(s)
  PROVE  IInv'
<1> USE DEF IInv
<1> DEFINE j == joining[s]
<1>1. s \in bound /\ server[s] \in {"populate", "fork"}
  BY DEF PopulateJail, PopulateFails, ForkFails, Goto, PhaseInv, Adding
<1>2. j \in Clients /\ JailOf(j) \in Addresses /\ child[j] = "none"
  BY <1>1, AddressType DEF PhaseInv, Adding, PlaceInv, JailOf
<1>3. /\ UNCHANGED <<bound, c_map, stale, pending, client, at, child>>
      /\ server' \in [Servers -> Adding \cup
                        {"new", "up", "closing", "closed", "crashed"}]
      /\ joining' \in [Servers -> Clients \cup {NoClient}]
      /\ \/ server'[s] = "fork" /\ joining' = joining
         \/ server'[s] = "closing" /\ joining'[s] = NoClient
      /\ \A t \in Servers : t # s =>
           server'[t] = server[t] /\ joining'[t] = joining[t]
      /\ \/ jails' = jails
         \/ jails' = jails \cup {JailOf(j)}
  BY DEF PopulateJail, PopulateFails, ForkFails, Goto, TypeOK, dirs, sessions,
         Adding
<1>4. TypeOK'
  BY <1>2, <1>3 DEF TypeOK
<1>5. PhaseInv'
  BY <1>1, <1>2, <1>3, RestartsAssumption DEF PhaseInv, Running, Adding
<1>6. PlaceInv'
  BY <1>1, <1>2, <1>3, RestartsAssumption DEF PlaceInv
<1>7. AddressInv' /\ OneBound'
  BY <1>3, RestartsAssumption DEF AddressInv, OneBound
<1>8. BoundServerKnowsClients' /\ OneClientPerJail'
  BY <1>1, <1>2, <1>3
  DEF BoundServerKnowsClients, OneClientPerJail, Alive, OneBound, TypeOK
<1>9. server'[s] = "fork" => server[s] = "populate"
  BY RestartsAssumption
  DEF PopulateJail, PopulateFails, ForkFails, Goto, TypeOK
<1>10. OwnedInv'
  BY <1>1, <1>2, <1>3, <1>9 DEF OwnedInv, OneBound
<1>11. AskedInv'
  BY <1>1, <1>3 DEF AskedInv
<1> QED BY <1>4, <1>5, <1>6, <1>7, <1>8, <1>10, <1>11

(* A child is born that no other client's of its address is beside.        *)
LEMMA ForkIInv ==
  ASSUME IInv, NEW s \in Servers, Fork(s)
  PROVE  IInv'
<1> USE DEF IInv
<1> DEFINE j == joining[s]
<1>1. /\ UNCHANGED <<bound, joining, c_map, jails, stale, pending, client, at>>
      /\ s \in bound /\ server[s] = "fork" /\ server'[s] = "wait"
      /\ server' \in [Servers -> Adding \cup
                        {"new", "up", "closing", "closed", "crashed"}]
      /\ \A t \in Servers : t # s => server'[t] = server[t]
  BY DEF Fork, Goto, PhaseInv, Adding, TypeOK, dirs
<1>2. j \in Clients /\ child[j] = "none" /\ at[j] = s /\ j \notin pending
  BY <1>1 DEF PhaseInv, Adding, PlaceInv
<1>3. /\ child' \in [Clients -> {"none", "setup", "shell", "exited", "killed"}]
      /\ child'[j] = "setup"
      /\ \A d \in Clients : d # j => child'[d] = child[d]
  BY <1>2 DEF Fork, TypeOK
<1>4. client[j] # "idle"
  BY <1>2, RestartsAssumption DEF PlaceInv
<1>5. \A d \in Clients : Alive(d) => JailOf(d) # JailOf(j)
  <2> SUFFICES ASSUME NEW d \in Clients, Alive(d) PROVE Ip[d] # Ip[j]
    BY DEF JailOf
  <2>1. d # j /\ d \in c_map[s]
    BY <1>1, <1>2 DEF BoundServerKnowsClients, Alive
  <2> QED BY <2>1, <1>2 DEF AddressInv
<1>6. TypeOK' /\ OneBound'
  BY <1>1, <1>3 DEF TypeOK, OneBound
<1>7. PhaseInv'
  BY <1>1 DEF PhaseInv, Running, Adding
<1>8. \A t \in Servers : joining[t] = j => t = s
  BY <1>2 DEF PlaceInv
<1>9. PlaceInv'
  BY <1>1, <1>2, <1>3, <1>4, <1>8 DEF PlaceInv
<1>10. AddressInv'
  BY <1>1 DEF AddressInv
<1>11. BoundServerKnowsClients'
  BY <1>1, <1>2, <1>3 DEF BoundServerKnowsClients, Alive, OneBound
<1>12. OneClientPerJail'
  BY <1>1, <1>3, <1>5 DEF OneClientPerJail, Alive, JailOf
<1>13. OwnedInv'
  BY <1>1 DEF OwnedInv, TypeOK
<1>14. AskedInv'
  BY <1>1 DEF AskedInv
<1> QED BY <1>6, <1>7, <1>9, <1>10, <1>11, <1>12, <1>13, <1>14

(* The server goes on once its child has reported or died.                 *)
LEMMA CheckIInv ==
  ASSUME IInv, NEW s \in Servers, Insert(s) \/ Reject(s) \/ EndOfPipe(s)
  PROVE  IInv'
<1> USE DEF IInv
<1> DEFINE j == joining[s]
<1>1. /\ UNCHANGED <<bound, stale, pending, client, at, child>>
      /\ s \in bound /\ server[s] = "wait" /\ server'[s] \in {"up", "closing"}
      /\ server' \in [Servers -> Adding \cup
                        {"new", "up", "closing", "closed", "crashed"}]
      /\ joining' \in [Servers -> Clients \cup {NoClient}]
      /\ joining'[s] = NoClient
      /\ \A t \in Servers : t # s =>
           server'[t] = server[t] /\ joining'[t] = joining[t]
  BY DEF Insert, Reject, EndOfPipe, Goto, PhaseInv, Adding, TypeOK, dirs,
         sessions
<1>2. /\ j \in Clients /\ at[j] = s /\ j \notin pending /\ j \notin c_map[s]
      /\ JailOf(j) \in Addresses
  BY <1>1, AddressType DEF PhaseInv, Adding, PlaceInv, JailOf
<1>3. TypeOK' /\ PhaseInv' /\ OneBound'
  <2>1. c_map' \in [Servers -> SUBSET Clients] /\ jails' \subseteq jails
    BY <1>2 DEF Insert, Reject, EndOfPipe, TypeOK, dirs
  <2>2. \A t \in Servers : t \notin bound => c_map'[t] = c_map[t]
    BY <1>1 DEF Insert, Reject, EndOfPipe, TypeOK
  <2> QED
    BY <1>1, <2>1, <2>2, RestartsAssumption
    DEF TypeOK, PhaseInv, OneBound, Running, Adding
<1>6. AskedInv'
  BY <1>1 DEF AskedInv
<1>4. CASE Insert(s)
  <2>1. /\ jails' = jails /\ server'[s] = "up"
        /\ c_map'[s] = c_map[s] \cup {j}
        /\ \A t \in Servers : t # s => c_map'[t] = c_map[t]
    BY <1>4, <1>1 DEF Insert, Goto, TypeOK, dirs
  <2>2. PlaceInv'
    BY <1>1, <1>2, <2>1, RestartsAssumption DEF PlaceInv
  <2>3. AddressInv'
    BY <1>1, <1>2, <2>1, RestartsAssumption DEF AddressInv, TypeOK
  <2>4. BoundServerKnowsClients' /\ OneClientPerJail'
    BY <1>1, <2>1
    DEF BoundServerKnowsClients, OneClientPerJail, Alive, OneBound, TypeOK
  <2>5. OwnedInv'
    BY <1>1, <1>2, <2>1 DEF OwnedInv, OneBound
  <2> QED BY <1>3, <1>6, <2>2, <2>3, <2>4, <2>5
<1>5. CASE Reject(s) \/ EndOfPipe(s)
  <2>1. /\ UNCHANGED c_map
        /\ ~Alive(j)
        /\ server'[s] = "up" => jails' = jails \ {JailOf(j)}
    BY <1>5, <1>1 DEF Reject, EndOfPipe, Goto, Alive, TypeOK
  <2>2. PlaceInv' /\ AddressInv'
    BY <1>1, <2>1, RestartsAssumption DEF PlaceInv, AddressInv
  <2>3. BoundServerKnowsClients' /\ OneClientPerJail'
    BY <1>1, <1>2, <2>1
    DEF BoundServerKnowsClients, OneClientPerJail, Alive, OneBound, TypeOK
  <2>4. OwnedInv'
    BY <1>1, <2>1 DEF OwnedInv, OneBound
  <2> QED BY <1>3, <1>6, <2>2, <2>3, <2>4
<1> QED BY <1>4, <1>5

(* A client that is dropped, or has gone, leaves the map and its jail.      *)
LEMMA DropIInv ==
  ASSUME IInv, NEW s \in Servers, NEW c \in Clients,
         Drop(s, c) \/ Forget(s, c) \/ Sweep(s, c)
  PROVE  IInv'
<1> USE DEF IInv
<1>1. /\ UNCHANGED <<server, bound, joining, stale, pending, client, at>>
      /\ c \in c_map[s] /\ jails' = jails \ {JailOf(c)}
      /\ c_map' \in [Servers -> SUBSET Clients]
      /\ c_map'[s] \in {c_map[s], c_map[s] \ {c}}
      /\ \A t \in Servers : t # s => c_map'[t] = c_map[t]
  BY DEF Drop, Forget, Sweep, TypeOK, servers, sessions
<1>2. /\ s \in bound /\ at[c] = s /\ c \notin pending /\ client[c] # "idle"
      /\ \A t \in Servers : joining[t] # c
  BY <1>1, RestartsAssumption DEF PhaseInv, PlaceInv
<1>3. /\ child' \in [Clients -> {"none", "setup", "shell", "exited", "killed"}]
      /\ child'[c] \in {child[c], "exited"}
      /\ \A d \in Clients : d # c => child'[d] = child[d]
      /\ c_map'[s] # c_map[s] => ~Alive(c)'
  BY DEF Drop, Forget, Sweep, TypeOK, Alive, servers, sessions
<1>4. TypeOK' /\ OneBound'
  BY <1>1, <1>3 DEF TypeOK, OneBound
<1>5. PhaseInv'
  BY <1>1, <1>2 DEF PhaseInv, Running
<1>6. PlaceInv'
  BY <1>1, <1>2, <1>3 DEF PlaceInv
<1>7. AddressInv'
  BY <1>1 DEF AddressInv
<1>8. BoundServerKnowsClients' /\ OneClientPerJail'
  BY <1>1, <1>2, <1>3
  DEF BoundServerKnowsClients, OneClientPerJail, Alive, OneBound, TypeOK
<1>9. OwnedInv'
  BY <1>1, <1>2 DEF OwnedInv, OneBound, TypeOK
<1>10. AskedInv'
  BY <1>1 DEF AskedInv
<1> QED BY <1>4, <1>5, <1>6, <1>7, <1>8, <1>9, <1>10

(* A client, or its child, goes on: nothing of a server changes.           *)
LEMMA ClientIInv ==
  ASSUME IInv, NEW c \in Clients, Client(c) \/ Child(c)
  PROVE  IInv'
<1> USE DEF IInv
<1>1. UNCHANGED <<server, bound, joining, c_map, jails, stale>>
  BY DEF Client, Ask, RunNetcat, Leave, Child, ChildConnects, ChildFails,
         ShellEnds, servers, dirs
<1>2. /\ client' \in [Clients -> {"idle", "asking", "told", "listening",
                                 "shell", "left"}]
      /\ child' \in [Clients -> {"none", "setup", "shell", "exited", "killed"}]
      /\ at' \in [Clients -> Servers \cup {NoServer}]
      /\ pending' \subseteq Clients
      /\ Alive(c)' => Alive(c)
      /\ child'[c] = "none" <=> child[c] = "none"
      /\ client'[c] # "idle"
      /\ \A d \in Clients : d # c => /\ child'[d] = child[d]
                                     /\ client'[d] = client[d]
                                     /\ at'[d] = at[d]
                                     /\ d \in pending' <=> d \in pending
  BY DEF Client, Ask, RunNetcat, Leave, Child, ChildConnects, ChildFails,
         ShellEnds, TypeOK, Alive, PlaceInv
<1>3. \/ at'[c] = at[c] /\ at[c] \in Servers /\ pending' = pending
      \/ at[c] = NoServer /\ at'[c] \in Servers /\ child[c] = "none"
  BY RestartsAssumption
  DEF Client, Ask, RunNetcat, Leave, Child, ChildConnects, ChildFails,
      ShellEnds, TypeOK, PlaceInv
<1>8. AskedInv'
  <2>1. CASE Ask(c)
    BY <1>1, <1>2, <2>1 DEF Ask, Listens, HoldsSocket, AskedInv
  <2>2. CASE ~Ask(c)
    <3>1. at' = at
      BY <2>2
      DEF Client, Ask, RunNetcat, Leave, Child, ChildConnects, ChildFails,
          ShellEnds
    <3> QED BY <1>1, <3>1 DEF AskedInv
  <2> QED BY <2>1, <2>2
<1>4. TypeOK' /\ OneBound'
  BY <1>1, <1>2 DEF TypeOK, OneBound
<1>5. PhaseInv' /\ AddressInv' /\ OwnedInv'
  BY <1>1 DEF PhaseInv, AddressInv, OwnedInv, Running
<1>6. PlaceInv'
  BY <1>1, <1>2, <1>3, RestartsAssumption DEF PlaceInv
<1>7. BoundServerKnowsClients' /\ OneClientPerJail'
  BY <1>1, <1>2, <1>3
  DEF BoundServerKnowsClients, OneClientPerJail, Alive, TypeOK
<1> QED BY <1>4, <1>5, <1>6, <1>7, <1>8

(* Every step keeps the invariant.                                         *)
LEMMA StepIInv ==
  ASSUME IInv, [Next]_vars
  PROVE  IInv'
<1>1. ASSUME NEW s \in Servers, Server(s)
      PROVE  IInv'
  BY <1>1, MoveIInv, BindIInv, EndIInv, AcceptIInv, BuildIInv, ForkIInv,
     CheckIInv, DropIInv
  DEF Server
<1>2. ASSUME NEW c \in Clients, Client(c) \/ Child(c)
      PROVE  IInv'
  BY <1>2, ClientIInv
<1>3. CASE UNCHANGED vars
  BY <1>3
  DEF vars, servers, dirs, sessions, IInv, TypeOK, PhaseInv, PlaceInv,
      AddressInv, AskedInv, OneBound, BoundServerKnowsClients,
      OneClientPerJail, OwnedInv, Running, Alive
<1> QED BY <1>1, <1>2, <1>3 DEF Next, Ended

THEOREM RestartsInvariant == Spec => []IInv
BY InitIInv, StepIInv, PTL DEF Spec

-----------------------------------------------------------------------------
(* What follows.                                                           *)

(* Every variable of Restarts keeps its type.                              *)
THEOREM RestartsTypeCorrect == Spec => []TypeOK
BY RestartsInvariant, PTL DEF IInv

(* Whoever has the port knows every client that runs, since a client that  *)
(* an earlier server left behind keeps the port (Server.cpp:127, 258).     *)
THEOREM ClientsKnown == Spec => []BoundServerKnowsClients
BY RestartsInvariant, PTL DEF IInv

(* Two clients that run never share a jail, whatever servers have crashed  *)
(* (Server.cpp:301; Utils.cpp:83).                                         *)
THEOREM NoJailShared == Spec => []OneClientPerJail
BY RestartsInvariant, PTL DEF IInv

(* No path on which a client is not let in leaves its jail behind          *)
(* (Server.cpp:283; Connection.cpp:32-35).                                 *)
THEOREM NoJailForgotten == Spec => []JailsAreOwned
<1>1. IInv => JailsAreOwned
  BY DEF IInv, OwnedInv, JailsAreOwned
<1> QED BY <1>1, RestartsInvariant, PTL

(* A server that has the port takes no jail of a client that goes on       *)
(* running, not even of an earlier server's (Server.cpp:96-100, 283, 347). *)
THEOREM JailsSpared == Spec => RunningClientsKeepJails
<1> DEFINE Taken(c) == Alive(c) /\ Alive(c)' /\ JailOf(c) \in jails \ jails'
           Spares == \A c \in Clients : Taken(c) =>
                       \E s \in Servers \ bound :
                         server[s] = "closing" /\ server'[s] = "closed"
<1>1. ASSUME IInv, [Next]_vars
      PROVE  Spares
  <2> SUFFICES ASSUME NEW c \in Clients, Taken(c)
               PROVE  \E s \in Servers \ bound :
                        server[s] = "closing" /\ server'[s] = "closed"
    OBVIOUS
  <2> USE <1>1 DEF IInv
  <2>1. ASSUME NEW s \in Servers, Reject(s)
        PROVE  FALSE
    <3>1. /\ s \in bound /\ joining[s] \in Clients
          /\ ~Alive(joining[s]) /\ JailOf(joining[s]) = JailOf(c)
      BY <2>1 DEF Reject, Goto, PhaseInv, Adding, Alive
    <3> QED BY <3>1 DEF BoundServerKnowsClients, AddressInv, JailOf
  <2>2. ASSUME NEW s \in Servers, NEW d \in Clients,
               Drop(s, d) \/ Forget(s, d) \/ Sweep(s, d)
        PROVE  FALSE
    <3>1. /\ s \in bound /\ d \in c_map[s] /\ JailOf(d) = JailOf(c)
          /\ d # c
      BY <2>2 DEF Drop, Forget, Sweep, PhaseInv, Alive, TypeOK
    <3> QED BY <3>1 DEF BoundServerKnowsClients, AddressInv, JailOf
  <2>3. ASSUME NEW s \in Servers, EraseJailDir(s)
        PROVE  \E t \in Servers \ bound :
                 server[t] = "closing" /\ server'[t] = "closed"
    <3>1. s \notin bound
      BY <2>3
      DEF EraseJailDir, BoundServerKnowsClients, PhaseInv, Adding
    <3> QED BY <2>3, <3>1 DEF EraseJailDir, EndServer, TypeOK
  <2>4. PICK s \in Servers :
          \/ Reject(s) \/ EraseJailDir(s)
          \/ \E d \in Clients : Drop(s, d) \/ Forget(s, d) \/ Sweep(s, d)
    <3>1. jails' # jails /\ ~ jails \subseteq jails'
      OBVIOUS
    <3>2. ASSUME NEW s \in Servers, Server(s)
          PROVE  \/ Reject(s) \/ EraseJailDir(s)
                 \/ \E d \in Clients : Drop(s, d) \/ Forget(s, d) \/ Sweep(s, d)
      BY <3>1, <3>2
      DEF Server, Start, Bind, BindFails, Crash, Exit, PopulateJail,
          PopulateFails, Fork, ForkFails, Insert, EndOfPipe, Accept, dirs
    <3>3. ASSUME NEW d \in Clients, Client(d) \/ Child(d)
          PROVE  FALSE
      BY <3>1, <3>3
      DEF Client, Child, Ask, RunNetcat, Leave, ChildConnects, ChildFails,
          ShellEnds, dirs
    <3> QED BY <3>1, <3>2, <3>3 DEF Next, Ended, vars, dirs
  <2> QED BY <2>1, <2>2, <2>3, <2>4
<1>2. [][Spares]_vars => RunningClientsKeepJails
  BY DEF RunningClientsKeepJails
<1> QED BY <1>1, <1>2, RestartsInvariant, PTL DEF Spec

-----------------------------------------------------------------------------
(* Each server is a JailSessions of its own.                               *)

(* What an instance of JailSessions sees of a server.                      *)
Session(s) == [i \in Addresses |->
                 IF joining[s] \in Clients /\ Ip[joining[s]] = i
                 THEN "joining"
                 ELSE IF \E c \in c_map[s] : Ip[c] = i THEN "connected"
                 ELSE "none"]
Living(s) == {Ip[c] : c \in {d \in Clients : Alive(d) /\ at[d] = s}}
Status(s) == IF server[s] \in {"closed", "crashed"} THEN server[s] ELSE "up"

View(s) == <<Session(s), Living(s), Status(s)>>

LEMMA Views == \A s \in Servers : Sessions(s)!vars = View(s)
BY DEF Sessions!vars, View, Session, Living, Status

LEMMA InitSessions ==
  ASSUME Init, NEW s \in Servers
  PROVE  Sessions(s)!Init
BY RestartsAssumption
DEF Init, Sessions!Init, Sessions!NoSessions, Alive, Adding

(* What does not touch a server's client, map or children does not show.   *)
LEMMA SameSession ==
  ASSUME NEW s \in Servers,
         joining'[s] = joining[s], c_map'[s] = c_map[s]
  PROVE  Session(s)' = Session(s)
BY DEF Session

LEMMA SameLiving ==
  ASSUME NEW s \in Servers,
         \A c \in Clients :
           (Alive(c) /\ at[c] = s)' <=> Alive(c) /\ at[c] = s
  PROVE  Living(s)' = Living(s)
BY DEF Living

(* Who lives at a server that has a client is of the server.               *)
LEMMA LivingOf ==
  ASSUME IInv, NEW s \in bound, NEW c \in Clients, ~Alive(c),
         c \in c_map[s] \/ joining[s] = c
  PROVE  Ip[c] \notin Living(s)
<1> SUFFICES ASSUME NEW d \in Clients, Alive(d), at[d] = s, Ip[d] = Ip[c]
             PROVE  FALSE
  BY DEF Living
<1>1. s \in Servers /\ d # c
  BY DEF IInv, TypeOK
<1>2. d \in c_map[s] \/ joining[s] = d
  BY DEF IInv, BoundServerKnowsClients
<1> QED BY <1>1, <1>2 DEF IInv, AddressInv

(* The steps by which a server begins or stops to have a client.           *)
LEMMA JoinStep ==
  ASSUME IInv, NEW s \in Servers, NEW c \in Clients, Accept(s, c)
  PROVE  Sessions(s)!Join(Ip[c])
<1>1. /\ joining[s] \notin Clients /\ joining'[s] = c
      /\ c_map' = c_map /\ child' = child /\ at' = at
      /\ server[s] = "up" /\ server'[s] = "populate"
      /\ \A d \in c_map[s] : Ip[d] # Ip[c]
  BY DEF Accept, Goto, IInv, PhaseInv, Adding, TypeOK
<1>2. Ip[c] \in Addresses
  BY AddressType
<1> QED BY <1>1, <1>2 DEF Sessions!Join, Sessions!Change, Alive

LEMMA RejectStep ==
  ASSUME IInv, NEW s \in Servers, NEW j \in Clients, joining[s] = j,
         \/ PopulateFails(s) \/ ForkFails(s)
         \/ Reject(s) \/ EndOfPipe(s)
  PROVE  Sessions(s)!Reject(Ip[j])
<1>1. /\ s \in bound /\ j \in Clients /\ ~Alive(j)
      /\ joining'[s] = NoClient
      /\ c_map' = c_map /\ child' = child /\ at' = at
      /\ server[s] \in Adding /\ server'[s] \in {"up", "closing"}
  BY DEF PopulateFails, ForkFails, Reject, EndOfPipe, Goto, IInv, PhaseInv,
         PlaceInv, Adding, Alive, TypeOK, sessions
<1>2. Ip[j] \in Addresses /\ Ip[j] \notin Living(s)
  BY <1>1, AddressType, LivingOf
<1>3. \A d \in c_map[s] : Ip[d] # Ip[j]
  BY <1>1 DEF IInv, AddressInv, TypeOK
<1> QED
  BY <1>1, <1>2, <1>3, RestartsAssumption
  DEF Sessions!Reject, Sessions!Change, Alive, Living, Adding

LEMMA StartStep ==
  ASSUME IInv, NEW s \in Servers, NEW j \in Clients, joining[s] = j, Fork(s)
  PROVE  Sessions(s)!Start(Ip[j])
<1>1. /\ s \in bound /\ j \in Clients /\ ~Alive(j) /\ at[j] = s
      /\ joining' = joining /\ c_map' = c_map /\ at' = at
      /\ server[s] = "fork" /\ server'[s] = "wait"
  BY DEF Fork, Goto, IInv, PhaseInv, PlaceInv, Adding, Alive, TypeOK, dirs
<1>2. Ip[j] \in Addresses /\ Ip[j] \notin Living(s)
  BY <1>1, AddressType, LivingOf
<1>3. \A d \in Clients : Alive(d)' <=> Alive(d) \/ d = j
  BY <1>1 DEF Fork, Alive, IInv, TypeOK
<1>4. Living(s)' = Living(s) \cup {Ip[j]}
  BY <1>1, <1>3 DEF Living
<1>5. Session(s)' = Session(s) /\ Session(s)[Ip[j]] = "joining"
  BY <1>1, <1>2, SameSession DEF Session
<1> QED
  BY <1>1, <1>2, <1>4, <1>5
  DEF Sessions!Start, Session, Living

LEMMA AdmitStep ==
  ASSUME IInv, NEW s \in Servers, NEW j \in Clients, joining[s] = j, Insert(s)
  PROVE  Sessions(s)!Admit(Ip[j])
<1>1. /\ j \in Clients
      /\ joining'[s] = NoClient
      /\ c_map'[s] = c_map[s] \cup {j} /\ child' = child /\ at' = at
      /\ server[s] = "wait" /\ server'[s] = "up"
  BY DEF Insert, Goto, IInv, PhaseInv, Adding, TypeOK, sessions
<1>2. Ip[j] \in Addresses
  BY <1>1, AddressType
<1> QED
  BY <1>1, <1>2, RestartsAssumption DEF Sessions!Admit, Sessions!Change, Alive

LEMMA LeaveStep ==
  ASSUME IInv, NEW s \in Servers, NEW c \in Clients,
         Drop(s, c) \/ Forget(s, c)
  PROVE  Sessions(s)!Leave(Ip[c])
<1>1. /\ s \in bound /\ c \in c_map[s] /\ at[c] = s
      /\ joining' = joining /\ joining[s] \notin Clients
      /\ c_map'[s] = c_map[s] \ {c}
      /\ at' = at /\ server' = server
      /\ server[s] \notin {"closed", "crashed"}
      /\ ~Alive(c)'
      /\ \A d \in Clients : Alive(d)' => Alive(d)
  BY DEF Drop, Forget, IInv, PhaseInv, PlaceInv, Adding, Alive, TypeOK,
         sessions
<1>2. Ip[c] \in Addresses
  BY AddressType
<1>3. \A d \in c_map[s] : Ip[d] = Ip[c] => d = c
  BY <1>1 DEF IInv, AddressInv
<1>4. \A d \in Clients : Alive(d) /\ at[d] = s /\ Ip[d] = Ip[c] => d = c
  BY <1>1, <1>3 DEF IInv, BoundServerKnowsClients, AddressInv
<1>5. Living(s)' \in SUBSET (Living(s) \ {Ip[c]})
  BY <1>1, <1>4 DEF Living
<1>6. /\ Session(s)[Ip[c]] = "connected"
      /\ Session(s)' = [Session(s) EXCEPT ![Ip[c]] = "none"]
  BY <1>1, <1>2, <1>3 DEF Session, IInv, TypeOK
<1> QED
  BY <1>1, <1>5, <1>6
  DEF Sessions!Leave, Sessions!Change, Session, Living

LEMMA EndStep ==
  ASSUME IInv, NEW s \in Servers,
         BindFails(s) \/ Crash(s) \/ EraseJailDir(s)
  PROVE  Sessions(s)!Crash \/ Sessions(s)!Close
<1>1. /\ Running(s)
      /\ server'[s] \in {"closed", "crashed"}
      /\ joining'[s] = NoClient /\ c_map'[s] = {}
      /\ child' = child /\ at' = at
  BY DEF BindFails, Crash, EraseJailDir, EndServer, IInv, TypeOK, Running,
         sessions
<1>2. Session(s)' = [i \in Addresses |-> "none"] /\ Living(s)' = Living(s)
  BY <1>1, RestartsAssumption, SameLiving DEF Session, Alive
<1>3. Status(s) = "up"
  BY <1>1 DEF Status, Running, Adding
<1>4. CASE BindFails(s) \/ Crash(s)
  <2>1. Status(s)' = "crashed"
    BY <1>1, <1>4 DEF BindFails, Crash, EndServer, IInv, TypeOK, Status
  <2> QED
    BY <1>2, <1>3, <2>1
    DEF Sessions!Crash, Sessions!NoSessions, Session, Living, Status
<1>5. CASE EraseJailDir(s)
  <2>1. /\ Status(s)' = "closed"
        /\ joining[s] \notin Clients /\ c_map[s] = {}
    BY <1>5
    DEF EraseJailDir, EndServer, IInv, TypeOK, PhaseInv, Adding, Status
  <2>2. server[s] = "closing"
    BY <1>5 DEF EraseJailDir
  <2>3. ASSUME NEW c \in Clients, Alive(c), at[c] = s
        PROVE  FALSE
    BY <2>1, <2>2, <2>3 DEF IInv, AskedInv, BoundServerKnowsClients
  <2>4. Living(s) = {} /\ Session(s) = [i \in Addresses |-> "none"]
    BY <2>1, <2>3 DEF Living, Session
  <2> QED
    BY <1>2, <1>3, <2>1, <2>4
    DEF Sessions!Close, Sessions!NoSessions, Session, Living, Status
<1> QED BY <1>4, <1>5

LEMMA DieStep ==
  ASSUME IInv, NEW s \in Servers, NEW c \in Clients, at[c] = s,
         ChildFails(c) \/ ShellEnds(c)
  PROVE  Sessions(s)!Die(Ip[c])
<1>1. /\ UNCHANGED <<server, joining, c_map, at>>
      /\ Alive(c) /\ ~Alive(c)'
      /\ \A d \in Clients : d # c => (Alive(d)' <=> Alive(d))
  BY DEF ChildFails, ShellEnds, Alive, IInv, TypeOK, servers
<1>2. \A d \in Clients : Alive(d) /\ Ip[d] = Ip[c] => d = c
  BY <1>1 DEF IInv, OneClientPerJail, JailOf
<1>3. Living(s)' = Living(s) \ {Ip[c]} /\ Ip[c] \in Living(s)
  BY <1>1, <1>2 DEF Living
<1>4. Session(s)' = Session(s)
  BY <1>1, SameSession
<1> QED BY <1>1, <1>3, <1>4 DEF Sessions!Die, Session, Living

(* What a server, its clients or its children do does not show in another. *)
LEMMA OtherServer ==
  ASSUME IInv, NEW s \in Servers, NEW t \in Servers, t # s, Server(t)
  PROVE  View(s)' = View(s)
<1>1. /\ joining'[s] = joining[s] /\ c_map'[s] = c_map[s]
      /\ server'[s] = server[s] /\ at' = at
  BY DEF Server, Start, Bind, BindFails, Crash, Exit, EraseJailDir, EndServer,
         Accept, PopulateJail, PopulateFails, Fork, ForkFails, Insert, Reject,
         EndOfPipe, Drop, Forget, Sweep, Goto, servers, sessions, IInv, TypeOK
<1>2. \A c \in Clients : at[c] = s => child'[c] = child[c]
  <2>1. CASE Fork(t)
    <3>1. joining[t] \in Clients /\ at[joining[t]] = t
      BY <2>1 DEF Fork, Goto, IInv, PhaseInv, PlaceInv, Adding
    <3> QED BY <2>1, <3>1 DEF Fork, IInv, TypeOK
  <2>2. ASSUME NEW d \in Clients, Drop(t, d)
        PROVE  \A c \in Clients : at[c] = s => child'[c] = child[c]
    BY <2>2 DEF Drop, IInv, PlaceInv, TypeOK
  <2>3. CASE ~Fork(t) /\ \A d \in Clients : ~Drop(t, d)
    BY <2>3
    DEF Server, Start, Bind, BindFails, Crash, Exit, EraseJailDir, Accept,
        PopulateJail, PopulateFails, ForkFails, Insert, Reject, EndOfPipe,
        Forget, Sweep, sessions
  <2> QED BY <2>1, <2>2, <2>3
<1>3. Session(s)' = Session(s)
  BY <1>1, SameSession
<1>4. Living(s)' = Living(s)
  BY <1>1, <1>2, SameLiving DEF Alive
<1> QED BY <1>1, <1>3, <1>4 DEF View, Status

LEMMA QuietStep ==
  ASSUME IInv, NEW s \in Servers,
         \/ Start(s) \/ Bind(s) \/ Exit(s) \/ PopulateJail(s)
         \/ \E c \in Clients : Sweep(s, c)
  PROVE  View(s)' = View(s)
<1>1. UNCHANGED <<joining, c_map, at, child>> /\ Status(s)' = Status(s)
  BY DEF Start, Bind, Exit, PopulateJail, Sweep, Goto, servers, dirs,
         sessions, Status, IInv, TypeOK
<1> QED BY <1>1, SameSession, SameLiving DEF View, Alive

LEMMA ClientStep ==
  ASSUME IInv, NEW s \in Servers, NEW c \in Clients, Client(c) \/ Child(c)
  PROVE  Sessions(s)!Next \/ View(s)' = View(s)
<1>1. UNCHANGED <<server, joining, c_map>>
  BY DEF Client, Ask, RunNetcat, Leave, Child, ChildConnects, ChildFails,
         ShellEnds, servers
<1>2. CASE at[c] = s /\ (ChildFails(c) \/ ShellEnds(c))
  BY <1>2, DieStep, AddressType DEF Sessions!Next
<1>3. CASE ~ (at[c] = s /\ (ChildFails(c) \/ ShellEnds(c)))
  <2>1. \A d \in Clients :
          (Alive(d) /\ at[d] = s)' <=> Alive(d) /\ at[d] = s
    BY <1>3
    DEF Client, Ask, RunNetcat, Leave, Child, ChildConnects, ChildFails,
        ShellEnds, Alive, IInv, TypeOK, PlaceInv
  <2>2. Living(s)' = Living(s)
    BY <2>1, SameLiving
  <2> QED BY <1>1, <2>2, SameSession DEF View, Status
<1> QED BY <1>2, <1>3

LEMMA NextSessions ==
  ASSUME IInv, [Next]_vars, NEW s \in Servers
  PROVE  [Sessions(s)!Next]_(Sessions(s)!vars)
<1>1. Sessions(s)!vars = View(s) /\ Sessions(s)!vars' = View(s)'
  BY Views DEF Sessions!vars, View, Session, Living, Status
<1>2. ASSUME NEW t \in Servers, Server(t)
      PROVE  Sessions(s)!Next \/ View(s)' = View(s)
  <2>1. CASE t # s
    BY <1>2, <2>1, OtherServer
  <2>2. CASE t = s
    <3>1. CASE \E c \in Clients : Accept(s, c)
      BY <3>1, JoinStep, AddressType DEF Sessions!Next
    <3>2. CASE PopulateFails(s) \/ ForkFails(s) \/ Reject(s) \/ EndOfPipe(s)
      <4>1. PICK j \in Clients : joining[s] = j
        BY <3>2
        DEF PopulateFails, ForkFails, Reject, EndOfPipe, Goto, IInv, PhaseInv,
            Adding
      <4>2. Sessions(s)!Reject(Ip[j]) /\ Ip[j] \in Addresses
        BY <3>2, <4>1, RejectStep, AddressType
      <4> QED BY <4>2 DEF Sessions!Next
    <3>3. CASE Fork(s) \/ Insert(s)
      <4>1. PICK j \in Clients : joining[s] = j
        BY <3>3 DEF Fork, Insert, Goto, IInv, PhaseInv, Adding
      <4>2. /\ Sessions(s)!Start(Ip[j]) \/ Sessions(s)!Admit(Ip[j])
            /\ Ip[j] \in Addresses
        BY <3>3, <4>1, StartStep, AdmitStep, AddressType
      <4> QED BY <4>2 DEF Sessions!Next
    <3>4. CASE \E c \in Clients : Drop(s, c) \/ Forget(s, c)
      BY <3>4, LeaveStep, AddressType DEF Sessions!Next
    <3>5. CASE BindFails(s) \/ Crash(s) \/ EraseJailDir(s)
      BY <3>5, EndStep DEF Sessions!Next
    <3>6. CASE \/ Start(s) \/ Bind(s) \/ Exit(s) \/ PopulateJail(s)
               \/ \E c \in Clients : Sweep(s, c)
      BY <3>6, QuietStep
    <3> QED
      BY <1>2, <2>2, <3>1, <3>2, <3>3, <3>4, <3>5, <3>6 DEF Server
  <2> QED BY <2>1, <2>2
<1>3. CASE UNCHANGED vars
  <2>1. View(s)' = View(s)
    BY <1>3, SameSession, SameLiving
    DEF vars, servers, sessions, View, Status, Alive
  <2> QED BY <1>1, <2>1
<1> QED
  BY <1>1, <1>2, <1>3, ClientStep DEF Next, Ended

(* Servers that share a port and a jail path do not break what each of     *)
(* them, alone, keeps to (Server.cpp:48-51, 234-289).                      *)
THEOREM SessionsKept == Spec => EachServerKeepsSessions
<1>1. Init => \A s \in Servers : Sessions(s)!Init
  BY InitSessions
<1>2. IInv /\ [Next]_vars =>
        \A s \in Servers : [Sessions(s)!Next]_(Sessions(s)!vars)
  BY NextSessions
<1> QED
  BY <1>1, <1>2, RestartsInvariant, PTL DEF Spec, EachServerKeepsSessions

=============================================================================
