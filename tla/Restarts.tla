------------------------------ MODULE Restarts ------------------------------
(***************************************************************************)
(* Servers that are started again, or twice, over the same jail path and   *)
(* port; the children that a crash leaves behind; and the client's end of  *)
(* a session, the netcat that its child connects to.                       *)
(*                                                                         *)
(* ClientRegistry and Handshake follow one server through its threads;     *)
(* here its operations on a client are one action each, and each server    *)
(* is a JailSessions of its own.  What servers share is the port and the   *)
(* directories below the jail path.  A client is let in once at most, so   *)
(* that its child goes by its name.                                        *)
(***************************************************************************)

CONSTANTS
  Servers,     \* processes of remramd_server
  Clients,     \* processes of remramd_client
  Ip,          \* the address each of them comes from
  NoServer, NoClient

ASSUME RestartsAssumption ==
  /\ DOMAIN Ip = Clients
  /\ NoServer \notin Servers /\ NoClient \notin Clients

VARIABLES
  server,    \* where the main thread of a server is
  bound,     \* the servers whose receiving thread has got the port
  joining,   \* the client that a server is adding
  c_map,     \* Server::c_map: the clients a server knows
  jails,     \* the directories below the jail path
  stale,     \* history: those there were when the last server got the port
  pending,   \* the clients whose requests are queued
  client,    \* where a client is
  at,        \* the server a client has connected to, and its child is of
  child      \* where the child of a client is

servers  == <<server, bound, joining, c_map>>
dirs     == <<jails, stale>>
sessions == <<pending, client, at, child>>
vars == <<servers, dirs, sessions>>

-----------------------------------------------------------------------------

Addresses == {Ip[c] : c \in Clients}

(* Mutant: a jail for each client, and not for each address.               *)
JailOfClient(c) == c

JailOf(c) == Ip[c]

Alive(c) == child[c] \in {"setup", "shell"}

Adding == {"populate", "fork", "wait"}
Running(s) == server[s] \in Adding \cup {"up", "closing"}

(* Mutant: the listening socket is closed on exec.                         *)
HoldsSocketUntilExec(c) == child[c] = "setup"

(* A child inherits the server's listening socket, and keeps it in bash:   *)
(* nothing closes it, and it is not marked to be closed on exec.           *)
HoldsSocket(c) == Alive(c)

Listens(s) == s \in bound \/ \E c \in Clients : HoldsSocket(c) /\ at[c] = s

PortIsFree == \A s \in Servers : ~Listens(s)

Init ==
  /\ server = [s \in Servers |-> "new"]
  /\ bound = {}
  /\ joining = [s \in Servers |-> NoClient]
  /\ c_map = [s \in Servers |-> {}]
  /\ jails = {} /\ stale = {}
  /\ pending = {}
  /\ client = [c \in Clients |-> "idle"]
  /\ at = [c \in Clients |-> NoServer]
  /\ child = [c \in Clients |-> "none"]

Goto(s, from, to) ==
  server[s] = from /\ server' = [server EXCEPT ![s] = to]

-----------------------------------------------------------------------------
(* A server begins and ends.                                               *)

Start(s) ==
  /\ Goto(s, "new", "up")
  /\ UNCHANGED <<bound, joining, c_map, dirs, sessions>>

(* The receiving thread gets the port, while the prompt is up already.     *)
Bind(s) ==
  /\ Running(s) /\ s \notin bound
  /\ PortIsFree
  /\ bound' = bound \cup {s}
  /\ stale' = jails
  /\ UNCHANGED <<server, joining, c_map, jails, sessions>>

(* The process ends; whoever was queued, or is a child, is not asked.      *)
EndServer(s, how) ==
  /\ server' = [server EXCEPT ![s] = how]
  /\ bound' = bound \ {s}
  /\ joining' = [joining EXCEPT ![s] = NoClient]
  /\ c_map' = [c_map EXCEPT ![s] = {}]

(* The port may be refused for reasons of its own, such as connections of  *)
(* an earlier server that linger; exit runs no destructor of main's locals.*)
BindFails(s) ==
  /\ Running(s) /\ s \notin bound
  /\ EndServer(s, "crashed")
  /\ UNCHANGED <<dirs, sessions>>

Crash(s) ==
  /\ Running(s)
  /\ EndServer(s, "crashed")
  /\ UNCHANGED <<dirs, sessions>>

(* The operator's choice, or an exception that is caught in main: ~Server. *)
Exit(s) ==
  /\ Goto(s, "up", "closing")
  /\ UNCHANGED <<bound, joining, c_map, dirs, sessions>>

EraseJailDir(s) ==
  /\ server[s] = "closing"
  /\ c_map[s] = {}
  /\ jails' = {}
  /\ EndServer(s, "closed")
  /\ UNCHANGED <<stale, sessions>>

-----------------------------------------------------------------------------
(* A server adds a client.                                                 *)

(* Mutant: does not look whether there is a client of the address.         *)
AcceptDuplicate(s, c) ==
  /\ c \in pending /\ at[c] = s /\ s \in bound
  /\ Goto(s, "up", "populate")
  /\ joining' = [joining EXCEPT ![s] = c]
  /\ pending' = pending \ {c}
  /\ client' = IF client[c] = "asking" THEN [client EXCEPT ![c] = "told"]
                                       ELSE client
  /\ UNCHANGED <<bound, c_map, dirs, at, child>>

(* A request that is never accepted stands for one that is declined.       *)
Accept(s, c) ==
  /\ c \in pending /\ at[c] = s /\ s \in bound
  /\ \A d \in c_map[s] : Ip[d] # Ip[c]
  /\ Goto(s, "up", "populate")
  /\ joining' = [joining EXCEPT ![s] = c]
  /\ pending' = pending \ {c}
  /\ client' = IF client[c] = "asking" THEN [client EXCEPT ![c] = "told"]
                                       ELSE client
  /\ UNCHANGED <<bound, c_map, dirs, at, child>>

(* A directory that is there already, whoever made it, is used again.      *)
PopulateJail(s) ==
  /\ Goto(s, "populate", "fork")
  /\ jails' = jails \cup {JailOf(joining[s])}
  /\ UNCHANGED <<bound, joining, c_map, stale, sessions>>

(* An exception, with the directory made or not.                           *)
PopulateFails(s) ==
  /\ Goto(s, "populate", "closing")
  /\ joining' = [joining EXCEPT ![s] = NoClient]
  /\ jails' \in {jails, jails \cup {JailOf(joining[s])}}
  /\ UNCHANGED <<bound, c_map, stale, sessions>>

Fork(s) ==
  /\ Goto(s, "fork", "wait")
  /\ child' = [child EXCEPT ![joining[s]] = "setup"]
  /\ UNCHANGED <<bound, joining, c_map, dirs, pending, client, at>>

ForkFails(s) ==
  /\ Goto(s, "fork", "closing")
  /\ joining' = [joining EXCEPT ![s] = NoClient]
  /\ UNCHANGED <<bound, c_map, dirs, sessions>>

Insert(s) ==
  /\ Goto(s, "wait", "up")
  /\ child[joining[s]] = "shell"
  /\ c_map' = [c_map EXCEPT ![s] = @ \cup {joining[s]}]
  /\ joining' = [joining EXCEPT ![s] = NoClient]
  /\ UNCHANGED <<bound, dirs, sessions>>

(* Mutant: leaves the jail of a client that could not be enjailed.         *)
RejectKeepsJail(s) ==
  /\ Goto(s, "wait", "up")
  /\ child[joining[s]] = "exited"
  /\ joining' = [joining EXCEPT ![s] = NoClient]
  /\ UNCHANGED <<bound, c_map, dirs, sessions>>

(* The child has reported that it failed, or is found to have gone.        *)
Reject(s) ==
  /\ Goto(s, "wait", "up")
  /\ child[joining[s]] = "exited"
  /\ jails' = jails \ {JailOf(joining[s])}
  /\ joining' = [joining EXCEPT ![s] = NoClient]
  /\ UNCHANGED <<bound, c_map, stale, sessions>>

(* The child has died without a report: read throws.                       *)
EndOfPipe(s) ==
  /\ Goto(s, "wait", "closing")
  /\ child[joining[s]] = "killed"
  /\ joining' = [joining EXCEPT ![s] = NoClient]
  /\ UNCHANGED <<bound, c_map, dirs, sessions>>

-----------------------------------------------------------------------------
(* A server gets rid of clients.                                           *)

(* Both drop commands, and ~Server.                                        *)
Drop(s, c) ==
  /\ server[s] \in {"up", "closing"}
  /\ c \in c_map[s]
  /\ child' = [child EXCEPT ![c] = "exited"]
  /\ jails' = jails \ {JailOf(c)}
  /\ c_map' = [c_map EXCEPT ![s] = @ \ {c}]
  /\ UNCHANGED <<server, bound, joining, stale, pending, client, at>>

(* The display forgets clients that have gone.                             *)
Forget(s, c) ==
  /\ server[s] = "up"
  /\ c \in c_map[s] /\ ~Alive(c)
  /\ jails' = jails \ {JailOf(c)}
  /\ c_map' = [c_map EXCEPT ![s] = @ \ {c}]
  /\ UNCHANGED <<server, bound, joining, stale, sessions>>

(* Mutant: does not look whether the client has gone.                      *)
SweepAny(s, c) ==
  /\ Running(s)
  /\ c \in c_map[s]
  /\ jails' = jails \ {JailOf(c)}
  /\ UNCHANGED <<servers, stale, sessions>>

(* The sweeper removes their jails only.                                   *)
Sweep(s, c) ==
  /\ Running(s)
  /\ c \in c_map[s] /\ ~Alive(c)
  /\ jails' = jails \ {JailOf(c)}
  /\ UNCHANGED <<servers, stale, sessions>>

-----------------------------------------------------------------------------
(* A client and its child.                                                 *)

(* The kernel sets up a connection as long as anybody holds the socket.    *)
Ask(c) ==
  /\ client[c] = "idle"
  /\ \E s \in Servers : Listens(s) /\ at' = [at EXCEPT ![c] = s]
  /\ client' = [client EXCEPT ![c] = "asking"]
  /\ pending' = pending \cup {c}
  /\ UNCHANGED <<servers, dirs, child>>

(* Once it has read the answer the client becomes a netcat that listens.   *)
RunNetcat(c) ==
  /\ client[c] = "told"
  /\ client' = [client EXCEPT ![c] = "listening"]
  /\ UNCHANGED <<servers, dirs, pending, at, child>>

Leave(c) ==
  /\ client[c] \in {"asking", "told", "listening", "shell"}
  /\ client' = [client EXCEPT ![c] = "left"]
  /\ UNCHANGED <<servers, dirs, pending, at, child>>

(* The child connects if the client's netcat is there already.             *)
ChildConnects(c) ==
  /\ child[c] = "setup"
  /\ client[c] = "listening"
  /\ JailOf(c) \in jails
  /\ child' = [child EXCEPT ![c] = "shell"]
  /\ client' = [client EXCEPT ![c] = "shell"]
  /\ UNCHANGED <<servers, dirs, pending, at>>

ChildFails(c) ==
  /\ child[c] = "setup"
  /\ \E how \in {"exited", "killed"} : child' = [child EXCEPT ![c] = how]
  /\ UNCHANGED <<servers, dirs, pending, client, at>>

ShellEnds(c) ==
  /\ child[c] = "shell"
  /\ child' = [child EXCEPT ![c] = "exited"]
  /\ UNCHANGED <<servers, dirs, pending, client, at>>

-----------------------------------------------------------------------------

Server(s) ==
  \/ Start(s) \/ Bind(s) \/ BindFails(s) \/ Crash(s)
  \/ Exit(s) \/ EraseJailDir(s)
  \/ PopulateJail(s) \/ PopulateFails(s) \/ Fork(s) \/ ForkFails(s)
  \/ Insert(s) \/ Reject(s) \/ EndOfPipe(s)
  \/ \E c \in Clients :
       Accept(s, c) \/ Drop(s, c) \/ Forget(s, c) \/ Sweep(s, c)

Client(c) == Ask(c) \/ RunNetcat(c) \/ Leave(c)

Child(c) == ChildConnects(c) \/ ChildFails(c) \/ ShellEnds(c)

Ended == (\A s \in Servers : server[s] \in {"closed", "crashed"})
         /\ UNCHANGED vars

Next ==
  \/ \E s \in Servers : Server(s)
  \/ \E c \in Clients : Client(c) \/ Child(c)
  \/ Ended

Spec == Init /\ [][Next]_vars

-----------------------------------------------------------------------------
(* Properties.                                                             *)

TypeOK ==
  /\ server \in [Servers -> Adding \cup
                   {"new", "up", "closing", "closed", "crashed"}]
  /\ bound \subseteq Servers
  /\ joining \in [Servers -> Clients \cup {NoClient}]
  /\ c_map \in [Servers -> SUBSET Clients]
  /\ jails \subseteq Addresses /\ stale \subseteq Addresses
  /\ pending \subseteq Clients
  /\ client \in [Clients -> {"idle", "asking", "told", "listening", "shell",
                            "left"}]
  /\ at \in [Clients -> Servers \cup {NoServer}]
  /\ child \in [Clients -> {"none", "setup", "shell", "exited", "killed"}]

(* A server that accepts clients knows every client that runs below the    *)
(* jail path, although it reads nothing about those of earlier servers:    *)
(* as long as one of them runs, no other server gets the port              *)
(* (Server.cpp:43, 116-138, 258).                                          *)
BoundServerKnowsClients ==
  \A s \in bound, c \in Clients :
    Alive(c) => at[c] = s /\ (c \in c_map[s] \/ joining[s] = c)

(* No two clients of one address run at a time, and so none shares a jail, *)
(* not even when a server has crashed and another has taken its place      *)
(* (Server.cpp:301, 258; Utils.cpp:83).                                    *)
OneClientPerJail ==
  \A c, d \in Clients :
    Alive(c) /\ Alive(d) /\ JailOf(c) = JailOf(d) => c = d

(* Server.cpp:95, "cleans the jail path from all former clients' jail      *)
(* directories".  A client that goes on running loses its jail only to a   *)
(* server that is told to exit before it finds that the port is taken.     *)
RunningClientsKeepJails ==
  [][\A c \in Clients :
       Alive(c) /\ Alive(c)' /\ JailOf(c) \in jails \ jails' =>
         \E s \in Servers \ bound :
           server[s] = "closing" /\ server'[s] = "closed"]_vars

(* A server that waits for its operator has no jails but those of its      *)
(* clients, and what it found: whichever step of adding a client failed,   *)
(* as when the client's netcat is not there yet, the jail is gone          *)
(* (Server.cpp:283, 347, 85; Connection.cpp:32-35).                        *)
JailsAreOwned ==
  \A s \in bound : server[s] = "up" =>
    jails \subseteq stale \cup {JailOf(c) : c \in c_map[s]}

Sessions(s) == INSTANCE JailSessions WITH
  Ips     <- Addresses,
  session <- [i \in Addresses |->
                IF joining[s] \in Clients /\ Ip[joining[s]] = i THEN "joining"
                ELSE IF \E c \in c_map[s] : Ip[c] = i THEN "connected"
                ELSE "none"],
  alive   <- {Ip[c] : c \in {d \in Clients : Alive(d) /\ at[d] = s}},
  server  <- IF server[s] \in {"closed", "crashed"} THEN server[s] ELSE "up"

(* Each server keeps its sessions as one that is alone does, whatever      *)
(* another does to the jail path (Server.cpp:48-51, 234-289).              *)
EachServerKeepsSessions ==
  /\ \A s \in Servers : Sessions(s)!Init
  /\ [][\A s \in Servers : [Sessions(s)!Next]_(Sessions(s)!vars)]_vars

=============================================================================
