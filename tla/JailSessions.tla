---------------------------- MODULE JailSessions ----------------------------
(***************************************************************************)
(* What remramd_server promises about its jailed clients, without pids,    *)
(* threads, locks or directories.  An address has at most one session; a   *)
(* session begins by joining, one address at a time; the process of a      *)
(* client runs only within the session of its address; a session that is   *)
(* rejected or left has no process; and a server that closes has neither   *)
(* sessions nor processes.  Only a crash lets processes outlive their      *)
(* sessions.  (Server.cpp:234-289, 294-319, 332-387, 48-51)                *)
(***************************************************************************)

CONSTANT Ips       \* addresses of clients

VARIABLES
  session,         \* the session of an address
  alive,           \* the addresses that have a running client process
  server           \* whether the server is up

vars == <<session, alive, server>>

NoSessions == [i \in Ips |-> "none"]

Init ==
  /\ session = NoSessions
  /\ alive = {}
  /\ server = "up"

Change(i, from, to) ==
  /\ session[i] = from
  /\ session' = [session EXCEPT ![i] = to]
  /\ UNCHANGED server

Join(i) ==
  /\ \A j \in Ips : session[j] # "joining"
  /\ Change(i, "none", "joining")
  /\ UNCHANGED alive

Start(i) ==
  /\ session[i] = "joining"
  /\ i \notin alive
  /\ alive' = alive \cup {i}
  /\ UNCHANGED <<session, server>>

Admit(i) == Change(i, "joining", "connected") /\ UNCHANGED alive

Reject(i) == i \notin alive /\ Change(i, "joining", "none") /\ UNCHANGED alive

(* A session that is left, because the client was dropped or was found to  *)
(* have gone, loses its process; pids being reused, others may die of it.  *)
Leave(i) == Change(i, "connected", "none") /\ alive' \in SUBSET (alive \ {i})

Die(i) ==
  /\ i \in alive
  /\ alive' = alive \ {i}
  /\ UNCHANGED <<session, server>>

Close ==
  /\ server = "up"
  /\ session = NoSessions
  /\ alive = {}
  /\ server' = "closed"
  /\ UNCHANGED <<session, alive>>

Crash ==
  /\ server = "up"
  /\ server' = "crashed"
  /\ session' = NoSessions
  /\ alive' \in SUBSET alive

Next ==
  \/ \E i \in Ips :
       Join(i) \/ Start(i) \/ Admit(i) \/ Reject(i) \/ Leave(i) \/ Die(i)
  \/ Close
  \/ Crash

Spec == Init /\ [][Next]_vars

=============================================================================
