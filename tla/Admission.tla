------------------------------ MODULE Admission ------------------------------
(***************************************************************************)
(* What the README promises a client: it asks, it waits for the server's   *)
(* permission, it is admitted only if the server granted that, and it      *)
(* gives up only if the server denied it.  Without sockets, descriptors,   *)
(* queues or threads.  (README.md:56-60, 64-68)             *)
(***************************************************************************)

CONSTANT Clients

VARIABLES
  client,      \* what a client knows: it asks, is admitted, is refused
  decision     \* what the server has decided about it

vars == <<client, decision>>

Init ==
  /\ client = [c \in Clients |-> "idle"]
  /\ decision = [c \in Clients |-> "none"]

Ask(c) ==
  /\ client[c] = "idle"
  /\ client' = [client EXCEPT ![c] = "asking"]
  /\ UNCHANGED decision

(* The server decides about clients that have asked, several at a time if  *)
(* it declines them all or ends.                                           *)
Decide(S, what) ==
  /\ \A c \in S : client[c] # "idle" /\ decision[c] = "none"
  /\ decision' = [c \in Clients |-> IF c \in S THEN what ELSE decision[c]]
  /\ UNCHANGED client

Grant(c) == Decide({c}, "granted")
Deny(S) == Decide(S, "denied")

Learn(c) ==
  /\ client[c] = "asking"
  /\ \/ decision[c] = "granted" /\ client' = [client EXCEPT ![c] = "admitted"]
     \/ decision[c] = "denied" /\ client' = [client EXCEPT ![c] = "refused"]
  /\ UNCHANGED decision

Leave(c) ==
  /\ client[c] = "asking"
  /\ client' = [client EXCEPT ![c] = "gone"]
  /\ UNCHANGED decision

Next ==
  \/ \E c \in Clients : Ask(c) \/ Grant(c) \/ Learn(c) \/ Leave(c)
  \/ \E S \in SUBSET Clients : Deny(S)

Spec == Init /\ [][Next]_vars

=============================================================================
