------------------------------ MODULE Handshake ------------------------------
(***************************************************************************)
(* How a client gets from its connection request to the server's answer:   *)
(* the client's request_connection, the listen backlog, the thread that    *)
(* receives requests, the queue conn_q, the operator's choices that empty  *)
(* it, and the server's descriptor table, through which all of them name   *)
(* a connection.  Every client makes one connection.                       *)
(*                                                                         *)
(* The queue's mutex is held only in sections that do not wait; each is    *)
(* part of one action.  What ClientRegistry models in detail, the map of   *)
(* clients and the life of a jailed process, is here the set of clients    *)
(* that are in the map and the connections a forked child keeps open.      *)
(***************************************************************************)
EXTENDS Integers, Sequences

CONSTANTS
  Clients,          \* processes of remramd_client
  Ip,               \* the address each of them comes from
  Fds,              \* the descriptors the server may have open
  Backlog,          \* the third argument of remramd_server
  NoFile,           \* no connection
  AcceptsInWindow   \* whether a connection is accepted while a child is
                    \* being waited for, its pipe being closed on one side

ASSUME HandshakeAssumption ==
  /\ Fds \subseteq Nat
  /\ Backlog \in Nat
  /\ DOMAIN Ip = Clients
  /\ NoFile \notin Clients /\ "pipe" \notin Clients /\ NoFile # "pipe"
  /\ AcceptsInWindow \in BOOLEAN

VARIABLES
  client,    \* where a client is
  sent,      \* the clients whose request has arrived and is not read yet
  answer,    \* what the server has written to a client
  backlog,   \* connections the kernel has set up and nobody accepted
  files,     \* the server's descriptor table
  worker,    \* where connection_receiver_worker is
  cur,       \* its curr_pend_conn
  conn_q,    \* Server::conn_q
  prompt,    \* where the prompt thread is
  taken,     \* the connection it handles, and the ends of its pipe
  kids,      \* the connections the child forked for a client keeps open
  jailed,    \* the clients that are in c_map
  verdict    \* history: what has been decided about a client

clients == <<client, sent>>
queue   == <<worker, cur, conn_q>>
child   == <<kids, jailed>>
vars == <<clients, answer, backlog, files, queue, prompt, taken, child, verdict>>

-----------------------------------------------------------------------------

(* A connection as ClientData holds it: the client and its descriptor.     *)
Connections == [conn : Clients, fd : Fds]
Nobody == [conn |-> NoFile, fd |-> -1]
NotTaken == [conn |-> NoFile, fd |-> -1, read |-> -1, write |-> -1]

HasClosed(c) == client[c] \in {"admitted", "refused", "gone"}

(* The server's end of a connection is closed when no process has it open  *)
(* any more; a forked child has whatever was open when it was forked.      *)
OpenAtServer(c) ==
  \/ \E k \in 1..Len(backlog) : backlog[k] = c
  \/ \E f \in Fds : files[f] = c
  \/ \E d \in Clients : c \in kids[d]

FreeFds == {f \in Fds : files[f] = NoFile}

(* A new descriptor is the lowest number that is free.                     *)
Lowest(f, S) == f \in S /\ \A g \in S : f <= g

Close(S) == [f \in Fds |-> IF f \in S THEN NoFile ELSE files[f]]

Deciding(S, what) ==
  verdict' = [c \in Clients |-> IF c \in S THEN what ELSE verdict[c]]

Undecided == {c \in Clients : client[c] # "idle" /\ verdict[c] = "none"}

Init ==
  /\ client = [c \in Clients |-> "idle"]
  /\ sent = {}
  /\ answer = [c \in Clients |-> "none"]
  /\ backlog = <<>>
  /\ files = [f \in Fds |-> NoFile]
  /\ worker = "accept"
  /\ cur = Nobody
  /\ conn_q = <<>>
  /\ prompt = "menu"
  /\ taken = NotTaken
  /\ kids = [c \in Clients |-> {}]
  /\ jailed = {}
  /\ verdict = [c \in Clients |-> "none"]

-----------------------------------------------------------------------------
(* The client: request_connection.                                         *)

Connect(c) ==
  /\ client[c] = "idle"
  /\ prompt # "down"
  /\ Len(backlog) <= Backlog          \* Linux queues one more than asked for
  /\ client' = [client EXCEPT ![c] = "connected"]
  /\ backlog' = Append(backlog, c)
  /\ UNCHANGED <<sent, answer, files, queue, prompt, taken, child, verdict>>

SendRequest(c) ==
  /\ client[c] = "connected"
  /\ client' = [client EXCEPT ![c] = "waiting"]
  /\ sent' = sent \cup {c}
  /\ UNCHANGED <<answer, backlog, files, queue, prompt, taken, child, verdict>>

(* The blocking read: an answer, or the end of the connection, which       *)
(* leaves server_response as it was initialised, NOPE.                     *)
ReadAnswer(c) ==
  /\ client[c] = "waiting"
  /\ \/ answer[c] = "YEP" /\ client' = [client EXCEPT ![c] = "admitted"]
     \/ answer[c] = "NOPE" /\ client' = [client EXCEPT ![c] = "refused"]
     \/ /\ answer[c] = "none" /\ ~OpenAtServer(c)
        /\ client' = [client EXCEPT ![c] = "refused"]
  /\ UNCHANGED <<sent, answer, backlog, files, queue, prompt, taken, child, verdict>>

(* The client is killed.                                                   *)
ClientDies(c) ==
  /\ client[c] \in {"connected", "waiting"}
  /\ client' = [client EXCEPT ![c] = "gone"]
  /\ UNCHANGED <<sent, answer, backlog, files, queue, prompt, taken, child, verdict>>

-----------------------------------------------------------------------------
(* connection_receiver_worker.  With no descriptor left accept fails, its  *)
(* result, stored in 16 bits, is not recognised as -1, and the loop goes   *)
(* round without effect.                                                   *)

Accept ==
  /\ worker = "accept"
  /\ backlog # <<>>
  /\ AcceptsInWindow \/ prompt # "wait"
  /\ \E f \in Fds :
       /\ Lowest(f, FreeFds)
       /\ cur' = [conn |-> Head(backlog), fd |-> f]
       /\ files' = [files EXCEPT ![f] = Head(backlog)]
  /\ backlog' = Tail(backlog)
  /\ worker' = "poll"
  /\ UNCHANGED <<clients, answer, conn_q, prompt, taken, child, verdict>>

PollTimesOutNever == FALSE

PollTimesOutOpen ==
  /\ worker = "poll"
  /\ cur.conn \notin sent /\ ~HasClosed(cur.conn)
  /\ Deciding({cur.conn}, "timeout")
  /\ worker' = "accept"
  /\ cur' = Nobody
  /\ UNCHANGED <<clients, answer, backlog, files, conn_q, prompt, taken, child>>

(* poll for at most 10 seconds; then the descriptor is closed, and so it   *)
(* is if the end of the connection is reported as another event than       *)
(* POLLIN.                                                                 *)
PollTimesOut ==
  /\ worker = "poll"
  /\ cur.conn \notin sent
  /\ files' = Close({cur.fd})
  /\ Deciding({cur.conn}, "timeout")
  /\ worker' = "accept"
  /\ cur' = Nobody
  /\ UNCHANGED <<clients, answer, backlog, conn_q, prompt, taken, child>>

ReceiveIgnoresFailure ==
  /\ worker = "poll"
  /\ \/ /\ files[cur.fd] = cur.conn /\ cur.conn \in sent
        /\ UNCHANGED <<cur, verdict>>
     \/ /\ \/ files[cur.fd] # cur.conn
           \/ cur.conn \notin sent /\ HasClosed(cur.conn)
        /\ Deciding({cur.conn}, "lost")
        /\ cur' = Nobody
  /\ sent' = sent \ {cur.conn}
  /\ worker' = "push"
  /\ UNCHANGED <<client, answer, backlog, files, conn_q, prompt, taken, child>>

(* poll reports the request, or the end of the connection, which counts as *)
(* readable; receive_data then reads the port or fails.  If it fails the   *)
(* descriptor stays open.  If the number has come to stand for an end of   *)
(* the pipe, what the child has written there may be read and thrown away: *)
(* the parent then finds the pipe ended, which EnjailThrows allows.        *)
Receive ==
  /\ worker = "poll"
  /\ \/ /\ files[cur.fd] = cur.conn
        /\ cur.conn \in sent
        /\ sent' = sent \ {cur.conn}
        /\ worker' = "push"
        /\ UNCHANGED <<cur, verdict>>
     \/ /\ \/ files[cur.fd] # cur.conn
           \/ cur.conn \notin sent /\ HasClosed(cur.conn)
        /\ Deciding({cur.conn}, "lost")
        /\ worker' = "accept"
        /\ cur' = Nobody
        /\ UNCHANGED sent
  /\ UNCHANGED <<client, answer, backlog, files, conn_q, prompt, taken, child>>

Push ==
  /\ worker = "push"
  /\ conn_q' = Append(conn_q, cur)
  /\ worker' = "accept"
  /\ cur' = Nobody
  /\ UNCHANGED <<clients, answer, backlog, files, prompt, taken, child, verdict>>

-----------------------------------------------------------------------------
(* The end of the server: main returns, whether after EXIT or because of   *)
(* an exception; ~Server has killed the clients.                           *)

ServerEnds ==
  /\ prompt' = "down"
  /\ files' = [f \in Fds |-> NoFile]
  /\ backlog' = <<>>
  /\ conn_q' = <<>>
  /\ worker' = "off"
  /\ cur' = Nobody
  /\ taken' = NotTaken
  /\ kids' = [c \in Clients |-> {}]
  /\ jailed' = {}

Exit ==
  /\ prompt = "menu"
  /\ ServerEnds
  /\ Deciding(Undecided, "ended")
  /\ UNCHANGED <<clients, answer>>

-----------------------------------------------------------------------------
(* The operator's choices about pending connections.                       *)

(* obtain_pending_connection finds one at the head of the queue.           *)
Pending == prompt = "menu" /\ conn_q # <<>>

DuplicateIgnored(c) == FALSE

Duplicate(c) == \E d \in jailed : Ip[d] = Ip[c]

RefuseDuplicateKeeps ==
  /\ Pending
  /\ Duplicate(Head(conn_q).conn)
  /\ Deciding({Head(conn_q).conn}, "duplicate")
  /\ UNCHANGED <<clients, answer, backlog, files, queue, prompt, taken, child>>

(* The refusal of an address that is in the map: the connection is neither *)
(* answered nor closed.                                                    *)
RefuseDuplicate ==
  /\ Pending
  /\ Duplicate(Head(conn_q).conn)
  /\ Deciding({Head(conn_q).conn}, "duplicate")
  /\ conn_q' = Tail(conn_q)
  /\ UNCHANGED <<clients, answer, backlog, files, worker, cur, prompt, taken, child>>

SendDataLost(fd, what) == answer' = answer

SendDataSwapped(fd, what) ==
  answer' = [c \in Clients |-> IF files[fd] # c THEN answer[c]
                               ELSE IF what = "YEP" THEN "NOPE" ELSE "YEP"]

(* send_data: whatever connection the descriptor now stands for gets the   *)
(* byte.                                                                   *)
SendData(fd, what) ==
  answer' = [c \in Clients |->
               IF files[fd] = c /\ answer[c] = "none" THEN what ELSE answer[c]]

(* The descriptor is closed: an exception, which ends the server.          *)
SendFails ==
  /\ Pending
  /\ files[Head(conn_q).fd] = NoFile
  /\ ServerEnds
  /\ Deciding(Undecided, "ended")
  /\ UNCHANGED <<clients, answer>>

AcceptPending ==
  LET h == Head(conn_q) IN
  /\ Pending
  /\ ~Duplicate(h.conn)
  /\ files[h.fd] # NoFile
  /\ SendData(h.fd, "YEP")
  /\ Deciding({h.conn}, "accepted")
  /\ conn_q' = Tail(conn_q)
  /\ taken' = [NotTaken EXCEPT !.conn = h.conn, !.fd = h.fd]
  /\ prompt' = "pipe"
  /\ UNCHANGED <<clients, backlog, files, worker, cur, child>>

DeclinePending ==
  LET h == Head(conn_q) IN
  /\ Pending
  /\ files[h.fd] # NoFile
  /\ SendData(h.fd, "NOPE")
  /\ Deciding({h.conn}, "declined")
  /\ files' = Close({h.fd})
  /\ conn_q' = Tail(conn_q)
  /\ UNCHANGED <<clients, backlog, worker, cur, prompt, taken, child>>

Queued == {conn_q[k].conn : k \in 1..Len(conn_q)}

DeclineAllKeeps ==
  /\ Pending
  /\ Deciding(Queued, "dropped")
  /\ files' = Close({conn_q[k].fd : k \in 1..Len(conn_q)})
  /\ UNCHANGED <<clients, answer, backlog, queue, prompt, taken, child>>

DeclineAll ==
  /\ Pending
  /\ Deciding(Queued, "dropped")
  /\ files' = Close({conn_q[k].fd : k \in 1..Len(conn_q)})
  /\ conn_q' = <<>>
  /\ UNCHANGED <<clients, answer, backlog, worker, cur, prompt, taken, child>>

-----------------------------------------------------------------------------
(* add_new_client, and enjail_new_client in the child.                     *)

TwoFree == \E f, g \in FreeFds : f # g

OpenPipe ==
  /\ prompt = "pipe"
  /\ \E r, w \in Fds :
       /\ Lowest(r, FreeFds) /\ Lowest(w, FreeFds \ {r})
       /\ files' = [files EXCEPT ![r] = "pipe", ![w] = "pipe"]
       /\ taken' = [taken EXCEPT !.read = r, !.write = w]
  /\ prompt' = "enjail"
  /\ UNCHANGED <<clients, answer, backlog, queue, child, verdict>>

(* The jail is built and the child forked, with a copy of every descriptor *)
(* that is open; the parent closes the end of the pipe it writes to.       *)
ForkChild ==
  /\ prompt = "enjail"
  /\ kids' = [kids EXCEPT ![taken.conn] = {c \in Clients : \E f \in Fds : files[f] = c}]
  /\ files' = Close({taken.write})
  /\ prompt' = "wait"
  /\ UNCHANGED <<clients, answer, backlog, queue, taken, jailed, verdict>>

(* The end of add_new_client: the connection is closed, and ~PipeWrapper   *)
(* closes both ends of the pipe, the closed one again.  A child that did   *)
(* not make it is dead by then.                                            *)
EnjailReturns ==
  /\ prompt = "wait"
  /\ \/ jailed' = jailed \cup {taken.conn} /\ UNCHANGED kids
     \/ kids' = [kids EXCEPT ![taken.conn] = {}] /\ UNCHANGED jailed
  /\ files' = Close({taken.fd, taken.read, taken.write})
  /\ prompt' = "menu"
  /\ taken' = NotTaken
  /\ UNCHANGED <<clients, answer, backlog, queue, verdict>>

(* No pipe can be opened, no jail built or no child forked, or the child   *)
(* dies before it has reported.                                            *)
EnjailThrows ==
  /\ \/ prompt \in {"enjail", "wait"}
     \/ prompt = "pipe" /\ ~TwoFree
  /\ ServerEnds
  /\ Deciding(Undecided, "ended")
  /\ UNCHANGED <<clients, answer>>

-----------------------------------------------------------------------------
(* The jailed clients.                                                     *)

ChildDies(c) ==
  /\ kids[c] # {}
  /\ kids' = [kids EXCEPT ![c] = {}]
  /\ UNCHANGED <<clients, answer, backlog, files, queue, prompt, taken, jailed, verdict>>

(* A client is dropped, or found to have gone while clients are displayed. *)
Drop(c) ==
  /\ prompt = "menu"
  /\ c \in jailed
  /\ jailed' = jailed \ {c}
  /\ kids' = [kids EXCEPT ![c] = {}]
  /\ UNCHANGED <<clients, answer, backlog, files, queue, prompt, taken, verdict>>

-----------------------------------------------------------------------------

Worker == Accept \/ PollTimesOut \/ Receive \/ Push

Operator ==
  \/ RefuseDuplicate \/ AcceptPending \/ DeclinePending \/ SendFails
  \/ DeclineAll \/ ForkChild \/ Exit
  \/ \E c \in Clients : Drop(c)

Client(c) == Connect(c) \/ SendRequest(c) \/ ReadAnswer(c) \/ ClientDies(c)

(* After the server has ended nothing need happen any more.                *)
Ended == prompt = "down" /\ UNCHANGED vars

Next ==
  \/ Worker \/ Operator \/ OpenPipe \/ EnjailReturns \/ EnjailThrows
  \/ \E c \in Clients : Client(c) \/ ChildDies(c)
  \/ Ended

Spec == Init /\ [][Next]_vars

(* The threads run, and a client that waits for an answer reads it.  The   *)
(* operator need not choose anything, and a client need not send anything. *)
Fairness ==
  /\ WF_vars(Worker)
  /\ WF_vars(OpenPipe) /\ WF_vars(prompt = "pipe" /\ EnjailThrows)
  /\ WF_vars(EnjailReturns)
  /\ \A c \in Clients : WF_vars(ReadAnswer(c))

FairSpec == Spec /\ Fairness

-----------------------------------------------------------------------------

Verdicts == {"none", "timeout", "lost", "duplicate", "accepted", "declined",
             "dropped", "ended"}

(* Every variable has its type.                                            *)
TypeOK ==
  /\ client \in [Clients -> {"idle", "connected", "waiting", "admitted",
                            "refused", "gone"}]
  /\ sent \in SUBSET Clients
  /\ answer \in [Clients -> {"none", "YEP", "NOPE"}]
  /\ backlog \in Seq(Clients)
  /\ files \in [Fds -> Clients \cup {"pipe", NoFile}]
  /\ worker \in {"accept", "poll", "push", "off"}
  /\ cur \in Connections \cup {Nobody}
  /\ conn_q \in Seq(Connections)
  /\ prompt \in {"menu", "pipe", "enjail", "wait", "down"}
  /\ taken \in [conn : Clients \cup {NoFile}, fd : Fds \cup {-1},
               read : Fds \cup {-1}, write : Fds \cup {-1}]
  /\ kids \in [Clients -> SUBSET Clients]
  /\ jailed \in SUBSET Clients
  /\ verdict \in [Clients -> Verdicts]

(* A connection that waits for the operator's decision is still the one    *)
(* its descriptor stands for: nobody has closed it, and no other has got   *)
(* its number (Server.cpp:163, 309, 312, 326).                             *)
QueueMatchesFiles ==
  \A k \in 1..Len(conn_q) : files[conn_q[k].fd] = conn_q[k].conn

(* The server keeps a connection open only while it is being received, is  *)
(* queued or is being handled, except for the two paths on which it is     *)
(* forgotten: a request that cannot be read and the refusal of a duplicate *)
(* (Server.cpp:157-164, 301-305; 285, 313, 326; Protocol.cpp:69, 78).      *)
OpenFilesAreInUse ==
  \A f \in Fds : files[f] \in Clients =>
    \/ verdict[files[f]] \in {"lost", "duplicate"}
    \/ files[f] \in Queued \cup {cur.conn, taken.conn}

Decisions == INSTANCE Admission WITH
  client   <- [c \in Clients |-> IF client[c] \in {"connected", "waiting"}
                                  THEN "asking" ELSE client[c]],
  decision <- [c \in Clients |-> CASE verdict[c] = "none"     -> "none"
                                    [] verdict[c] = "accepted" -> "granted"
                                    [] OTHER                   -> "denied"]

(* The promise of the README to the clients.                               *)
ImplementsAdmission == Decisions!Spec

(* Every connection is decided about once: none of the paths that time     *)
(* out, lose, refuse, accept, decline or drop leaves it for another        *)
(* (Server.cpp:187-196, 324-328; Protocol.cpp:68-72).                      *)
DecidedOnce ==
  [][\A c \in Clients : verdict[c] # "none" => verdict'[c] = verdict[c]]_vars

(* No two clients of one address are in the map, however many of them were *)
(* queued when the first was accepted (Server.cpp:301).                    *)
OneClientPerAddress ==
  \A c, d \in jailed : Ip[c] = Ip[d] => c = d

(* README.md:59-60, "Waits for server's permission. If declined - exits":  *)
(* a client is turned away only if that has been decided about it.         *)
RefusedOnlyIfDenied ==
  \A c \in Clients : client[c] = "refused" => verdict[c] # "none"

(* README.md:60, "If declined - exits".                                    *)
DeclinedClientsExit ==
  \A c \in Clients :
    verdict[c] \in {"declined", "dropped"} /\ client[c] = "waiting"
      ~> client[c] = "refused" \/ client[c] = "gone"

(* README.md:65, "Creates a thread that constantly accepting new           *)
(* connection attempts": a client that waits for it is accepted, whoever   *)
(* has come and gone before.  A server may be excused that has a use for   *)
(* one of its descriptors, for connections it has yet to handle, the one   *)
(* it handles or its pipe: the operator can end that.                      *)
ConnectionsAreAccepted ==
  \A c \in Clients :
    (\E k \in 1..Len(backlog) : backlog[k] = c)
      ~> \/ HasClosed(c)
         \/ \A k \in 1..Len(backlog) : backlog[k] # c
         \/ \E f \in Fds :
              files[f] \in Queued \cup {cur.conn, taken.conn, "pipe"}

(* One client that connects and sends nothing does not keep the others     *)
(* out: whatever has been sent is queued, unless the connection is given   *)
(* up for having been silent too long (Protocol.cpp:64-72).                *)
RequestsAreQueued ==
  \A c \in Clients : c \in sent ~> c \in Queued \/ verdict[c] # "none"

(* A client whose connection the operator accepts or declines learns it    *)
(* (Server.cpp:309, 312), whatever the jail becomes.                       *)
DecidedClientsLearn ==
  \A c \in Clients :
    verdict[c] \in {"accepted", "declined"} ~> HasClosed(c)

=============================================================================
