------------------------- MODULE HandshakeRefinement -------------------------
(***************************************************************************)
(* As long as no connection is accepted between the two closes of a pipe's *)
(* end, a descriptor stands for the connection it was queued with, and     *)
(* every client learns what was decided about it, and nothing else:        *)
(* Handshake implements Admission.                                         *)
(***************************************************************************)
EXTENDS HandshakeProofs

(* What the threads hold is open, and the end of the pipe that will be     *)
(* closed again has not been given to anybody else.                        *)
HeldInv ==
  /\ Receiving => files[cur.fd] = cur.conn
  /\ Handling => /\ files[taken.fd] = taken.conn
                 /\ verdict[taken.conn] = "accepted"
  /\ prompt \in {"enjail", "wait"} =>
       /\ taken.read \in Fds /\ taken.write \in Fds
       /\ taken.read # taken.write
       /\ files[taken.read] = "pipe"
  /\ prompt = "enjail" => files[taken.write] = "pipe"
  /\ prompt = "wait" => files[taken.write] = NoFile

(* A connection has one descriptor, from the moment it is accepted.        *)
FilesInv ==
  \A f \in Fds : files[f] \in Clients =>
    /\ client[files[f]] # "idle"
    /\ files[f] \notin Items(backlog)
    /\ \A g \in Fds : files[f] = files[g] => f = g

(* A queued descriptor stands for the connection it was queued with.       *)
MatchInv == \A a \in Items(conn_q) : files[a.fd] = a.conn

(* An open connection is queued, in hand, or one of those the code forgot. *)
UseInv ==
  \A f \in Fds : files[f] \in Clients =>
    \/ verdict[files[f]] \in {"lost", "duplicate"}
    \/ \E a \in Items(conn_q) : a.conn = files[f]
    \/ files[f] \in {cur.conn, taken.conn}

(* The server writes to the client it decides about.                       *)
AnswerInv ==
  \A c \in Clients :
    /\ answer[c] = "YEP" <=> verdict[c] = "accepted"
    /\ answer[c] = "NOPE" <=> verdict[c] = "declined"

(* A client has learnt what was decided.                                   *)
LearntInv ==
  \A c \in Clients :
    /\ client[c] = "admitted" => verdict[c] = "accepted"
    /\ client[c] = "refused" => verdict[c] \notin {"none", "accepted"}

(* The inductive invariant, together with PlaceInv.                        *)
FileInv ==
  /\ HeldInv
  /\ FilesInv
  /\ MatchInv
  /\ UseInv
  /\ AnswerInv
  /\ LearntInv

-----------------------------------------------------------------------------

(* In the beginning nothing is open.                                       *)
LEMMA InitFileInv == Init => FileInv
BY HandshakeAssumption, EmptyItems
   DEF Init, FileInv, HeldInv, FilesInv, MatchInv, UseInv, AnswerInv,
       LearntInv, Handling, Receiving

(* A client that sees the end of its connection has been decided about:    *)
(* until then it is in the backlog or its descriptor is open.              *)
LEMMA EndOfConnection ==
  ASSUME PlaceInv, FileInv, NEW c \in Clients,
         client[c] # "idle", ~OpenAtServer(c)
  PROVE  verdict[c] # "none"
<1> SUFFICES ASSUME verdict[c] = "none" PROVE OpenAtServer(c)
  OBVIOUS
<1>1. CASE c \in Items(backlog)
  BY <1>1 DEF Items, OpenAtServer
<1>2. CASE Receiving /\ cur.conn = c
  BY <1>2 DEF PlaceInv, HoldInv, FileInv, HeldInv, Connections, OpenAtServer
<1>3. CASE \E a \in Items(conn_q) : a.conn = c
  <2>1. PICK a \in Items(conn_q) : a.conn = c
    BY <1>3
  <2>2. a \in Connections
    BY ItemsType DEF PlaceInv, TypeOK
  <2>3. a.fd \in Fds /\ files[a.fd] = c
    BY <2>1, <2>2 DEF FileInv, MatchInv, Connections
  <2> QED BY <2>3 DEF OpenAtServer
<1> QED
  BY <1>1, <1>2, <1>3 DEF PlaceInv, SightInv, Waits

(* Every step keeps the descriptors and the answers right.                 *)
LEMMA StepFileInv ==
  ASSUME ~AcceptsInWindow, PlaceInv, FileInv, [Next]_vars
  PROVE  FileInv'
<1> USE HandshakeAssumption DEF clients, queue, child
<1>a. /\ Items(backlog) \subseteq Clients /\ Distinct(backlog)
      /\ Items(conn_q) \subseteq Connections /\ Distinct(conn_q)
      /\ backlog \in Seq(Clients) /\ conn_q \in Seq(Connections)
  BY ItemsType DEF PlaceInv, TypeOK, BacklogInv, QueueInv
<1>1. ASSUME NEW c \in Clients, Connect(c) PROVE FileInv'
  <2>a. /\ c \notin Items(backlog)
        /\ backlog' \in Seq(Clients)
        /\ Items(backlog') = Items(backlog) \cup {c}
        /\ Distinct(backlog')
    BY <1>1, <1>a, AppendItems DEF PlaceInv, BacklogInv, Waits, Connect
  <2>1. HeldInv'
    BY <1>1 DEF PlaceInv, FileInv, HeldInv, Handling, Receiving, Connect
  <2>2. FilesInv'
    BY <1>1, <2>a DEF PlaceInv, FileInv, FilesInv, Connect
  <2>3. MatchInv'
    BY <1>1 DEF PlaceInv, FileInv, MatchInv, Connect
  <2>4. UseInv'
    BY <1>1 DEF PlaceInv, FileInv, UseInv, Connect
  <2>5. /\ AnswerInv' /\ LearntInv'
    BY <1>1 DEF PlaceInv, FileInv, AnswerInv, LearntInv, Connect
  <2> QED BY <2>1, <2>2, <2>3, <2>4, <2>5 DEF FileInv
<1>2. ASSUME NEW c \in Clients, SendRequest(c) PROVE FileInv'
  <2>1. HeldInv'
    BY <1>2 DEF PlaceInv, FileInv, HeldInv, Handling, Receiving, SendRequest
  <2>2. FilesInv'
    BY <1>2 DEF PlaceInv, FileInv, FilesInv, SendRequest
  <2>3. MatchInv'
    BY <1>2 DEF PlaceInv, FileInv, MatchInv, SendRequest
  <2>4. UseInv'
    BY <1>2 DEF PlaceInv, FileInv, UseInv, SendRequest
  <2>5. /\ AnswerInv' /\ LearntInv'
    BY <1>2 DEF PlaceInv, FileInv, AnswerInv, LearntInv, SendRequest
  <2> QED BY <2>1, <2>2, <2>3, <2>4, <2>5 DEF FileInv
<1>3. ASSUME NEW c \in Clients, ReadAnswer(c) PROVE FileInv'
  <2>1. HeldInv'
    BY <1>3 DEF PlaceInv, FileInv, HeldInv, Handling, Receiving, ReadAnswer
  <2>2. FilesInv'
    BY <1>3 DEF PlaceInv, TypeOK, FileInv, FilesInv, ReadAnswer
  <2>3. MatchInv'
    BY <1>3 DEF PlaceInv, FileInv, MatchInv, ReadAnswer
  <2>4. UseInv'
    BY <1>3 DEF PlaceInv, FileInv, UseInv, ReadAnswer
  <2>5. /\ AnswerInv' /\ LearntInv'
    BY <1>3, EndOfConnection
       DEF PlaceInv, TypeOK, FileInv, AnswerInv, LearntInv, ReadAnswer
  <2> QED BY <2>1, <2>2, <2>3, <2>4, <2>5 DEF FileInv
<1>4. ASSUME NEW c \in Clients, ClientDies(c) PROVE FileInv'
  <2>1. HeldInv'
    BY <1>4 DEF PlaceInv, FileInv, HeldInv, Handling, Receiving, ClientDies
  <2>2. FilesInv'
    BY <1>4 DEF PlaceInv, FileInv, FilesInv, ClientDies
  <2>3. MatchInv'
    BY <1>4 DEF PlaceInv, FileInv, MatchInv, ClientDies
  <2>4. UseInv'
    BY <1>4 DEF PlaceInv, FileInv, UseInv, ClientDies
  <2>5. /\ AnswerInv' /\ LearntInv'
    BY <1>4 DEF PlaceInv, FileInv, AnswerInv, LearntInv, ClientDies
  <2> QED BY <2>1, <2>2, <2>3, <2>4, <2>5 DEF FileInv
<1>5. CASE Accept
  <2>a. /\ Head(backlog) \in Clients
        /\ backlog' \in Seq(Clients)
        /\ Items(backlog) = {Head(backlog)} \cup Items(backlog')
        /\ Head(backlog) \notin Items(backlog')
        /\ Distinct(backlog')
    BY <1>5, <1>a, TailItems DEF Accept
  <2>b. PICK f \in Fds : /\ files[f] = NoFile
                        /\ cur' = [conn |-> Head(backlog), fd |-> f]
                        /\ files' = [files EXCEPT ![f] = Head(backlog)]
    BY <1>5 DEF Accept, Lowest, FreeFds
  <2>c. /\ files'[f] = Head(backlog)
        /\ \A g \in Fds : g # f => files'[g] = files[g]
        /\ \A g \in Fds : files[g] # Head(backlog)
    BY <2>a, <2>b DEF PlaceInv, TypeOK, FileInv, FilesInv
  <2>1. HeldInv'
    BY <1>5
       DEF PlaceInv, TypeOK, FileInv, HoldInv, HeldInv, Handling, Accept,
           Lowest, FreeFds
  <2>2. FilesInv'
    <3>1. client' = client /\ client[Head(backlog)] # "idle"
      BY <1>5, <2>a DEF PlaceInv, BacklogInv, Waits, Accept
    <3>2. \A g \in Fds : files'[g] \in Clients =>
             client'[files'[g]] # "idle" /\ files'[g] \notin Items(backlog')
      BY <2>a, <2>c, <3>1 DEF FileInv, FilesInv
    <3>3. \A g, h \in Fds :
             files'[g] \in Clients /\ files'[g] = files'[h] => g = h
      BY <2>c DEF FileInv, FilesInv
    <3> QED BY <3>2, <3>3 DEF FilesInv
  <2>3. MatchInv'
    BY <1>5, <1>a
       DEF PlaceInv, FileInv, MatchInv, Connections, Accept, Lowest, FreeFds
  <2>4. UseInv'
    <3>1. UNCHANGED <<verdict, conn_q, taken>> /\ cur = Nobody
      BY <1>5 DEF Accept, PlaceInv, HoldInv, Receiving
    <3>2. cur'.conn = Head(backlog)
      BY <2>b
    <3> QED
      BY HandshakeAssumption, <2>c, <3>1, <3>2 DEF FileInv, UseInv, Nobody
  <2>5. /\ AnswerInv' /\ LearntInv'
    BY <1>5 DEF PlaceInv, FileInv, AnswerInv, LearntInv, Accept
  <2> QED BY <2>1, <2>2, <2>3, <2>4, <2>5 DEF FileInv
<1>6. CASE PollTimesOut
  <2>1. HeldInv'
    BY <1>6
       DEF PlaceInv, FileInv, HoldInv, ReceiverInv, Waits, HeldInv, Handling,
           Receiving, Connections, PollTimesOut, Deciding, Close
  <2>2. FilesInv'
    BY <1>6 DEF PlaceInv, FileInv, FilesInv, PollTimesOut, Close
  <2>3. MatchInv'
    BY <1>6, <1>a
       DEF PlaceInv, FileInv, QueueInv, HeldInv, MatchInv, Receiving,
           Connections, PollTimesOut, Close
  <2>4. UseInv'
    BY <1>6, <1>a
       DEF PlaceInv, FileInv, HoldInv, QueueInv, HeldInv, FilesInv, UseInv,
           Connections, PollTimesOut, Deciding, Close
  <2>5. /\ AnswerInv' /\ LearntInv'
    BY <1>6
       DEF PlaceInv, FileInv, ReceiverInv, Waits, AnswerInv, LearntInv,
           Receiving, PollTimesOut, Deciding
  <2> QED BY <2>1, <2>2, <2>3, <2>4, <2>5 DEF FileInv
<1>7. CASE Receive
  <2>1. HeldInv'
    BY <1>7
       DEF PlaceInv, FileInv, HoldInv, ReceiverInv, Waits, HeldInv, Handling,
           Receiving, Receive, Deciding
  <2>2. FilesInv'
    BY <1>7 DEF PlaceInv, FileInv, FilesInv, Receive
  <2>3. MatchInv'
    BY <1>7 DEF PlaceInv, FileInv, MatchInv, Receive
  <2>4. UseInv'
    BY <1>7 DEF PlaceInv, FileInv, UseInv, Receive, Deciding
  <2>5. /\ AnswerInv' /\ LearntInv'
    BY <1>7
       DEF PlaceInv, FileInv, ReceiverInv, Waits, AnswerInv, LearntInv,
           Receiving, Receive, Deciding
  <2> QED BY <2>1, <2>2, <2>3, <2>4, <2>5 DEF FileInv
<1>8. CASE Push
  <2>a. /\ cur \in Connections /\ cur \notin Items(conn_q)
        /\ conn_q' \in Seq(Connections)
        /\ Items(conn_q') = Items(conn_q) \cup {cur}
        /\ Distinct(conn_q')
    BY <1>8, <1>a, AppendItems DEF PlaceInv, HoldInv, QueueInv, Receiving, Push
  <2>1. HeldInv'
    BY <1>8 DEF PlaceInv, FileInv, HeldInv, Handling, Receiving, Push
  <2>2. FilesInv'
    BY <1>8 DEF PlaceInv, FileInv, FilesInv, Push
  <2>3. MatchInv'
    BY <1>8, <2>a DEF PlaceInv, FileInv, HeldInv, MatchInv, Receiving, Push
  <2>4. UseInv'
    BY <1>8, <2>a DEF PlaceInv, FileInv, UseInv, Push
  <2>5. /\ AnswerInv' /\ LearntInv'
    BY <1>8 DEF PlaceInv, FileInv, AnswerInv, LearntInv, Push
  <2> QED BY <2>1, <2>2, <2>3, <2>4, <2>5 DEF FileInv
<1>9. CASE Exit
  <2>a. /\ Items(backlog') = {} /\ Distinct(backlog')
        /\ Items(conn_q') = {} /\ Distinct(conn_q')
    BY <1>9, EmptyItems DEF ServerEnds, Exit
  <2>1. HeldInv'
    BY <1>9
       DEF PlaceInv, FileInv, HeldInv, Handling, Receiving, Exit, ServerEnds
  <2>2. FilesInv'
    BY <1>9 DEF PlaceInv, FileInv, FilesInv, Exit, ServerEnds
  <2>3. MatchInv'
    BY <1>9, <2>a DEF PlaceInv, FileInv, MatchInv, Exit, ServerEnds
  <2>4. UseInv'
    BY <1>9 DEF PlaceInv, FileInv, UseInv, Exit, ServerEnds
  <2>5. /\ AnswerInv' /\ LearntInv'
    BY <1>9
       DEF PlaceInv, FileInv, AnswerInv, LearntInv, Exit, ServerEnds, Deciding,
           Undecided
  <2> QED BY <2>1, <2>2, <2>3, <2>4, <2>5 DEF FileInv
<1>10. CASE RefuseDuplicate
  <2>a. /\ Head(conn_q) \in Connections
        /\ conn_q' \in Seq(Connections)
        /\ Items(conn_q) = {Head(conn_q)} \cup Items(conn_q')
        /\ Head(conn_q) \notin Items(conn_q')
        /\ Distinct(conn_q')
    BY <1>10, <1>a, TailItems DEF Pending, RefuseDuplicate
  <2>1. HeldInv'
    BY <1>10
       DEF PlaceInv, FileInv, HeldInv, Handling, Receiving, RefuseDuplicate,
           Pending
  <2>2. FilesInv'
    BY <1>10 DEF PlaceInv, FileInv, FilesInv, RefuseDuplicate
  <2>3. MatchInv'
    BY <1>10, <2>a DEF PlaceInv, FileInv, MatchInv, RefuseDuplicate
  <2>4. UseInv'
    BY <1>10, <2>a DEF PlaceInv, FileInv, UseInv, RefuseDuplicate, Deciding
  <2>5. /\ AnswerInv' /\ LearntInv'
    BY <1>10, <2>a
       DEF PlaceInv, FileInv, QueueInv, Waits, AnswerInv, LearntInv,
           RefuseDuplicate, Deciding
  <2> QED BY <2>1, <2>2, <2>3, <2>4, <2>5 DEF FileInv
<1>11. CASE AcceptPending
  <2>a. /\ Head(conn_q) \in Connections
        /\ conn_q' \in Seq(Connections)
        /\ Items(conn_q) = {Head(conn_q)} \cup Items(conn_q')
        /\ Head(conn_q) \notin Items(conn_q')
        /\ Distinct(conn_q')
    BY <1>11, <1>a, TailItems DEF Pending, AcceptPending
  <2>1. HeldInv'
    BY <1>11, <2>a
       DEF PlaceInv, FileInv, HeldInv, MatchInv, Receiving, Connections,
           AcceptPending, Deciding
  <2>2. FilesInv'
    BY <1>11 DEF PlaceInv, FileInv, FilesInv, AcceptPending
  <2>3. MatchInv'
    BY <1>11, <2>a DEF PlaceInv, FileInv, MatchInv, AcceptPending
  <2>4. UseInv'
    <3>1. /\ verdict'[Head(conn_q).conn] = "accepted"
          /\ taken'.conn = Head(conn_q).conn
      BY <1>11, <2>a DEF PlaceInv, AcceptPending, Deciding, Connections
    <3>2. \A c \in Clients : c # Head(conn_q).conn => verdict'[c] = verdict[c]
      BY <1>11 DEF PlaceInv, AcceptPending, Deciding
    <3>3. UNCHANGED <<files, cur>> /\ Pending
      BY <1>11 DEF AcceptPending
    <3>4. taken.conn = NoFile
      BY <3>3 DEF PlaceInv, HoldInv, Handling, NotTaken, Pending
    <3> QED BY <2>a, <3>1, <3>2, <3>3, <3>4 DEF FileInv, UseInv
  <2>5. /\ AnswerInv' /\ LearntInv'
    BY <1>11, <2>a
       DEF PlaceInv, TypeOK, FileInv, QueueInv, Waits, MatchInv, AnswerInv,
           LearntInv, AcceptPending, Deciding, SendData
  <2> QED BY <2>1, <2>2, <2>3, <2>4, <2>5 DEF FileInv
<1>12. CASE DeclinePending
  <2>a. /\ Head(conn_q) \in Connections
        /\ conn_q' \in Seq(Connections)
        /\ Items(conn_q) = {Head(conn_q)} \cup Items(conn_q')
        /\ Head(conn_q) \notin Items(conn_q')
        /\ Distinct(conn_q')
    BY <1>12, <1>a, TailItems DEF Pending, DeclinePending
  <2>1. HeldInv'
    BY <1>12, <2>a
       DEF PlaceInv, FileInv, HoldInv, QueueInv, HeldInv, MatchInv, Handling,
           Receiving, Connections, DeclinePending, Pending, Close
  <2>2. FilesInv'
    BY <1>12 DEF PlaceInv, FileInv, FilesInv, DeclinePending, Close
  <2>3. MatchInv'
    BY <1>12, <1>a, <2>a
       DEF PlaceInv, FileInv, QueueInv, MatchInv, Connections, DeclinePending,
           Close
  <2>4. UseInv'
    BY <1>12, <1>a, <2>a
       DEF PlaceInv, FileInv, QueueInv, FilesInv, UseInv, MatchInv,
           Connections, DeclinePending, Deciding, Close
  <2>5. /\ AnswerInv' /\ LearntInv'
    BY <1>12, <2>a
       DEF PlaceInv, TypeOK, FileInv, QueueInv, Waits, MatchInv, AnswerInv,
           LearntInv, DeclinePending, Deciding, SendData
  <2> QED BY <2>1, <2>2, <2>3, <2>4, <2>5 DEF FileInv
<1>13. CASE SendFails
  <2>a. /\ Items(backlog') = {} /\ Distinct(backlog')
        /\ Items(conn_q') = {} /\ Distinct(conn_q')
    BY <1>13, EmptyItems DEF ServerEnds, SendFails
  <2>1. HeldInv'
    BY <1>13
       DEF PlaceInv, FileInv, HeldInv, Handling, Receiving, SendFails,
           ServerEnds
  <2>2. FilesInv'
    BY <1>13 DEF PlaceInv, FileInv, FilesInv, SendFails, ServerEnds
  <2>3. MatchInv'
    BY <1>13, <2>a DEF PlaceInv, FileInv, MatchInv, SendFails, ServerEnds
  <2>4. UseInv'
    BY <1>13 DEF PlaceInv, FileInv, UseInv, SendFails, ServerEnds
  <2>5. /\ AnswerInv' /\ LearntInv'
    BY <1>13
       DEF PlaceInv, FileInv, AnswerInv, LearntInv, SendFails, ServerEnds,
           Deciding, Undecided
  <2> QED BY <2>1, <2>2, <2>3, <2>4, <2>5 DEF FileInv
<1>14. CASE DeclineAll
  <2>a. /\ Items(conn_q') = {}
        /\ Queued = {a.conn : a \in Items(conn_q)}
        /\ {conn_q[k].fd : k \in 1..Len(conn_q)} = {a.fd : a \in Items(conn_q)}
    BY <1>14, EmptyItems DEF Queued, Items, DeclineAll
  <2>1. HeldInv'
    <3>1. Receiving => /\ cur.fd \in Fds /\ cur.conn \in Clients
                       /\ \A a \in Items(conn_q) : a.fd # cur.fd
      BY DEF PlaceInv, HoldInv, QueueInv, FileInv, HeldInv, MatchInv,
          Connections
    <3> QED
      BY <1>14, <2>a, <3>1
         DEF FileInv, HeldInv, Handling, Receiving, DeclineAll, Pending, Close
  <2>2. FilesInv'
    BY <1>14 DEF PlaceInv, FileInv, FilesInv, DeclineAll, Close
  <2>3. MatchInv'
    BY <1>14, <2>a DEF PlaceInv, FileInv, MatchInv, DeclineAll
  <2>4. UseInv'
    <3>1. \A f \in Fds : files'[f] \in Clients =>
             files'[f] = files[f] /\ \A a \in Items(conn_q) : a.fd # f
      <4>1. files' = Close({a.fd : a \in Items(conn_q)})
        BY <1>14, <2>a DEF DeclineAll
      <4> QED BY <4>1 DEF Close
    <3>2. \A f \in Fds, a \in Items(conn_q) :
             files[f] = a.conn /\ files[f] \in Clients => a.fd = f
      BY <1>a DEF FileInv, FilesInv, MatchInv, Connections
    <3>3. \A c \in Clients :
             (\A a \in Items(conn_q) : a.conn # c) => verdict'[c] = verdict[c]
      BY <1>14, <2>a DEF PlaceInv, Deciding, DeclineAll
    <3> QED BY <1>14, <3>1, <3>2, <3>3 DEF FileInv, UseInv, DeclineAll
  <2>5. /\ AnswerInv' /\ LearntInv'
    BY <1>14, <2>a
       DEF PlaceInv, FileInv, QueueInv, Waits, AnswerInv, LearntInv,
           DeclineAll, Deciding
  <2> QED BY <2>1, <2>2, <2>3, <2>4, <2>5 DEF FileInv
<1>15. CASE OpenPipe
  <2>a. PICK r \in Fds, w \in Fds :
          /\ files[r] = NoFile /\ files[w] = NoFile
          /\ files' = [files EXCEPT ![r] = "pipe", ![w] = "pipe"]
    BY <1>15 DEF OpenPipe, Lowest, FreeFds
  <2>b. \A g \in Fds : files'[g] \in Clients => files'[g] = files[g]
    BY <2>a DEF PlaceInv, TypeOK
  <2>1. HeldInv'
    BY <1>15
       DEF PlaceInv, TypeOK, FileInv, HoldInv, HeldInv, Handling, Receiving,
           Connections, OpenPipe, Lowest, FreeFds
  <2>2. FilesInv'
    BY <1>15, <2>b DEF FileInv, FilesInv, OpenPipe
  <2>3. MatchInv'
    BY <1>15, <1>a
       DEF PlaceInv, TypeOK, FileInv, MatchInv, Connections, OpenPipe, Lowest,
           FreeFds
  <2>4. UseInv'
    BY <1>15, <1>a
       DEF PlaceInv, TypeOK, FileInv, ReceiverInv, QueueInv, Waits, FilesInv,
           UseInv, Receiving, Connections, NotTaken, Nobody, OpenPipe, FreeFds
  <2>5. /\ AnswerInv' /\ LearntInv'
    BY <1>15 DEF PlaceInv, FileInv, AnswerInv, LearntInv, OpenPipe
  <2> QED BY <2>1, <2>2, <2>3, <2>4, <2>5 DEF FileInv
<1>16. CASE ForkChild
  <2>1. HeldInv'
    BY <1>16
       DEF PlaceInv, FileInv, HoldInv, HeldInv, Handling, Receiving,
           Connections, ForkChild, Close
  <2>2. FilesInv'
    BY <1>16 DEF PlaceInv, FileInv, FilesInv, ForkChild, Close
  <2>3. MatchInv'
    BY <1>16, <1>a
       DEF PlaceInv, FileInv, HeldInv, MatchInv, Connections, ForkChild, Close
  <2>4. UseInv'
    BY <1>16 DEF PlaceInv, FileInv, UseInv, ForkChild, Close
  <2>5. /\ AnswerInv' /\ LearntInv'
    BY <1>16 DEF PlaceInv, FileInv, AnswerInv, LearntInv, ForkChild
  <2> QED BY <2>1, <2>2, <2>3, <2>4, <2>5 DEF FileInv
<1>17. CASE EnjailReturns
  <2>1. HeldInv'
    BY <1>17
       DEF PlaceInv, FileInv, HoldInv, ReceiverInv, Waits, HeldInv, Handling,
           Receiving, Connections, EnjailReturns, Close
  <2>2. FilesInv'
    BY <1>17 DEF PlaceInv, FileInv, FilesInv, EnjailReturns, Close
  <2>3. MatchInv'
    BY <1>17, <1>a
       DEF PlaceInv, FileInv, QueueInv, Waits, HeldInv, MatchInv, Handling,
           Connections, EnjailReturns, Close
  <2>4. UseInv'
    BY <1>17
       DEF PlaceInv, FileInv, HoldInv, QueueInv, HeldInv, FilesInv, UseInv,
           EnjailReturns, Close
  <2>5. /\ AnswerInv' /\ LearntInv'
    BY <1>17 DEF PlaceInv, FileInv, AnswerInv, LearntInv, EnjailReturns
  <2> QED BY <2>1, <2>2, <2>3, <2>4, <2>5 DEF FileInv
<1>18. CASE EnjailThrows
  <2>a. /\ Items(backlog') = {} /\ Distinct(backlog')
        /\ Items(conn_q') = {} /\ Distinct(conn_q')
    BY <1>18, EmptyItems DEF ServerEnds, EnjailThrows
  <2>1. HeldInv'
    BY <1>18
       DEF PlaceInv, FileInv, HeldInv, Handling, Receiving, EnjailThrows,
           ServerEnds
  <2>2. FilesInv'
    BY <1>18 DEF PlaceInv, FileInv, FilesInv, EnjailThrows, ServerEnds
  <2>3. MatchInv'
    BY <1>18, <2>a DEF PlaceInv, FileInv, MatchInv, EnjailThrows, ServerEnds
  <2>4. UseInv'
    BY <1>18 DEF PlaceInv, FileInv, UseInv, EnjailThrows, ServerEnds
  <2>5. /\ AnswerInv' /\ LearntInv'
    BY <1>18
       DEF PlaceInv, FileInv, AnswerInv, LearntInv, EnjailThrows, ServerEnds,
           Deciding, Undecided
  <2> QED BY <2>1, <2>2, <2>3, <2>4, <2>5 DEF FileInv
<1>19. ASSUME NEW c \in Clients, ChildDies(c) PROVE FileInv'
  <2>1. HeldInv'
    BY <1>19 DEF PlaceInv, FileInv, HeldInv, Handling, Receiving, ChildDies
  <2>2. FilesInv'
    BY <1>19 DEF PlaceInv, FileInv, FilesInv, ChildDies
  <2>3. MatchInv'
    BY <1>19 DEF PlaceInv, FileInv, MatchInv, ChildDies
  <2>4. UseInv'
    BY <1>19 DEF PlaceInv, FileInv, UseInv, ChildDies
  <2>5. /\ AnswerInv' /\ LearntInv'
    BY <1>19 DEF PlaceInv, FileInv, AnswerInv, LearntInv, ChildDies
  <2> QED BY <2>1, <2>2, <2>3, <2>4, <2>5 DEF FileInv
<1>20. ASSUME NEW c \in Clients, Drop(c) PROVE FileInv'
  <2>1. HeldInv'
    BY <1>20 DEF PlaceInv, FileInv, HeldInv, Handling, Receiving, Drop
  <2>2. FilesInv'
    BY <1>20 DEF PlaceInv, FileInv, FilesInv, Drop
  <2>3. MatchInv'
    BY <1>20 DEF PlaceInv, FileInv, MatchInv, Drop
  <2>4. UseInv'
    BY <1>20 DEF PlaceInv, FileInv, UseInv, Drop
  <2>5. /\ AnswerInv' /\ LearntInv'
    BY <1>20 DEF PlaceInv, FileInv, AnswerInv, LearntInv, Drop
  <2> QED BY <2>1, <2>2, <2>3, <2>4, <2>5 DEF FileInv
<1>21. CASE Ended
  <2>1. HeldInv'
    BY <1>21 DEF PlaceInv, FileInv, HeldInv, Handling, Receiving, Ended, vars
  <2>2. FilesInv'
    BY <1>21 DEF PlaceInv, FileInv, FilesInv, Ended, vars
  <2>3. MatchInv'
    BY <1>21 DEF PlaceInv, FileInv, MatchInv, Ended, vars
  <2>4. UseInv'
    BY <1>21 DEF PlaceInv, FileInv, UseInv, Ended, vars
  <2>5. /\ AnswerInv' /\ LearntInv'
    BY <1>21 DEF PlaceInv, FileInv, AnswerInv, LearntInv, Ended, vars
  <2> QED BY <2>1, <2>2, <2>3, <2>4, <2>5 DEF FileInv
<1>22. CASE UNCHANGED vars
  BY <1>22
     DEF FileInv, HeldInv, FilesInv, MatchInv, UseInv, AnswerInv, LearntInv,
         Handling, Receiving, vars
<1> QED
  BY <1>1, <1>2, <1>3, <1>4, <1>5, <1>6, <1>7, <1>8, <1>9, <1>10, <1>11, <1>12,
     <1>13, <1>14, <1>15, <1>16, <1>17, <1>18, <1>19, <1>20, <1>21, <1>22
     DEF Next, Worker, Operator, Client

(* Both invariants hold in every reachable state.                          *)
LEMMA FileInvariance ==
  ASSUME ~AcceptsInWindow
  PROVE  Spec => [](PlaceInv /\ FileInv)
<1>1. Init => PlaceInv /\ FileInv
  BY InitPlaceInv, InitFileInv
<1>2. PlaceInv /\ FileInv /\ [Next]_vars => PlaceInv' /\ FileInv'
  BY StepPlaceInv, StepFileInv
<1> QED BY <1>1, <1>2, PTL DEF Spec

(* Outside the window a queued descriptor is the connection it was.        *)
THEOREM DescriptorsMatch ==
  ASSUME ~AcceptsInWindow
  PROVE  Spec => []QueueMatchesFiles
<1>1. FileInv => QueueMatchesFiles
  BY DEF FileInv, MatchInv, QueueMatchesFiles, Items
<1> QED BY <1>1, FileInvariance, PTL

(* Outside the window no descriptor is leaked but on the two known paths.  *)
THEOREM DescriptorsUsed ==
  ASSUME ~AcceptsInWindow
  PROVE  Spec => []OpenFilesAreInUse
<1>1. FileInv => OpenFilesAreInUse
  BY DEF FileInv, UseInv, OpenFilesAreInUse, Items, Queued
<1> QED BY <1>1, FileInvariance, PTL

(* Outside the window a client is turned away only if that was decided: the *)
(* second close of a pipe's end is all that can make README.md:59-60 wrong. *)
THEOREM RefusedIfDenied ==
  ASSUME ~AcceptsInWindow
  PROVE  Spec => []RefusedOnlyIfDenied
<1>1. FileInv => RefusedOnlyIfDenied
  BY DEF FileInv, LearntInv, RefusedOnlyIfDenied
<1> QED BY <1>1, FileInvariance, PTL

-----------------------------------------------------------------------------
(* No answer is lost: a client whose connection the operator accepts or    *)
(* declines has asked, and can read what was answered until it has ended.  *)

(* A client that has not sent its request.                                 *)
Silent(c) == client[c] \in {"idle", "connected"}

(* The operator sees nobody who has not sent a request.                    *)
HeardInv ==
  /\ \A c \in sent : ~Silent(c)
  /\ worker = "push" => ~Silent(cur.conn)
  /\ \A a \in Items(conn_q) : ~Silent(a.conn)
  /\ \A c \in Clients :
       verdict[c] \in {"accepted", "declined"} => ~Silent(c)

(* Nobody has sent anything, nothing is decided.                           *)
LEMMA InitHeardInv == Init => HeardInv
BY EmptyItems DEF Init, HeardInv

(* Every step keeps that, because a request is read before it is queued.   *)
LEMMA StepHeardInv ==
  ASSUME PlaceInv, HeardInv, [Next]_vars
  PROVE  HeardInv'
<1> USE DEF clients, queue, child
<1>1. /\ client \in [Clients -> {"idle", "connected", "waiting", "admitted",
                                 "refused", "gone"}]
      /\ verdict \in [Clients -> Verdicts]
      /\ conn_q \in Seq(Connections) /\ Distinct(conn_q)
      /\ Receiving => cur \in Connections
  BY DEF PlaceInv, TypeOK, QueueInv, HoldInv
<1>2. ASSUME \A c \in Clients : ~Silent(c) => ~Silent(c)',
             \/ sent' = sent
             \/ \E c \in Clients : ~Silent(c)' /\ sent' = sent \cup {c},
             UNCHANGED <<queue, verdict>>
      PROVE  HeardInv'
  <2>1. Items(conn_q)' = Items(conn_q) /\ Items(conn_q) \subseteq Connections
    BY <1>1, <1>2, ItemsType DEF Items
  <2>2. sent \subseteq Clients
    BY DEF PlaceInv, TypeOK
  <2> QED
    BY <1>1, <1>2, <2>1, <2>2
       DEF HeardInv, Silent, Receiving, Connections
<1>3. ASSUME NEW c \in Clients, Client(c) PROVE HeardInv'
  BY <1>1, <1>2, <1>3
     DEF Client, Connect, SendRequest, ReadAnswer, ClientDies, Silent
<1>4. ASSUME UNCHANGED <<client, sent>>,
             worker' = "push" => worker = "push" /\ cur' = cur,
             Items(conn_q)' \subseteq Items(conn_q),
             \A c \in Clients :
               verdict'[c] \in {"accepted", "declined"} =>
                 verdict[c] \in {"accepted", "declined"} \/ ~Silent(c)
      PROVE  HeardInv'
  BY <1>4 DEF HeardInv, Silent
<1>5. CASE Worker
  <2>1. CASE Accept
    BY <1>4, <2>1 DEF Accept, Items
  <2>2. CASE PollTimesOut
    BY <1>1, <1>4, <2>2 DEF PollTimesOut, Deciding, Items
  <2>3. CASE Receive
    <3>1. Items(conn_q)' = Items(conn_q)
      BY <2>3 DEF Receive, Items
    <3>2. CASE verdict' = verdict
      BY <2>3, <3>1, <3>2 DEF Receive, HeardInv, Silent
    <3>3. CASE verdict' # verdict
      BY <1>1, <1>4, <2>3, <3>1, <3>3 DEF Receive, Deciding
    <3> QED BY <3>2, <3>3
  <2>4. CASE Push
    <3>1. cur \in Connections /\ cur \notin Items(conn_q)
      BY <1>1, <2>4 DEF PlaceInv, QueueInv, Receiving, Push
    <3>2. Items(conn_q)' = Items(conn_q) \cup {cur}
      BY <1>1, <2>4, <3>1, AppendItems DEF Push
    <3> QED BY <2>4, <3>2 DEF Push, HeardInv, Silent
  <2> QED BY <1>5, <2>1, <2>2, <2>3, <2>4 DEF Worker
<1>6. CASE Operator
  <2>1. Pending =>
          /\ Head(conn_q) \in Items(conn_q)
          /\ Items(Tail(conn_q)) \subseteq Items(conn_q)
    BY <1>1, TailItems DEF Pending
  <2>2. CASE RefuseDuplicate \/ DeclinePending \/ AcceptPending
    <3>1. Pending /\ conn_q' = Tail(conn_q)
          /\ UNCHANGED <<client, sent, worker, cur>>
      BY <2>2 DEF RefuseDuplicate, DeclinePending, AcceptPending
    <3>2. PICK what \in Verdicts : Deciding({Head(conn_q).conn}, what)
      BY <2>2 DEF RefuseDuplicate, DeclinePending, AcceptPending, Verdicts
    <3>3. ~Silent(Head(conn_q).conn)
      BY <2>1, <3>1 DEF HeardInv
    <3> QED BY <1>1, <1>4, <2>1, <3>1, <3>2, <3>3 DEF Deciding, Items
  <2>3. CASE SendFails \/ Exit
    BY <1>1, <1>4, <2>3, EmptyItems
       DEF SendFails, Exit, ServerEnds, Deciding
  <2>4. CASE DeclineAll
    BY <1>1, <1>4, <2>4, EmptyItems DEF DeclineAll, Deciding
  <2>5. CASE ForkChild \/ \E c \in Clients : Drop(c)
    BY <1>4, <2>5 DEF ForkChild, Drop, Items
  <2> QED BY <1>6, <2>2, <2>3, <2>4, <2>5 DEF Operator
<1>7. CASE EnjailThrows
  BY <1>1, <1>4, <1>7, EmptyItems DEF EnjailThrows, ServerEnds, Deciding
<1>8. CASE OpenPipe \/ EnjailReturns \/ \E c \in Clients : ChildDies(c)
  BY <1>4, <1>8 DEF OpenPipe, EnjailReturns, ChildDies, Items
<1>9. CASE UNCHANGED vars
  BY <1>4, <1>9 DEF vars, Items
<1> QED
  BY <1>3, <1>5, <1>6, <1>7, <1>8, <1>9 DEF Next, Ended

(* Whoever the operator has accepted or declined has got its answer, and   *)
(* has ended or is waiting for nothing else.                               *)
AnswerWaits ==
  \A c \in Clients : verdict[c] \in {"accepted", "declined"} =>
    /\ answer[c] = IF verdict[c] = "accepted" THEN "YEP" ELSE "NOPE"
    /\ HasClosed(c) \/ client[c] = "waiting"

(* Outside the window no answer is lost: the server does not stand between *)
(* a client and what was decided about it (Server.cpp:309, 312).           *)
THEOREM AnswersWait ==
  ASSUME ~AcceptsInWindow
  PROVE  Spec => []AnswerWaits
<1>1. PlaceInv /\ FileInv /\ HeardInv => AnswerWaits
  BY DEF PlaceInv, TypeOK, FileInv, AnswerInv, HeardInv, Silent, HasClosed,
         AnswerWaits
<1>2. Spec => []HeardInv
  <2>1. PlaceInv /\ HeardInv /\ [Next]_vars => HeardInv'
    BY StepHeardInv
  <2> QED BY <2>1, InitHeardInv, PlaceInvariance, PTL DEF Spec
<1> QED BY <1>1, <1>2, FileInvariance, PTL

(* What lets a client read: an answer, or the end of its connection.       *)
CanRead(c) ==
  client[c] = "waiting" /\ (answer[c] # "none" \/ ~OpenAtServer(c))

(* Weak fairness of ReadAnswer(c), its guard spelled out.                  *)
Reads(c) == []<>~CanRead(c) \/ []<><<ReadAnswer(c)>>_vars

(* So that it learns it, if it only reads (Client.cpp:82-96).              *)
THEOREM DecidedLearn ==
  ASSUME ~AcceptsInWindow
  PROVE  Spec /\ (\A c \in Clients : Reads(c)) => DecidedClientsLearn
<1>1. ASSUME NEW c \in Clients
      PROVE  Spec /\ Reads(c) =>
               (verdict[c] \in {"accepted", "declined"} ~> HasClosed(c))
  <2> DEFINE Told == verdict[c] \in {"accepted", "declined"}
  <2>1. AnswerWaits /\ Told => HasClosed(c) \/ CanRead(c)
    BY <1>1 DEF AnswerWaits, CanRead
  <2>2. PlaceInv /\ [Next]_vars /\ Told => Told'
    BY <1>1, StepDecidesOnce
  <2>3. PlaceInv /\ <<ReadAnswer(c)>>_vars => HasClosed(c)'
    BY <1>1 DEF PlaceInv, TypeOK, ReadAnswer, HasClosed
  <2> QED
    BY <2>1, <2>2, <2>3, AnswersWait, PlaceInvariance, PTL DEF Spec, Reads
<1> QED BY <1>1 DEF DecidedClientsLearn

-----------------------------------------------------------------------------
(* Handshake implements Admission: a step of a client is its step there, a *)
(* decision is a Grant or a Deny, and everything else is a stutter.        *)

(* The two variables of Admission, as the INSTANCE maps them.              *)
asking == [c \in Clients |-> IF client[c] \in {"connected", "waiting"}
                               THEN "asking" ELSE client[c]]

granted == [c \in Clients |-> CASE verdict[c] = "none"     -> "none"
                                [] verdict[c] = "accepted" -> "granted"
                                [] OTHER                   -> "denied"]

(* Nobody has asked, nothing is decided.                                   *)
LEMMA InitAdmission == Init => Decisions!Init
BY DEF Init, Decisions!Init

(* Deciding against some is Deny.                                          *)
LEMMA DenySome ==
  ASSUME PlaceInv, NEW S \in SUBSET Clients,
         NEW what \in Verdicts \ {"none", "accepted"},
         \A c \in S : Waits(c),
         Deciding(S, what), UNCHANGED client
  PROVE  Decisions!Deny(S)
<1>1. \A c \in S : asking[c] # "idle" /\ granted[c] = "none"
  BY DEF Waits, asking, granted
<1>2. granted' = [c \in Clients |-> IF c \in S THEN "denied" ELSE granted[c]]
  BY DEF Deciding, granted, Verdicts
<1>3. asking' = asking
  BY DEF asking
<1> QED
  BY <1>1, <1>2, <1>3 DEF Decisions!Deny, Decisions!Decide, asking, granted

(* Deciding for one is Grant.                                              *)
LEMMA GrantOne ==
  ASSUME PlaceInv, NEW d \in Clients, Waits(d),
         Deciding({d}, "accepted"), UNCHANGED client
  PROVE  Decisions!Grant(d)
<1>1. asking[d] # "idle" /\ granted[d] = "none"
  BY DEF Waits, asking, granted
<1>2. granted' =
        [c \in Clients |-> IF c \in {d} THEN "granted" ELSE granted[c]]
  BY DEF Deciding, granted
<1>3. asking' = asking
  BY DEF asking
<1> QED
  BY <1>1, <1>2, <1>3 DEF Decisions!Grant, Decisions!Decide, asking, granted

(* What has been sent to a client, or the end of its connection, is what   *)
(* was decided about it.                                                   *)
LEMMA ReadIsLearn ==
  ASSUME PlaceInv, FileInv, NEW c \in Clients, ReadAnswer(c)
  PROVE  Decisions!Learn(c)
<1> USE DEF queue, child
<1>1. client[c] = "waiting" /\ client \in [Clients -> {"idle", "connected",
        "waiting", "admitted", "refused", "gone"}] /\ verdict' = verdict
  BY DEF ReadAnswer, PlaceInv, TypeOK
<1>2. CASE answer[c] = "YEP" /\ client' = [client EXCEPT ![c] = "admitted"]
  BY <1>1, <1>2 DEF FileInv, AnswerInv, Decisions!Learn
<1>3. CASE answer[c] = "NOPE" /\ client' = [client EXCEPT ![c] = "refused"]
  BY <1>1, <1>3 DEF FileInv, AnswerInv, Decisions!Learn
<1>4. CASE /\ answer[c] = "none" /\ ~OpenAtServer(c)
           /\ client' = [client EXCEPT ![c] = "refused"]
  <2>1. verdict[c] \notin {"none", "accepted"}
    BY <1>1, <1>4, EndOfConnection DEF FileInv, AnswerInv
  <2> QED BY <1>1, <1>4, <2>1 DEF Decisions!Learn
<1> QED BY <1>2, <1>3, <1>4 DEF ReadAnswer

(* Every step of the handshake is a step of Admission or a stutter.        *)
LEMMA StepAdmission ==
  ASSUME PlaceInv, FileInv, [Next]_vars
  PROVE  [Decisions!Next]_(Decisions!vars)
<1> USE DEF clients, queue, child
<1>a. client \in [Clients -> {"idle", "connected", "waiting", "admitted",
                              "refused", "gone"}]
  BY DEF PlaceInv, TypeOK
<1>1. CASE UNCHANGED <<client, verdict>>
  BY <1>1 DEF Decisions!vars
<1>2. CASE \E S \in SUBSET Clients : Decisions!Deny(S)
  BY <1>2 DEF Decisions!Next
<1>3. CASE \E c \in Clients : Decisions!Grant(c)
  BY <1>3 DEF Decisions!Next
<1>4. ASSUME NEW c \in Clients, Connect(c)
      PROVE  Decisions!Ask(c)
  BY <1>a, <1>4 DEF Connect, Decisions!Ask
<1>5. ASSUME NEW c \in Clients, SendRequest(c)
      PROVE  UNCHANGED Decisions!vars
  BY <1>5 DEF SendRequest, Decisions!vars
<1>6. ASSUME NEW c \in Clients, ClientDies(c)
      PROVE  Decisions!Leave(c)
  BY <1>a, <1>6 DEF ClientDies, Decisions!Leave
<1>7. CASE Worker
  <2>1. Receiving => cur.conn \in Clients /\ Waits(cur.conn)
    BY DEF PlaceInv, HoldInv, ReceiverInv, Connections
  <2>2. ASSUME Receiving, NEW what \in Verdicts \ {"none", "accepted"},
               Deciding({cur.conn}, what), UNCHANGED client
        PROVE  [Decisions!Next]_(Decisions!vars)
    BY <2>1, <2>2, DenySome, <1>2
  <2> QED
    BY <1>7, <1>1, <2>2
       DEF Worker, Accept, PollTimesOut, Receive, Push, Receiving, Verdicts
<1>8. CASE Operator
  <2>1. Pending => Head(conn_q).conn \in Clients /\ Waits(Head(conn_q).conn)
    <3>1. SUFFICES ASSUME Pending
                   PROVE  /\ Head(conn_q).conn \in Clients
                          /\ Waits(Head(conn_q).conn)
      OBVIOUS
    <3>2. Head(conn_q) \in Connections /\ Head(conn_q) \in Items(conn_q)
      BY <3>1, TailItems DEF PlaceInv, TypeOK, QueueInv, Pending
    <3> QED BY <3>2 DEF PlaceInv, QueueInv, Connections
  <2>2. CASE RefuseDuplicate \/ DeclinePending
    <3>1. PICK what \in {"duplicate", "declined"} :
            Pending /\ Deciding({Head(conn_q).conn}, what) /\ UNCHANGED client
      BY <2>2 DEF RefuseDuplicate, DeclinePending
    <3>2. what \in Verdicts \ {"none", "accepted"}
      BY DEF Verdicts
    <3> QED BY <2>1, <3>1, <3>2, DenySome, <1>2
  <2>3. CASE AcceptPending
    BY <2>1, <2>3, GrantOne, <1>3 DEF AcceptPending
  <2>4. CASE SendFails \/ Exit
    BY <2>4, DenySome, <1>2 DEF SendFails, Exit, Undecided, Waits, Verdicts
  <2>5. CASE DeclineAll
    <3>1. Queued \subseteq Clients /\ \A c \in Queued : Waits(c)
      <4>1. Queued = {a.conn : a \in Items(conn_q)}
        BY DEF Queued, Items
      <4>2. Items(conn_q) \subseteq Connections
        BY ItemsType DEF PlaceInv, TypeOK
      <4> QED BY <4>1, <4>2 DEF PlaceInv, QueueInv, Connections
    <3> QED BY <2>5, <3>1, DenySome, <1>2 DEF DeclineAll, Verdicts
  <2> QED
    BY <1>8, <1>1, <2>2, <2>3, <2>4, <2>5 DEF Operator, ForkChild, Drop
<1>9. CASE EnjailThrows
  BY <1>9, DenySome, <1>2 DEF EnjailThrows, Undecided, Waits, Verdicts
<1>10. ASSUME NEW c \in Clients, Client(c)
       PROVE  [Decisions!Next]_(Decisions!vars)
  BY <1>10, <1>4, <1>5, <1>6, ReadIsLearn DEF Client, Decisions!Next
<1>11. CASE OpenPipe \/ EnjailReturns \/ \E c \in Clients : ChildDies(c)
  BY <1>11, <1>1 DEF OpenPipe, EnjailReturns, ChildDies
<1> QED
  BY <1>1, <1>7, <1>8, <1>9, <1>10, <1>11 DEF Next, Ended, vars

(* Outside the window the handshake implements Admission: a client is      *)
(* admitted only if it was accepted, and is turned away only if that was   *)
(* decided.                                                                *)
THEOREM AdmissionKept ==
  ASSUME ~AcceptsInWindow
  PROVE  Spec => ImplementsAdmission
<1>1. PlaceInv /\ FileInv /\ [Next]_vars => [Decisions!Next]_(Decisions!vars)
  BY StepAdmission
<1> QED
  BY <1>1, InitAdmission, FileInvariance, PTL
     DEF Spec, ImplementsAdmission, Decisions!Spec

=============================================================================
