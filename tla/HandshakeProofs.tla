--------------------------- MODULE HandshakeProofs ---------------------------
(***************************************************************************)
(* Theorems about Handshake, for any number of clients, descriptors and    *)
(* places in the backlog.  A connection is in one place at a time: in the  *)
(* backlog, with the receiver, in the queue or with the operator.  From    *)
(* that follows, whatever becomes of its descriptor, that it is decided    *)
(* about once and that two clients of one address never get in.            *)
(***************************************************************************)
EXTENDS Handshake, TLAPS

(* What is in a sequence, and that nothing is in it twice.                 *)
Items(s) == {s[k] : k \in 1..Len(s)}
Distinct(s) == \A j, k \in 1..Len(s) : s[j] = s[k] => j = k

(* The prompt thread, the receiver have a connection in hand.              *)
Handling == prompt \in {"pipe", "enjail", "wait"}
Receiving == worker \in {"poll", "push"}

(* What the receiver and the prompt thread hold.                           *)
HoldInv ==
  /\ IF Receiving THEN cur \in Connections ELSE cur = Nobody
  /\ worker = "off" <=> prompt = "down"
  /\ IF Handling THEN taken.conn \in Clients /\ taken.fd \in Fds
                 ELSE taken = NotTaken

(* The client that is being let in is the only one of its address.         *)
AddressInv == Handling => ~Duplicate(taken.conn)

(* A connection that waits has asked, and nothing is decided about it yet. *)
Waits(c) == client[c] # "idle" /\ verdict[c] = "none"

(* Nothing is decided about a client that has not connected.               *)
AskedInv ==
  \A c \in Clients : client[c] = "idle" => verdict[c] = "none"

(* The backlog holds each connection once, and only such as wait.          *)
BacklogInv ==
  /\ Distinct(backlog)
  /\ \A c \in Items(backlog) : Waits(c)

(* What the receiver holds has left the backlog.                           *)
ReceiverInv == Receiving => Waits(cur.conn) /\ cur.conn \notin Items(backlog)

(* A queued connection waits, and is in no other place and in no other     *)
(* entry.                                                                  *)
QueueInv ==
  /\ Distinct(conn_q)
  /\ \A a \in Items(conn_q) :
       /\ Waits(a.conn)
       /\ a.conn \notin Items(backlog)
       /\ Receiving => a.conn # cur.conn
       /\ \A b \in Items(conn_q) : a.conn = b.conn => a = b

(* No connection is lost sight of before it is decided about.              *)
SightInv ==
  \A c \in Clients : Waits(c) =>
    \/ c \in Items(backlog)
    \/ Receiving /\ cur.conn = c
    \/ \E a \in Items(conn_q) : a.conn = c

(* The inductive invariant.                                                *)
PlaceInv ==
  /\ TypeOK
  /\ HoldInv
  /\ AddressInv
  /\ OneClientPerAddress
  /\ AskedInv
  /\ BacklogInv
  /\ ReceiverInv
  /\ QueueInv
  /\ SightInv

-----------------------------------------------------------------------------
(* Sequences, as the set of what is in them.                               *)

(* What is in a sequence has the type of the sequence's elements.          *)
LEMMA ItemsType ==
  ASSUME NEW S, NEW s \in Seq(S)
  PROVE  Items(s) \subseteq S
BY DEF Items

(* Nothing is in the empty sequence.                                       *)
LEMMA EmptyItems == Items(<<>>) = {} /\ Distinct(<<>>)
BY DEF Items, Distinct

(* Taking the head away leaves the other items.                            *)
LEMMA TailItems ==
  ASSUME NEW S, NEW s \in Seq(S), s # <<>>, Distinct(s)
  PROVE  /\ Head(s) \in S
         /\ Tail(s) \in Seq(S)
         /\ Distinct(Tail(s))
         /\ Items(s) = {Head(s)} \cup Items(Tail(s))
         /\ Head(s) \notin Items(Tail(s))
<1>1. /\ Head(s) = s[1] /\ 1 \in 1..Len(s)
      /\ Tail(s) \in Seq(S)
      /\ Len(Tail(s)) = Len(s) - 1
      /\ \A k \in 1..Len(Tail(s)) :
           k + 1 \in 1..Len(s) /\ Tail(s)[k] = s[k + 1]
  OBVIOUS
<1>2. \A k \in 1..Len(s) :
        k = 1 \/ (k - 1 \in 1..Len(Tail(s)) /\ Tail(s)[k - 1] = s[k])
  <2> TAKE k \in 1..Len(s)
  <2> SUFFICES ASSUME k # 1
               PROVE  /\ k - 1 \in 1..Len(Tail(s))
                      /\ Tail(s)[k - 1] = s[k]
    OBVIOUS
  <2>1. k - 1 \in 1..Len(Tail(s)) /\ (k - 1) + 1 = k
    BY <1>1
  <2> QED BY <2>1, <1>1
<1>3. Head(s) \in S
  BY <1>1
<1>4. Items(s) = {Head(s)} \cup Items(Tail(s))
  <2>1. Items(s) \subseteq {Head(s)} \cup Items(Tail(s))
    BY <1>1, <1>2 DEF Items
  <2>2. Items(Tail(s)) \subseteq Items(s)
    BY <1>1 DEF Items
  <2>3. Head(s) \in Items(s)
    BY <1>1 DEF Items
  <2> QED BY <2>1, <2>2, <2>3
<1>5. Distinct(Tail(s))
  <2> SUFFICES ASSUME NEW j \in 1..Len(Tail(s)), NEW k \in 1..Len(Tail(s)),
                      Tail(s)[j] = Tail(s)[k]
               PROVE  j = k
    BY DEF Distinct
  <2>1. j + 1 \in 1..Len(s) /\ k + 1 \in 1..Len(s) /\ s[j + 1] = s[k + 1]
    BY <1>1
  <2>2. j + 1 = k + 1
    BY <2>1 DEF Distinct
  <2> QED BY <2>2, <1>1
<1>6. Head(s) \notin Items(Tail(s))
  <2> SUFFICES ASSUME NEW k \in 1..Len(Tail(s)), Tail(s)[k] = Head(s)
               PROVE  FALSE
    BY DEF Items
  <2>1. k + 1 \in 1..Len(s) /\ s[k + 1] = s[1] /\ 1 \in 1..Len(s)
    BY <1>1
  <2>2. k + 1 = 1
    BY <2>1 DEF Distinct
  <2> QED BY <2>2
<1> QED BY <1>1, <1>3, <1>4, <1>5, <1>6

(* Appending an item adds it.                                              *)
LEMMA AppendItems ==
  ASSUME NEW S, NEW s \in Seq(S), NEW e \in S, Distinct(s), e \notin Items(s)
  PROVE  /\ Append(s, e) \in Seq(S)
         /\ Items(Append(s, e)) = Items(s) \cup {e}
         /\ Distinct(Append(s, e))
<1>1. /\ Append(s, e) \in Seq(S)
      /\ Len(Append(s, e)) = Len(s) + 1
      /\ Len(s) \in Nat
      /\ Append(s, e)[Len(s) + 1] = e
      /\ \A k \in 1..Len(s) : Append(s, e)[k] = s[k]
  OBVIOUS
<1>2. 1..(Len(s) + 1) = 1..Len(s) \cup {Len(s) + 1}
  BY <1>1
<1>3. Items(Append(s, e)) = Items(s) \cup {e}
  BY <1>1, <1>2 DEF Items
<1>4. Distinct(Append(s, e))
  BY <1>1, <1>2 DEF Distinct, Items
<1> QED BY <1>1, <1>3, <1>4

-----------------------------------------------------------------------------

(* In the beginning nobody has asked.                                      *)
LEMMA InitPlaceInv == Init => PlaceInv
BY HandshakeAssumption, EmptyItems
   DEF Init, PlaceInv, TypeOK, HoldInv, AddressInv, OneClientPerAddress,
       AskedInv, BacklogInv, ReceiverInv, QueueInv, SightInv, Handling,
       Receiving, Waits, Verdicts, NotTaken

(* Every step keeps every connection in its one place.                     *)
LEMMA StepPlaceInv ==
  ASSUME PlaceInv, [Next]_vars
  PROVE  PlaceInv'
<1> USE DEF clients, queue, child
<1>a. /\ Items(backlog) \subseteq Clients /\ Distinct(backlog)
      /\ Items(conn_q) \subseteq Connections /\ Distinct(conn_q)
      /\ backlog \in Seq(Clients) /\ conn_q \in Seq(Connections)
  BY ItemsType DEF PlaceInv, TypeOK, BacklogInv, QueueInv
<1>1. ASSUME NEW c \in Clients, Connect(c) PROVE PlaceInv'
  <2>a. /\ c \notin Items(backlog)
        /\ backlog' \in Seq(Clients)
        /\ Items(backlog') = Items(backlog) \cup {c}
        /\ Distinct(backlog')
    BY <1>1, <1>a, AppendItems DEF PlaceInv, BacklogInv, Waits, Connect
  <2>1. TypeOK'
    BY <1>1 DEF PlaceInv, TypeOK, Connect
  <2>2. /\ HoldInv' /\ AddressInv' /\ OneClientPerAddress'
    BY <1>1
       DEF PlaceInv, HoldInv, AddressInv, OneClientPerAddress, Handling,
           Receiving, Duplicate, Connect
  <2>3. /\ AskedInv' /\ BacklogInv' /\ ReceiverInv' /\ QueueInv'
    BY <1>1, <2>a
       DEF PlaceInv, TypeOK, AskedInv, BacklogInv, ReceiverInv, QueueInv,
           Waits, Receiving, Connect
  <2>4. SightInv'
    BY <1>1, <2>a DEF PlaceInv, SightInv, Waits, Receiving, Connect
  <2> QED BY <2>1, <2>2, <2>3, <2>4 DEF PlaceInv
<1>2. ASSUME NEW c \in Clients, SendRequest(c) PROVE PlaceInv'
  <2>1. TypeOK'
    BY <1>2 DEF PlaceInv, TypeOK, SendRequest
  <2>2. /\ HoldInv' /\ AddressInv' /\ OneClientPerAddress'
    BY <1>2
       DEF PlaceInv, HoldInv, AddressInv, OneClientPerAddress, Handling,
           Receiving, Duplicate, SendRequest
  <2>3. /\ AskedInv' /\ BacklogInv' /\ ReceiverInv' /\ QueueInv'
    BY <1>2
       DEF PlaceInv, AskedInv, BacklogInv, ReceiverInv, QueueInv, Waits,
           Receiving, SendRequest
  <2>4. SightInv'
    BY <1>2 DEF PlaceInv, SightInv, Waits, Receiving, SendRequest
  <2> QED BY <2>1, <2>2, <2>3, <2>4 DEF PlaceInv
<1>3. ASSUME NEW c \in Clients, ReadAnswer(c) PROVE PlaceInv'
  <2>1. TypeOK'
    BY <1>3 DEF PlaceInv, TypeOK, ReadAnswer
  <2>2. /\ HoldInv' /\ AddressInv' /\ OneClientPerAddress'
    BY <1>3
       DEF PlaceInv, HoldInv, AddressInv, OneClientPerAddress, Handling,
           Receiving, Duplicate, ReadAnswer
  <2>3. /\ AskedInv' /\ BacklogInv' /\ ReceiverInv' /\ QueueInv'
    BY <1>3, <1>a
       DEF PlaceInv, TypeOK, HoldInv, AskedInv, BacklogInv, ReceiverInv,
           QueueInv, Waits, Receiving, Connections, ReadAnswer
  <2>4. SightInv'
    BY <1>3 DEF PlaceInv, TypeOK, SightInv, Waits, Receiving, ReadAnswer
  <2> QED BY <2>1, <2>2, <2>3, <2>4 DEF PlaceInv
<1>4. ASSUME NEW c \in Clients, ClientDies(c) PROVE PlaceInv'
  <2>1. TypeOK'
    BY <1>4 DEF PlaceInv, TypeOK, ClientDies
  <2>2. /\ HoldInv' /\ AddressInv' /\ OneClientPerAddress'
    BY <1>4
       DEF PlaceInv, HoldInv, AddressInv, OneClientPerAddress, Handling,
           Receiving, Duplicate, ClientDies
  <2>3. /\ AskedInv' /\ BacklogInv' /\ ReceiverInv' /\ QueueInv'
    BY <1>4
       DEF PlaceInv, AskedInv, BacklogInv, ReceiverInv, QueueInv, Waits,
           Receiving, ClientDies
  <2>4. SightInv'
    BY <1>4 DEF PlaceInv, SightInv, Waits, Receiving, ClientDies
  <2> QED BY <2>1, <2>2, <2>3, <2>4 DEF PlaceInv
<1>5. CASE Accept
  <2>a. /\ Head(backlog) \in Clients
        /\ backlog' \in Seq(Clients)
        /\ Items(backlog) = {Head(backlog)} \cup Items(backlog')
        /\ Head(backlog) \notin Items(backlog')
        /\ Distinct(backlog')
    BY <1>5, <1>a, TailItems DEF Accept
  <2>1. TypeOK'
    BY <1>5 DEF PlaceInv, TypeOK, Connections, Accept
  <2>2. /\ HoldInv' /\ AddressInv' /\ OneClientPerAddress'
    BY <1>5, <2>a
       DEF PlaceInv, HoldInv, AddressInv, OneClientPerAddress, Handling,
           Receiving, Connections, Duplicate, Accept
  <2>3. /\ AskedInv' /\ BacklogInv' /\ ReceiverInv' /\ QueueInv'
    BY <1>5, <2>a
       DEF PlaceInv, AskedInv, BacklogInv, ReceiverInv, QueueInv, Waits, Accept
  <2>4. SightInv'
    BY <1>5, <2>a DEF PlaceInv, SightInv, Waits, Receiving, Accept
  <2> QED BY <2>1, <2>2, <2>3, <2>4 DEF PlaceInv
<1>6. CASE PollTimesOut
  <2>1. TypeOK'
    BY <1>6 DEF PlaceInv, TypeOK, Verdicts, PollTimesOut, Deciding, Close
  <2>2. /\ HoldInv' /\ AddressInv' /\ OneClientPerAddress'
    BY <1>6
       DEF PlaceInv, HoldInv, AddressInv, OneClientPerAddress, Handling,
           Receiving, Duplicate, PollTimesOut
  <2>3. /\ AskedInv' /\ BacklogInv' /\ ReceiverInv' /\ QueueInv'
    BY <1>6, <1>a
       DEF PlaceInv, AskedInv, BacklogInv, ReceiverInv, QueueInv, Waits,
           Receiving, Connections, PollTimesOut, Deciding
  <2>4. SightInv'
    BY <1>6 DEF PlaceInv, SightInv, Waits, PollTimesOut, Deciding
  <2> QED BY <2>1, <2>2, <2>3, <2>4 DEF PlaceInv
<1>7. CASE Receive
  <2>1. TypeOK'
    BY <1>7 DEF PlaceInv, TypeOK, Verdicts, Receive, Deciding
  <2>2. /\ HoldInv' /\ AddressInv' /\ OneClientPerAddress'
    BY <1>7
       DEF PlaceInv, HoldInv, AddressInv, OneClientPerAddress, Handling,
           Receiving, Duplicate, Receive
  <2>3. /\ AskedInv' /\ BacklogInv' /\ ReceiverInv' /\ QueueInv'
    BY <1>7, <1>a
       DEF PlaceInv, AskedInv, BacklogInv, ReceiverInv, QueueInv, Waits,
           Receiving, Connections, Receive, Deciding
  <2>4. SightInv'
    BY <1>7 DEF PlaceInv, SightInv, Waits, Receiving, Receive, Deciding
  <2> QED BY <2>1, <2>2, <2>3, <2>4 DEF PlaceInv
<1>8. CASE Push
  <2>a. /\ cur \in Connections /\ cur \notin Items(conn_q)
        /\ conn_q' \in Seq(Connections)
        /\ Items(conn_q') = Items(conn_q) \cup {cur}
        /\ Distinct(conn_q')
    BY <1>8, <1>a, AppendItems DEF PlaceInv, HoldInv, QueueInv, Receiving, Push
  <2>1. TypeOK'
    BY <1>8, <2>a DEF PlaceInv, TypeOK, Push
  <2>2. /\ HoldInv' /\ AddressInv' /\ OneClientPerAddress'
    BY <1>8
       DEF PlaceInv, HoldInv, AddressInv, OneClientPerAddress, Handling,
           Receiving, Duplicate, Push
  <2>3. /\ AskedInv' /\ BacklogInv' /\ ReceiverInv' /\ QueueInv'
    BY <1>8, <2>a
       DEF PlaceInv, AskedInv, BacklogInv, ReceiverInv, QueueInv, Waits,
           Receiving, Push
  <2>4. SightInv'
    BY <1>8, <2>a DEF PlaceInv, SightInv, Waits, Push
  <2> QED BY <2>1, <2>2, <2>3, <2>4 DEF PlaceInv
<1>9. CASE Exit
  <2>a. /\ Items(backlog') = {} /\ Distinct(backlog')
        /\ Items(conn_q') = {} /\ Distinct(conn_q')
    BY <1>9, EmptyItems DEF ServerEnds, Exit
  <2>1. TypeOK'
    BY <1>9
       DEF PlaceInv, TypeOK, NotTaken, Verdicts, Exit, ServerEnds, Deciding
  <2>2. /\ HoldInv' /\ AddressInv' /\ OneClientPerAddress'
    BY <1>9
       DEF PlaceInv, HoldInv, AddressInv, OneClientPerAddress, Handling,
           Receiving, Exit, ServerEnds
  <2>3. /\ AskedInv' /\ BacklogInv' /\ ReceiverInv' /\ QueueInv'
    BY <1>9, <2>a
       DEF PlaceInv, AskedInv, BacklogInv, ReceiverInv, QueueInv, Waits,
           Receiving, Exit, ServerEnds, Deciding, Undecided
  <2>4. SightInv'
    BY <1>9
       DEF PlaceInv, SightInv, Waits, Exit, ServerEnds, Deciding, Undecided
  <2> QED BY <2>1, <2>2, <2>3, <2>4 DEF PlaceInv
<1>10. CASE RefuseDuplicate
  <2>a. /\ Head(conn_q) \in Connections
        /\ conn_q' \in Seq(Connections)
        /\ Items(conn_q) = {Head(conn_q)} \cup Items(conn_q')
        /\ Head(conn_q) \notin Items(conn_q')
        /\ Distinct(conn_q')
    BY <1>10, <1>a, TailItems DEF Pending, RefuseDuplicate
  <2>1. TypeOK'
    BY <1>10, <2>a DEF PlaceInv, TypeOK, Verdicts, RefuseDuplicate, Deciding
  <2>2. /\ HoldInv' /\ AddressInv' /\ OneClientPerAddress'
    BY <1>10
       DEF PlaceInv, HoldInv, AddressInv, OneClientPerAddress, Handling,
           Receiving, RefuseDuplicate, Pending
  <2>3. /\ AskedInv' /\ BacklogInv' /\ ReceiverInv' /\ QueueInv'
    BY <1>10, <1>a, <2>a
       DEF PlaceInv, HoldInv, AskedInv, BacklogInv, ReceiverInv, QueueInv,
           Waits, Receiving, Connections, RefuseDuplicate, Deciding
  <2>4. SightInv'
    BY <1>10, <2>a
       DEF PlaceInv, SightInv, Waits, Receiving, RefuseDuplicate, Deciding
  <2> QED BY <2>1, <2>2, <2>3, <2>4 DEF PlaceInv
<1>11. CASE AcceptPending
  <2>a. /\ Head(conn_q) \in Connections
        /\ conn_q' \in Seq(Connections)
        /\ Items(conn_q) = {Head(conn_q)} \cup Items(conn_q')
        /\ Head(conn_q) \notin Items(conn_q')
        /\ Distinct(conn_q')
    BY <1>11, <1>a, TailItems DEF Pending, AcceptPending
  <2>1. TypeOK'
    BY <1>11, <2>a
       DEF PlaceInv, TypeOK, Connections, NotTaken, Verdicts, AcceptPending,
           Deciding, SendData
  <2>2. /\ HoldInv' /\ AddressInv' /\ OneClientPerAddress'
    BY <1>11, <2>a
       DEF PlaceInv, HoldInv, AddressInv, OneClientPerAddress, Handling,
           Receiving, Connections, Duplicate, AcceptPending, Pending
  <2>3. /\ AskedInv' /\ BacklogInv' /\ ReceiverInv' /\ QueueInv'
    BY <1>11, <1>a, <2>a
       DEF PlaceInv, HoldInv, AskedInv, BacklogInv, ReceiverInv, QueueInv,
           Waits, Receiving, Connections, AcceptPending, Deciding
  <2>4. SightInv'
    BY <1>11, <2>a
       DEF PlaceInv, SightInv, Waits, Receiving, AcceptPending, Deciding
  <2> QED BY <2>1, <2>2, <2>3, <2>4 DEF PlaceInv
<1>12. CASE DeclinePending
  <2>a. /\ Head(conn_q) \in Connections
        /\ conn_q' \in Seq(Connections)
        /\ Items(conn_q) = {Head(conn_q)} \cup Items(conn_q')
        /\ Head(conn_q) \notin Items(conn_q')
        /\ Distinct(conn_q')
    BY <1>12, <1>a, TailItems DEF Pending, DeclinePending
  <2>1. TypeOK'
    BY <1>12, <2>a
       DEF PlaceInv, TypeOK, Verdicts, DeclinePending, Deciding, SendData,
           Close
  <2>2. /\ HoldInv' /\ AddressInv' /\ OneClientPerAddress'
    BY <1>12
       DEF PlaceInv, HoldInv, AddressInv, OneClientPerAddress, Handling,
           Receiving, DeclinePending, Pending
  <2>3. /\ AskedInv' /\ BacklogInv' /\ ReceiverInv' /\ QueueInv'
    BY <1>12, <1>a, <2>a
       DEF PlaceInv, HoldInv, AskedInv, BacklogInv, ReceiverInv, QueueInv,
           Waits, Receiving, Connections, DeclinePending, Deciding
  <2>4. SightInv'
    BY <1>12, <2>a
       DEF PlaceInv, SightInv, Waits, Receiving, DeclinePending, Deciding
  <2> QED BY <2>1, <2>2, <2>3, <2>4 DEF PlaceInv
<1>13. CASE SendFails
  <2>a. /\ Items(backlog') = {} /\ Distinct(backlog')
        /\ Items(conn_q') = {} /\ Distinct(conn_q')
    BY <1>13, EmptyItems DEF ServerEnds, SendFails
  <2>1. TypeOK'
    BY <1>13
       DEF PlaceInv, TypeOK, NotTaken, Verdicts, SendFails, ServerEnds,
           Deciding
  <2>2. /\ HoldInv' /\ AddressInv' /\ OneClientPerAddress'
    BY <1>13
       DEF PlaceInv, HoldInv, AddressInv, OneClientPerAddress, Handling,
           Receiving, SendFails, ServerEnds
  <2>3. /\ AskedInv' /\ BacklogInv' /\ ReceiverInv' /\ QueueInv'
    BY <1>13, <2>a
       DEF PlaceInv, AskedInv, BacklogInv, ReceiverInv, QueueInv, Waits,
           Receiving, SendFails, ServerEnds, Deciding, Undecided
  <2>4. SightInv'
    BY <1>13
       DEF PlaceInv, SightInv, Waits, SendFails, ServerEnds, Deciding,
           Undecided
  <2> QED BY <2>1, <2>2, <2>3, <2>4 DEF PlaceInv
<1>14. CASE DeclineAll
  <2>a. /\ Items(conn_q') = {} /\ Distinct(conn_q')
        /\ Queued = {a.conn : a \in Items(conn_q)}
    BY <1>14, EmptyItems DEF Queued, Items, DeclineAll
  <2>1. TypeOK'
    BY <1>14 DEF PlaceInv, TypeOK, Verdicts, DeclineAll, Deciding, Close
  <2>2. /\ HoldInv' /\ AddressInv' /\ OneClientPerAddress'
    BY <1>14
       DEF PlaceInv, HoldInv, AddressInv, OneClientPerAddress, Handling,
           Receiving, DeclineAll, Pending
  <2>3. /\ AskedInv' /\ BacklogInv' /\ ReceiverInv' /\ QueueInv'
    BY <1>14, <1>a, <2>a
       DEF PlaceInv, HoldInv, AskedInv, BacklogInv, ReceiverInv, QueueInv,
           Waits, Receiving, Connections, DeclineAll, Deciding
  <2>4. SightInv'
    BY <1>14, <2>a
       DEF PlaceInv, SightInv, Waits, Receiving, DeclineAll, Deciding
  <2> QED BY <2>1, <2>2, <2>3, <2>4 DEF PlaceInv
<1>15. CASE OpenPipe
  <2>1. TypeOK'
    BY <1>15 DEF PlaceInv, TypeOK, OpenPipe
  <2>2. /\ HoldInv' /\ AddressInv' /\ OneClientPerAddress'
    BY <1>15
       DEF PlaceInv, HoldInv, AddressInv, OneClientPerAddress, Handling,
           Receiving, Duplicate, OpenPipe
  <2>3. /\ AskedInv' /\ BacklogInv' /\ ReceiverInv' /\ QueueInv'
    BY <1>15
       DEF PlaceInv, AskedInv, BacklogInv, ReceiverInv, QueueInv, Waits,
           Receiving, OpenPipe
  <2>4. SightInv'
    BY <1>15 DEF PlaceInv, SightInv, Waits, Receiving, OpenPipe
  <2> QED BY <2>1, <2>2, <2>3, <2>4 DEF PlaceInv
<1>16. CASE ForkChild
  <2>1. TypeOK'
    BY <1>16 DEF PlaceInv, TypeOK, ForkChild, Close
  <2>2. /\ HoldInv' /\ AddressInv' /\ OneClientPerAddress'
    BY <1>16
       DEF PlaceInv, HoldInv, AddressInv, OneClientPerAddress, Handling,
           Receiving, Duplicate, ForkChild
  <2>3. /\ AskedInv' /\ BacklogInv' /\ ReceiverInv' /\ QueueInv'
    BY <1>16
       DEF PlaceInv, AskedInv, BacklogInv, ReceiverInv, QueueInv, Waits,
           Receiving, ForkChild
  <2>4. SightInv'
    BY <1>16 DEF PlaceInv, SightInv, Waits, Receiving, ForkChild
  <2> QED BY <2>1, <2>2, <2>3, <2>4 DEF PlaceInv
<1>17. CASE EnjailReturns
  <2>1. TypeOK'
    <3>1. files' \in [Fds -> Clients \cup {"pipe", NoFile}]
      BY <1>17 DEF PlaceInv, TypeOK, EnjailReturns, Close
    <3>2. /\ kids' \in [Clients -> SUBSET Clients]
          /\ jailed' \in SUBSET Clients
      BY <1>17 DEF PlaceInv, TypeOK, HoldInv, Handling, EnjailReturns
    <3> QED BY <1>17, <3>1, <3>2 DEF PlaceInv, TypeOK, NotTaken, EnjailReturns
  <2>2. /\ HoldInv' /\ AddressInv' /\ OneClientPerAddress'
    BY <1>17
       DEF PlaceInv, HoldInv, AddressInv, OneClientPerAddress, Handling,
           Receiving, Duplicate, EnjailReturns
  <2>3. /\ AskedInv' /\ BacklogInv' /\ ReceiverInv' /\ QueueInv'
    BY <1>17
       DEF PlaceInv, AskedInv, BacklogInv, ReceiverInv, QueueInv, Waits,
           Receiving, EnjailReturns
  <2>4. SightInv'
    BY <1>17 DEF PlaceInv, SightInv, Waits, Receiving, EnjailReturns
  <2> QED BY <2>1, <2>2, <2>3, <2>4 DEF PlaceInv
<1>18. CASE EnjailThrows
  <2>a. /\ Items(backlog') = {} /\ Distinct(backlog')
        /\ Items(conn_q') = {} /\ Distinct(conn_q')
    BY <1>18, EmptyItems DEF ServerEnds, EnjailThrows
  <2>1. TypeOK'
    BY <1>18
       DEF PlaceInv, TypeOK, NotTaken, Verdicts, EnjailThrows, ServerEnds,
           Deciding
  <2>2. /\ HoldInv' /\ AddressInv' /\ OneClientPerAddress'
    BY <1>18
       DEF PlaceInv, HoldInv, AddressInv, OneClientPerAddress, Handling,
           Receiving, EnjailThrows, ServerEnds
  <2>3. /\ AskedInv' /\ BacklogInv' /\ ReceiverInv' /\ QueueInv'
    BY <1>18, <2>a
       DEF PlaceInv, AskedInv, BacklogInv, ReceiverInv, QueueInv, Waits,
           Receiving, EnjailThrows, ServerEnds, Deciding, Undecided
  <2>4. SightInv'
    BY <1>18
       DEF PlaceInv, SightInv, Waits, EnjailThrows, ServerEnds, Deciding,
           Undecided
  <2> QED BY <2>1, <2>2, <2>3, <2>4 DEF PlaceInv
<1>19. ASSUME NEW c \in Clients, ChildDies(c) PROVE PlaceInv'
  <2>1. TypeOK'
    BY <1>19 DEF PlaceInv, TypeOK, ChildDies
  <2>2. /\ HoldInv' /\ AddressInv' /\ OneClientPerAddress'
    BY <1>19
       DEF PlaceInv, HoldInv, AddressInv, OneClientPerAddress, Handling,
           Receiving, Duplicate, ChildDies
  <2>3. /\ AskedInv' /\ BacklogInv' /\ ReceiverInv' /\ QueueInv'
    BY <1>19
       DEF PlaceInv, AskedInv, BacklogInv, ReceiverInv, QueueInv, Waits,
           Receiving, ChildDies
  <2>4. SightInv'
    BY <1>19 DEF PlaceInv, SightInv, Waits, Receiving, ChildDies
  <2> QED BY <2>1, <2>2, <2>3, <2>4 DEF PlaceInv
<1>20. ASSUME NEW c \in Clients, Drop(c) PROVE PlaceInv'
  <2>1. TypeOK'
    BY <1>20 DEF PlaceInv, TypeOK, Drop
  <2>2. /\ HoldInv' /\ AddressInv' /\ OneClientPerAddress'
    BY <1>20
       DEF PlaceInv, HoldInv, AddressInv, OneClientPerAddress, Handling,
           Receiving, Drop
  <2>3. /\ AskedInv' /\ BacklogInv' /\ ReceiverInv' /\ QueueInv'
    BY <1>20
       DEF PlaceInv, AskedInv, BacklogInv, ReceiverInv, QueueInv, Waits,
           Receiving, Drop
  <2>4. SightInv'
    BY <1>20 DEF PlaceInv, SightInv, Waits, Receiving, Drop
  <2> QED BY <2>1, <2>2, <2>3, <2>4 DEF PlaceInv
<1>21. CASE Ended
  <2>1. TypeOK'
    BY <1>21 DEF PlaceInv, TypeOK, Ended, vars
  <2>2. /\ HoldInv' /\ AddressInv' /\ OneClientPerAddress'
    BY <1>21
       DEF PlaceInv, HoldInv, AddressInv, OneClientPerAddress, Handling,
           Receiving, Ended, vars
  <2>3. /\ AskedInv' /\ BacklogInv' /\ ReceiverInv' /\ QueueInv'
    BY <1>21
       DEF PlaceInv, AskedInv, BacklogInv, ReceiverInv, QueueInv, Waits,
           Receiving, Ended, vars
  <2>4. SightInv'
    BY <1>21 DEF PlaceInv, SightInv, Waits, Receiving, Ended, vars
  <2> QED BY <2>1, <2>2, <2>3, <2>4 DEF PlaceInv
<1>22. CASE UNCHANGED vars
  BY <1>22
     DEF PlaceInv, TypeOK, HoldInv, AddressInv, OneClientPerAddress, AskedInv,
         BacklogInv, ReceiverInv, QueueInv, SightInv, Handling, Receiving,
         Waits, Duplicate, vars
<1> QED
  BY <1>1, <1>2, <1>3, <1>4, <1>5, <1>6, <1>7, <1>8, <1>9, <1>10, <1>11, <1>12,
     <1>13, <1>14, <1>15, <1>16, <1>17, <1>18, <1>19, <1>20, <1>21, <1>22
     DEF Next, Worker, Operator, Client

(* The invariant holds in every reachable state.                           *)
THEOREM PlaceInvariance == Spec => []PlaceInv
BY InitPlaceInv, StepPlaceInv, PTL DEF Spec

(* Every variable of the handshake keeps its type.                         *)
THEOREM HandshakeTypeCorrect == Spec => []TypeOK
<1>1. PlaceInv => TypeOK
  BY DEF PlaceInv
<1> QED BY <1>1, PlaceInvariance, PTL

(* However many clients of an address are queued, and whatever happens to  *)
(* descriptors meanwhile, at most one of them is in the map.               *)
THEOREM OnePerAddress == Spec => []OneClientPerAddress
<1>1. PlaceInv => OneClientPerAddress
  BY DEF PlaceInv
<1> QED BY <1>1, PlaceInvariance, PTL

(* Whatever decides about connections decides about such as are in one of  *)
(* the places where nothing has been decided yet.                          *)
LEMMA StepDecidesOnce ==
  ASSUME PlaceInv, [Next]_vars,
         NEW c \in Clients, verdict[c] # "none"
  PROVE  verdict'[c] = verdict[c]
<1>1. verdict \in [Clients -> Verdicts]
  BY DEF PlaceInv, TypeOK
<1>2. CASE verdict' = verdict
  BY <1>2
<1>3. CASE \E what \in Verdicts : Deciding(Undecided, what)
  BY <1>1, <1>3 DEF Deciding, Undecided
<1>4. CASE /\ Receiving
           /\ \E what \in Verdicts : Deciding({cur.conn}, what)
  BY <1>1, <1>4 DEF PlaceInv, ReceiverInv, Waits, Deciding
<1>5. CASE /\ Pending
           /\ \E what \in Verdicts : Deciding({Head(conn_q).conn}, what)
  <2>1. Head(conn_q) \in Items(conn_q)
    BY <1>5, TailItems DEF PlaceInv, TypeOK, QueueInv, Pending
  <2>2. verdict[Head(conn_q).conn] = "none"
    BY <2>1 DEF PlaceInv, QueueInv, Waits
  <2> QED BY <1>1, <1>5, <2>2 DEF Deciding
<1>6. CASE \E what \in Verdicts : Deciding(Queued, what)
  <2>1. c \notin Queued
    BY DEF PlaceInv, QueueInv, Waits, Queued, Items
  <2> QED BY <1>1, <1>6, <2>1 DEF Deciding
<1> QED
  <2> USE DEF clients, queue, child, Verdicts
  <2>1. CASE Worker
    BY <2>1, <1>2, <1>4
       DEF Worker, Accept, PollTimesOut, Receive, Push, Receiving
  <2>2. CASE Operator
    BY <2>2, <1>2, <1>3, <1>5, <1>6
       DEF Operator, RefuseDuplicate, AcceptPending, DeclinePending, SendFails,
           DeclineAll, ForkChild, Exit, Drop
  <2>3. CASE OpenPipe \/ EnjailReturns \/ EnjailThrows
    BY <2>3, <1>2, <1>3 DEF OpenPipe, EnjailReturns, EnjailThrows
  <2>4. CASE \E d \in Clients : Client(d) \/ ChildDies(d)
    BY <2>4, <1>2
       DEF Client, Connect, SendRequest, ReadAnswer, ClientDies, ChildDies
  <2> QED
    BY <2>1, <2>2, <2>3, <2>4, <1>2 DEF Next, Ended, vars

(* Every connection is decided about once.                                 *)
THEOREM DecidedOnceOnly == Spec => DecidedOnce
<1>1. ASSUME PlaceInv, [Next]_vars
      PROVE  [\A c \in Clients :
                verdict[c] # "none" => verdict'[c] = verdict[c]]_vars
  BY <1>1, StepDecidesOnce
<1> QED
  BY <1>1, PlaceInvariance, PTL DEF Spec, DecidedOnce

=============================================================================
