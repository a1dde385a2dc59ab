---------------------- MODULE ClientRegistryRefinement ----------------------
(***************************************************************************)
(* ClientRegistry implements JailSessions, for any sets of addresses and   *)
(* pids and whether or not pids are reused: every step of the registry is  *)
(* a step of the sessions or changes none of session, alive and server.    *)
(***************************************************************************)
EXTENDS ClientRegistryProofs

(* What a step does to the sessions if it changes neither the map nor who  *)
(* is joining: nothing.                                                    *)
LEMMA SessionsStay ==
  ASSUME UNCHANGED <<c_map, new_client>>, Joining' = Joining
  PROVE  session' = session
BY DEF session

(* What a step does to the living clients if it starts and ends none.      *)
LEMMA AliveStays ==
  ASSUME owner' = owner,
         \A p \in Pids : stage'[p] \in Live <=> stage[p] \in Live
  PROVE  alive' = alive
BY DEF alive

(* The death of one process ends at most the life of its own client.       *)
LEMMA OneDies ==
  ASSUME NEW p \in Pids, owner' = owner,
         stage[p] \in Live, stage'[p] \notin Live,
         \A q \in Pids \ {p} : stage'[q] \in Live <=> stage[q] \in Live
  PROVE  /\ owner[p] \in alive
         /\ alive' \in {alive, alive \ {owner[p]}}
<1>1. owner[p] \in alive
  BY DEF alive
<1>2. \A i : i # owner[p] => (i \in alive' <=> i \in alive)
  BY DEF alive
<1>3. \A i : i \in alive' => i \in alive
  BY DEF alive
<1>4. CASE owner[p] \in alive'
  <2>1. alive' = alive
    BY <1>1, <1>2, <1>4
  <2> QED BY <1>1, <2>1
<1>5. CASE owner[p] \notin alive'
  <2>1. alive' = alive \ {owner[p]}
    BY <1>2, <1>3, <1>5
  <2> QED BY <1>1, <2>1
<1> QED
  BY <1>4, <1>5

(* A step that starts no process adds nobody to the living.                *)
LEMMA AliveShrinks ==
  ASSUME owner' = owner,
         \A p \in Pids : stage'[p] \in Live => stage[p] \in Live
  PROVE  alive' \in SUBSET alive
BY DEF alive

(* A server that starts has no sessions.                                   *)
LEMMA InitRefines == Init => Sessions!Init
<1> SUFFICES ASSUME Init PROVE Sessions!Init
  OBVIOUS
<1>1. session = [i \in Ips |-> "none"]
  BY DEF Init, session, Joining, Adding
<1>2. alive = {}
  BY DEF Init, alive, Live
<1>3. server = "up"
  BY DEF Init, server
<1> QED
  BY <1>1, <1>2, <1>3 DEF Sessions!Init, Sessions!NoSessions

(* Taking a pending connection off the queue makes its address join, or    *)
(* refuses it (Server.cpp:294-307).                                        *)
LEMMA JoinRefines ==
  ASSUME IInv, NEW i \in Ips, HandlePending(i)
  PROVE  Sessions!Join(i) \/ UNCHANGED <<session, alive, server>>
<1> USE DEF HandlePending, Joining, Adding, procs
<1>1. alive' = alive /\ server' = server
  BY DEF alive, server
<1>2. CASE c_map[i] # NoPid
  BY <1>1, <1>2 DEF session
<1>3. CASE c_map[i] = NoPid
  <2>1. session[i] = "none" /\ \A j \in Ips : session[j] # "joining"
    BY <1>3 DEF session
  <2>2. session' = [session EXCEPT ![i] = "joining"]
    BY <1>3 DEF session
  <2> QED
    BY <1>1, <2>1, <2>2 DEF Sessions!Join, Sessions!Change
<1> QED
  BY <1>2, <1>3

(* The fork starts the process of the address that joins, which has none   *)
(* yet (Server.cpp:258).                                                   *)
LEMMA StartRefines ==
  ASSUME IInv, NEW p \in Pids, Fork(p)
  PROVE  Sessions!Start(new_client.ip)
<1> USE DEF Fork, IInv
<1>1. new_client.ip \in Ips /\ c_map[new_client.ip] = NoPid
  BY DEF JoinInv, Joining
<1>2. session' = session /\ server' = server
  BY <1>1 DEF session, server, Joining, Adding, TypeOK
<1>3. session[new_client.ip] = "joining"
  BY <1>1 DEF session, Joining
<1>4. new_client.ip \notin alive
  BY <1>1, RegistryAssumption DEF alive, NoOrphan, Adding
<1>5. alive' = alive \cup {new_client.ip}
  BY DEF alive, TypeOK, Live
<1> QED
  BY <1>2, <1>3, <1>4, <1>5 DEF Sessions!Start

(* Whichever way add_new_client gives a client up, by returning or by an   *)
(* exception, its address has no process then (Server.cpp:261, 272, 283).  *)
LEMMA RejectRefines ==
  ASSUME IInv, Joining, prompt' \in {"menu", "dtor"},
         UNCHANGED <<c_map, stage, owner>>,
         prompt \in Adding => stage[new_client.pid] \notin Live
  PROVE  Sessions!Reject(new_client.ip)
<1>1. new_client.ip \in Ips /\ c_map[new_client.ip] = NoPid
  BY DEF IInv, JoinInv
<1>2. server' = server
  BY DEF server, Joining, Adding
<1>3. alive' = alive
  BY DEF alive
<1>4. new_client.ip \notin alive
  BY <1>1, RegistryAssumption DEF IInv, NoOrphan, alive, Joining, Adding
<1>5. session[new_client.ip] = "joining"
  BY <1>1 DEF session
<1>6. session' = [session EXCEPT ![new_client.ip] = "none"]
  BY <1>1 DEF session, Joining, Adding
<1> QED
  BY <1>2, <1>3, <1>4, <1>5, <1>6 DEF Sessions!Reject, Sessions!Change

(* The insertion into the map admits the address that joins, although the  *)
(* map was not locked since it was checked (Server.cpp:279-280).           *)
LEMMA AdmitRefines ==
  ASSUME IInv, Insert
  PROVE  Sessions!Admit(new_client.ip)
<1> USE DEF Insert, procs, Adding, ReturnToMenu
<1>1. /\ new_client.ip \in Ips /\ c_map[new_client.ip] = NoPid
      /\ new_client.pid \in Pids
  BY DEF IInv, JoinInv, Joining
<1>2. server' = server /\ alive' = alive
  BY DEF server, alive
<1>3. session[new_client.ip] = "joining"
  BY <1>1 DEF session, Joining
<1>4. session' = [session EXCEPT ![new_client.ip] = "connected"]
  BY <1>1, RegistryAssumption DEF session, Joining, IInv, TypeOK
<1> QED
  BY <1>2, <1>3, <1>4 DEF Sessions!Admit, Sessions!Change

(* SIGKILL revives nobody, and its target is dead.                         *)
LEMMA KillShrinks ==
  ASSUME IInv, NEW k \in Pids, stage' = SigKill(k)
  PROVE  /\ stage'[k] \notin Live
         /\ \A p \in Pids \ {k} : stage'[p] = stage[p]
BY DEF IInv, TypeOK, SigKill, AfterDeath, Live

(* kill, remove_all and erase for one entry end the session of its address *)
(* and the process that was forked for it (Server.cpp:84-87, 346-348).     *)
LEMMA LeaveRefines ==
  ASSUME IInv, NEW i \in Registered, Erase(i), stage' = SigKill(c_map[i]),
         owner' = owner, ~Joining, ~Joining', prompt \notin Down,
         server' = server
  PROVE  Sessions!Leave(i)
<1>1. i \in Ips /\ c_map[i] \in Pids
  BY DEF Registered, IInv, TypeOK
<1>2. session[i] = "connected"
  BY <1>1, RegistryAssumption DEF session
<1>3. session' = [session EXCEPT ![i] = "none"]
  BY <1>1 DEF session, Erase, IInv, TypeOK
<1>4. alive' \in SUBSET alive
  BY <1>1, KillShrinks, AliveShrinks
<1>5. i \notin alive'
  BY <1>1, KillShrinks DEF alive, IInv, NoOrphan, Joining, Down
<1> QED
  BY <1>2, <1>3, <1>4, <1>5 DEF Sessions!Leave, Sessions!Change

(* An uncaught filesystem_error is a crash of the sessions.                *)
LEMMA CrashRefines ==
  ASSUME IInv, prompt \notin Down, EndProcess("aborted"),
         \A p \in Pids : stage'[p] \in Live => stage[p] \in Live
  PROVE  Sessions!Crash
<1> USE DEF EndProcess
<1>1. server = "up" /\ server' = "crashed"
  BY DEF server, Down
<1>2. session' = [i \in Ips |-> "none"]
  BY DEF session, Joining, Adding
<1>3. alive' \in SUBSET alive
  BY AliveShrinks
<1> QED
  BY <1>1, <1>2, <1>3 DEF Sessions!Crash, Sessions!NoSessions

(* The return from ~Server closes the sessions: none is left, and no       *)
(* process (Server.cpp:48-51).                                             *)
LEMMA CloseRefines ==
  ASSUME IInv, prompt = "erase", EndProcess("exited"), stage' = stage
  PROVE  Sessions!Close
<1> USE DEF EndProcess
<1>1. server = "up" /\ server' = "closed"
  BY DEF server
<1>2. /\ session = [i \in Ips |-> "none"]
      /\ session' = [i \in Ips |-> "none"]
  BY DEF session, Joining, Adding, IInv, ClosingInv
<1>3. alive = {}
  BY RegistryAssumption DEF alive, IInv, NoOrphan, OwnerInv, ClosingInv, Adding
<1>4. alive' = alive
  BY DEF alive
<1> QED
  BY <1>1, <1>2, <1>3, <1>4 DEF Sessions!Close, Sessions!NoSessions

(* Every step of the registry is a step of the sessions or leaves them as  *)
(* they are.                                                               *)
LEMMA StepRefines ==
  ASSUME IInv, [Next]_vars
  PROVE  [Sessions!Next]_(Sessions!vars)
<1> DEFINE Stays == UNCHANGED <<session, alive, server>>
<1> SUFFICES Sessions!Next \/ Stays
  BY DEF Sessions!vars
<1> USE DEF Joining, Adding, Down, procs, lock, adding
<1>1. ASSUME NEW i \in Ips, HandlePending(i) PROVE Sessions!Next \/ Stays
  BY <1>1, JoinRefines DEF Sessions!Next
<1>2. CASE RefusedReturns
  BY <1>2 DEF RefusedReturns, ReturnToMenu, session, alive, server
<1>3. CASE PopulateJail
  <2>1. CASE prompt' = "fork"
    BY <1>3, <2>1 DEF PopulateJail, EndProcess, session, alive, server
  <2>2. CASE prompt' = "dtor"
    <3>1. Sessions!Reject(new_client.ip)
      BY <1>3, <2>2, RejectRefines DEF PopulateJail, EndProcess
    <3> QED BY <3>1, <1>3 DEF Sessions!Next, PopulateJail, IInv, JoinInv
  <2>3. CASE EndProcess("aborted")
    <3>1. Sessions!Crash
      BY <1>3, <2>3, CrashRefines DEF PopulateJail
    <3> QED BY <3>1 DEF Sessions!Next
  <2> QED BY <1>3, <2>1, <2>2, <2>3 DEF PopulateJail
<1>4. ASSUME NEW p \in Pids, Fork(p) PROVE Sessions!Next \/ Stays
  <2>1. new_client.ip \in Ips
    BY <1>4 DEF Fork, IInv, JoinInv
  <2> QED BY <1>4, <2>1, StartRefines DEF Sessions!Next
<1>5. CASE ForkFails
  <2>1. Sessions!Reject(new_client.ip)
    BY <1>5, RejectRefines DEF ForkFails
  <2> QED BY <2>1, <1>5 DEF Sessions!Next, ForkFails, IInv, JoinInv
<1>6. CASE ParentSignal
  BY <1>6 DEF ParentSignal, session, alive, server
<1>7. CASE ParentRead
  <2>1. CASE prompt' = "check"
    BY <1>7, <2>1 DEF ParentRead, session, alive, server
  <2>2. CASE prompt' = "dtor"
    <3>1. stage[new_client.pid] \notin Live
      BY <1>7, <2>2 DEF ParentRead, EndOfPipe, IInv, PipeInv, Live
    <3>2. Sessions!Reject(new_client.ip)
      BY <1>7, <2>2, <3>1, RejectRefines DEF ParentRead
    <3> QED BY <3>2, <1>7 DEF Sessions!Next, ParentRead, IInv, JoinInv
  <2> QED BY <1>7, <2>1, <2>2 DEF ParentRead
<1>8. CASE ParentCheck
  <2>1. CASE Exists(new_client.pid) /\ pipe = "CHILD_SUCCESS"
    BY <1>8, <2>1 DEF ParentCheck, session, alive, server
  <2>2. CASE ~(Exists(new_client.pid) /\ pipe = "CHILD_SUCCESS")
    <3>1. CASE FilesystemError
      <4>1. Sessions!Crash
        BY <1>8, <3>1, CrashRefines DEF ParentCheck, FilesystemError
      <4> QED BY <4>1 DEF Sessions!Next
    <3>2. CASE ReturnToMenu /\ UNCHANGED <<c_map, owner>>
      <4>1. stage[new_client.pid] \notin Live
        BY <1>8, <2>2 DEF ParentCheck, Exists, IInv, TypeOK, PipeInv, Reports,
            Live
      <4>2. Sessions!Reject(new_client.ip)
        BY <1>8, <3>2, <4>1, RejectRefines DEF ParentCheck, ReturnToMenu
      <4> QED BY <4>2, <1>8 DEF Sessions!Next, ParentCheck, IInv, JoinInv
    <3> QED BY <1>8, <2>2, <3>1, <3>2 DEF ParentCheck
  <2> QED BY <2>1, <2>2
<1>9. CASE Insert
  <2>1. new_client.ip \in Ips
    BY <1>9 DEF Insert, IInv, JoinInv
  <2> QED BY <1>9, <2>1, AdmitRefines DEF Sessions!Next
<1>10. ASSUME NEW p \in Pids, ChildReports(p) \/ ProcessEnds(p)
       PROVE  Sessions!Next \/ Stays
  <2>1. /\ owner' = owner
        /\ \A q \in Pids \ {p} : stage'[q] \in Live <=> stage[q] \in Live
    BY <1>10 DEF ChildReports, ProcessEnds, SigKill, AfterDeath, IInv, TypeOK
  <2>2. session' = session /\ server' = server
    BY <1>10 DEF ChildReports, ProcessEnds, session, server
  <2>3. CASE stage[p] \in Live /\ stage'[p] \notin Live
    <3>1. owner[p] \in Ips
      BY <2>3 DEF IInv, OwnerInv
    <3>2. owner[p] \in alive /\ alive' \in {alive, alive \ {owner[p]}}
      BY <2>1, <2>3, OneDies
    <3> QED BY <2>2, <3>1, <3>2 DEF Sessions!Next, Sessions!Die
  <2>4. CASE stage'[p] \in Live <=> stage[p] \in Live
    BY <2>1, <2>2, <2>4, AliveStays
  <2>5. stage'[p] \in Live => stage[p] \in Live
    BY <1>10 DEF ChildReports, ProcessEnds, SigKill, AfterDeath, IInv, TypeOK,
        Live
  <2> QED BY <2>3, <2>4, <2>5
<1>11. ASSUME NEW p \in Pids, ChildExecs(p) PROVE Stays
  <2>1. alive' = alive
    BY <1>11, AliveStays DEF ChildExecs, IInv, TypeOK, Live
  <2> QED BY <1>11, <2>1 DEF ChildExecs, session, server
<1>12. ASSUME NEW p \in Pids, OtherProcess(p) PROVE Stays
  <2>1. alive' = alive
    BY <1>12 DEF OtherProcess, alive, IInv, TypeOK, Live
  <2> QED BY <1>12, <2>1 DEF OtherProcess, session, server
<1>13. CASE Display \/ DisplayDone \/ DropCheckSize \/ DropAll
         \/ DropAllDone \/ Exit \/ SweepLock \/ SweepUnlock
         \/ \E i \in Ips : DisplayOne(i)
  BY <1>13 DEF Display, DisplayOne, DisplayDone, DropCheckSize, DropAll,
      DropAllDone, Exit, SweepLock, SweepUnlock, LockedLoop, session, alive,
      server
<1>14. ASSUME NEW i \in Ips,
              DisplayDrop(i) \/ DropAllOne(i) \/ DropSpecific(i)
       PROVE  Sessions!Next \/ Stays
  <2>1. prompt \in Looping \cup {"pick"}
    BY <1>14 DEF DisplayDrop, DropAllOne, DropSpecific, Looping
  <2>2. CASE UNCHANGED <<c_map, stage, owner>> /\ prompt' \in {prompt, "menu"}
    BY <2>1, <2>2 DEF Looping, session, alive, server
  <2>3. ASSUME stage' = SigKill(c_map[i]), i \in Registered
        PROVE  Sessions!Next \/ Stays
    <3>1. c_map[i] \in Pids
      BY <2>3 DEF Registered, IInv, TypeOK
    <3>2. CASE FilesystemError
      <4>1. \A p \in Pids : stage'[p] \in Live => stage[p] \in Live
        BY <2>3, <3>1, KillShrinks
      <4>2. Sessions!Crash
        BY <2>1, <3>2, <4>1, CrashRefines DEF FilesystemError, Looping
      <4> QED BY <4>2 DEF Sessions!Next
    <3>3. CASE Erase(i) /\ owner' = owner /\ prompt' \in {prompt, "menu"}
      <4>1. Sessions!Leave(i)
        BY <2>1, <2>3, <3>3, LeaveRefines DEF Looping, server
      <4> QED BY <4>1 DEF Sessions!Next
    <3> QED
      BY <1>14, <2>2, <3>2, <3>3 DEF DisplayDrop, DropAllOne, DropSpecific,
          DropEntry, DropEntryFails
  <2>4. /\ i \in todo /\ prompt \in Looping => i \in Registered
        /\ i = dead => i \in todo
    BY RegistryAssumption DEF IInv, LockInv
  <2> QED
    BY <1>14, <2>2, <2>3, <2>4 DEF DisplayDrop, DropAllOne, DropSpecific,
        DropEntry, DropEntryFails, Looping
<1>15. CASE EraseJailDir
  <2>1. CASE EndProcess("exited")
    BY <1>15, <2>1, CloseRefines DEF EraseJailDir, Sessions!Next
  <2>2. CASE FilesystemError
    BY <1>15, <2>2, CrashRefines DEF EraseJailDir, FilesystemError,
        Sessions!Next
  <2> QED BY <1>15, <2>1, <2>2 DEF EraseJailDir
<1>16. ASSUME NEW i \in Ips, SweepOne(i) PROVE Sessions!Next \/ Stays
  <2>1. CASE UNCHANGED <<c_map, prompt, procs, new_client>>
    BY <2>1 DEF session, alive, server
  <2>2. CASE FilesystemError /\ stage' = stage
    <3>1. prompt \notin Down
      BY <1>16 DEF SweepOne, IInv, LockInv
    <3>2. Sessions!Crash
      BY <2>2, <3>1, CrashRefines DEF FilesystemError
    <3> QED BY <3>2 DEF Sessions!Next
  <2> QED BY <1>16, <2>1, <2>2 DEF SweepOne
<1>17. CASE UNCHANGED vars
  BY <1>17 DEF vars, session, alive, server
<1> QED
  BY <1>1, <1>2, <1>3, <1>4, <1>5, <1>6, <1>7, <1>8, <1>9, <1>10, <1>11,
     <1>12, <1>13, <1>14, <1>15, <1>16, <1>17
     DEF Next, Operator, PromptThread, Sweeper, Child, Ended

(* The registry implements the sessions.                                   *)
THEOREM Refinement == Spec => ImplementsSessions
<1>1. Init => Sessions!Init
  BY InitRefines
<1>2. IInv /\ [Next]_vars => [Sessions!Next]_(Sessions!vars)
  BY StepRefines
<1> QED
  BY <1>1, <1>2, Invariance, PTL DEF Spec, ImplementsSessions, Sessions!Spec

=============================================================================
