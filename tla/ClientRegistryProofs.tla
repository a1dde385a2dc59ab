------------------------ MODULE ClientRegistryProofs ------------------------
(***************************************************************************)
(* Theorems about ClientRegistry, for any sets of addresses and pids.  The *)
(* safety properties of the registry are not inductive: that a living      *)
(* client is registered depends on what the prompt thread knows of the     *)
(* client it is adding, on the lock that keeps the loops over the map      *)
(* valid, and on the order of the child's reports.  The inductive          *)
(* invariant states these facts, one conjunct for each.                    *)
(***************************************************************************)
EXTENDS ClientRegistry, FiniteSetTheorems, TLAPS

(* Who holds clients_map_mut, and what that thread still has to visit.     *)
LockInv ==
  /\ mutex = "sweeper" <=> sweeper = "sweep"
  /\ mutex = "prompt" <=> prompt \in Looping
  /\ prompt \in Down => mutex = "none"
  /\ sweeper = "sweep" => unswept \subseteq Registered
  /\ prompt \in Looping => todo \subseteq Registered
  /\ dead # NoIp => prompt \in {"display", "dropdisplay"} /\ dead \in todo

(* The client being added is not in the map, which nobody else extends,    *)
(* and from the fork on it has its jail, which the sweeper leaves alone.   *)
JoinInv ==
  /\ Joining => new_client.ip \in Ips /\ c_map[new_client.ip] = NoPid
  /\ prompt \in {"fork"} \cup Adding => new_client.ip \in jails
  /\ prompt \in Adding => new_client.pid \in Pids

(* What the pipe tells of the child that is being added.                   *)
PipeInv ==
  /\ prompt \notin Adding => pipe = "empty"
  /\ prompt \in {"check", "insert"} => pipe # "empty"
  /\ prompt \in Adding /\ pipe = "empty" =>
       stage[new_client.pid] \notin Live \ {"setup"}
  /\ prompt \in Adding /\ pipe = "CHILD_FAILED" =>
       stage[new_client.pid] \notin Live

(* Only the child that is being added can still be setting up.             *)
SetupInv ==
  \A p \in Pids : stage[p] = "setup" /\ prompt # "aborted" =>
    prompt \in Adding /\ new_client.pid = p /\ pipe = "empty"

OwnerInv == \A p \in Pids : stage[p] \in Live => owner[p] \in Ips

(* How far the destructor has come.                                        *)
ClosingInv ==
  /\ prompt = "dtordrop" => todo = Registered
  /\ prompt \in {"erase"} \cup Down => c_map = [i \in Ips |-> NoPid]

IInv ==
  /\ TypeOK
  /\ LockInv
  /\ JoinInv
  /\ PipeInv
  /\ SetupInv
  /\ OwnerInv
  /\ ClosingInv
  /\ NoOrphan
  /\ LiveClientHasJail
  /\ ExitLeavesNothing

-----------------------------------------------------------------------------

(* The invariant holds in the initial state: no client, no jail, no lock.  *)
LEMMA InitIInv == Init => IInv
BY RegistryAssumption
   DEF Init, IInv, TypeOK, LockInv, JoinInv, PipeInv, SetupInv, OwnerInv,
       ClosingInv, NoOrphan, LiveClientHasJail, ExitLeavesNothing, Registered,
       NoClient, Live, Stages, Reports, Adding, Looping, Down, PromptStates,
       Joining

(* Every step of the prompt thread, the sweeper, a child or another        *)
(* process keeps the invariant.  Under each action the conjuncts that the  *)
(* action keeps by itself come first; each of the others names what it     *)
(* needs of the rest of the invariant.                                     *)
LEMMA StepIInv ==
  ASSUME IInv, [Next]_vars
  PROVE  IInv'
<1> USE DEF Live, Stages, Reports, Adding, Looping, Down, PromptStates,
            Joining, Registered, procs, lock, adding, sweep
<1>1. ASSUME NEW i \in Ips, HandlePending(i) PROVE IInv'
  <2>1. TypeOK'
    BY <1>1 DEF IInv, TypeOK, HandlePending
  <2>2. /\ LockInv' /\ JoinInv' /\ PipeInv' /\ SetupInv'
        /\ OwnerInv' /\ ClosingInv' /\ NoOrphan' /\ LiveClientHasJail'
        /\ ExitLeavesNothing'
    BY <1>1 DEF IInv, LockInv, JoinInv, PipeInv, SetupInv, OwnerInv,
        ClosingInv, NoOrphan, LiveClientHasJail, ExitLeavesNothing,
        HandlePending
  <2> QED BY <2>1, <2>2 DEF IInv
<1>2. CASE RefusedReturns
  <2>1. TypeOK'
    BY <1>2 DEF IInv, TypeOK, RefusedReturns, NoClient, ReturnToMenu
  <2>2. /\ LockInv' /\ JoinInv' /\ PipeInv' /\ SetupInv'
        /\ OwnerInv' /\ ClosingInv' /\ NoOrphan' /\ LiveClientHasJail'
        /\ ExitLeavesNothing'
    BY <1>2 DEF IInv, LockInv, JoinInv, PipeInv, SetupInv, OwnerInv,
        ClosingInv, NoOrphan, LiveClientHasJail, ExitLeavesNothing,
        RefusedReturns, NoClient, ReturnToMenu
  <2> QED BY <2>1, <2>2 DEF IInv
<1>3. CASE PopulateJail
  <2>1. TypeOK'
    BY <1>3 DEF IInv, TypeOK, JoinInv, PopulateJail, NoClient, EndProcess
  <2>2. /\ LockInv' /\ JoinInv' /\ PipeInv' /\ SetupInv'
        /\ OwnerInv' /\ ClosingInv' /\ NoOrphan' /\ LiveClientHasJail'
        /\ ExitLeavesNothing'
    BY <1>3 DEF IInv, LockInv, JoinInv, PipeInv, SetupInv, OwnerInv,
        ClosingInv, NoOrphan, LiveClientHasJail, ExitLeavesNothing,
        PopulateJail, NoClient, EndProcess
  <2> QED BY <2>1, <2>2 DEF IInv
<1>4. ASSUME NEW p \in Pids, Fork(p) PROVE IInv'
  <2>1. TypeOK'
    BY <1>4 DEF IInv, TypeOK, Fork
  <2>2. /\ LockInv' /\ JoinInv' /\ PipeInv' /\ ClosingInv'
        /\ ExitLeavesNothing'
    BY <1>4 DEF IInv, LockInv, JoinInv, PipeInv, ClosingInv,
        ExitLeavesNothing, Fork
  <2>3. SetupInv'
    BY <1>4 DEF IInv, PipeInv, SetupInv, Fork
  <2>4. OwnerInv'
    BY <1>4 DEF IInv, TypeOK, JoinInv, OwnerInv, Fork
  <2>5. NoOrphan'
    BY <1>4 DEF IInv, TypeOK, NoOrphan, Fork
  <2>6. LiveClientHasJail'
    BY <1>4 DEF IInv, TypeOK, JoinInv, LiveClientHasJail, Fork
  <2> QED BY <2>1, <2>2, <2>3, <2>4, <2>5, <2>6 DEF IInv
<1>5. CASE ForkFails
  <2>1. TypeOK'
    BY <1>5 DEF IInv, TypeOK, ForkFails
  <2>2. /\ LockInv' /\ JoinInv' /\ PipeInv' /\ SetupInv'
        /\ OwnerInv' /\ ClosingInv' /\ NoOrphan' /\ LiveClientHasJail'
        /\ ExitLeavesNothing'
    BY <1>5 DEF IInv, LockInv, JoinInv, PipeInv, SetupInv, OwnerInv,
        ClosingInv, NoOrphan, LiveClientHasJail, ExitLeavesNothing, ForkFails
  <2> QED BY <2>1, <2>2 DEF IInv
<1>6. CASE ParentSignal
  <2>1. TypeOK'
    BY <1>6 DEF IInv, TypeOK, ParentSignal
  <2>2. /\ LockInv' /\ JoinInv' /\ PipeInv' /\ SetupInv'
        /\ OwnerInv' /\ ClosingInv' /\ NoOrphan' /\ LiveClientHasJail'
        /\ ExitLeavesNothing'
    BY <1>6 DEF IInv, LockInv, JoinInv, PipeInv, SetupInv, OwnerInv,
        ClosingInv, NoOrphan, LiveClientHasJail, ExitLeavesNothing,
        ParentSignal
  <2> QED BY <2>1, <2>2 DEF IInv
<1>7. CASE ParentRead
  <2>1. TypeOK'
    BY <1>7 DEF IInv, TypeOK, ParentRead, EndOfPipe
  <2>2. /\ LockInv' /\ JoinInv' /\ PipeInv' /\ SetupInv'
        /\ OwnerInv' /\ ClosingInv' /\ LiveClientHasJail' /\ ExitLeavesNothing'
    BY <1>7 DEF IInv, LockInv, JoinInv, PipeInv, SetupInv, OwnerInv,
        ClosingInv, LiveClientHasJail, ExitLeavesNothing, ParentRead,
        EndOfPipe
  <2>3. NoOrphan'
    BY <1>7 DEF IInv, PipeInv, NoOrphan, ParentRead, EndOfPipe
  <2> QED BY <2>1, <2>2, <2>3 DEF IInv
<1>8. CASE ParentCheck
  <2>1. TypeOK'
    BY <1>8 DEF IInv, TypeOK, ParentCheck, NoClient, Exists, EndProcess,
        FilesystemError, ReturnToMenu
  <2>2. /\ LockInv' /\ JoinInv' /\ PipeInv' /\ OwnerInv'
        /\ ClosingInv' /\ ExitLeavesNothing'
    BY <1>8 DEF IInv, LockInv, JoinInv, PipeInv, OwnerInv, ClosingInv,
        ExitLeavesNothing, ParentCheck, NoClient, Exists, EndProcess,
        FilesystemError, ReturnToMenu
  <2>3. SetupInv'
    BY <1>8 DEF IInv, PipeInv, SetupInv, ParentCheck, NoClient, Exists,
        EndProcess, FilesystemError, ReturnToMenu
  <2>4. NoOrphan'
    BY <1>8 DEF IInv, TypeOK, PipeInv, NoOrphan, ParentCheck, NoClient,
        Exists, EndProcess, FilesystemError, ReturnToMenu
  <2>5. LiveClientHasJail'
    BY RegistryAssumption, <1>8 DEF IInv, TypeOK, JoinInv, PipeInv, NoOrphan,
        LiveClientHasJail, ParentCheck, NoClient, Exists, EndProcess,
        FilesystemError, ReturnToMenu
  <2> QED BY <2>1, <2>2, <2>3, <2>4, <2>5 DEF IInv
<1>9. CASE Insert
  <2>1. TypeOK'
    BY <1>9 DEF IInv, TypeOK, JoinInv, Insert, NoClient, ReturnToMenu
  <2>2. /\ LockInv' /\ JoinInv' /\ PipeInv' /\ OwnerInv'
        /\ ClosingInv' /\ LiveClientHasJail' /\ ExitLeavesNothing'
    BY <1>9 DEF IInv, LockInv, JoinInv, PipeInv, OwnerInv, ClosingInv,
        LiveClientHasJail, ExitLeavesNothing, Insert, NoClient, ReturnToMenu
  <2>3. SetupInv'
    BY <1>9 DEF IInv, PipeInv, SetupInv, Insert, NoClient, ReturnToMenu
  <2>4. NoOrphan'
    BY RegistryAssumption, <1>9 DEF IInv, TypeOK, JoinInv, NoOrphan, Insert,
        NoClient, ReturnToMenu
  <2> QED BY <2>1, <2>2, <2>3, <2>4 DEF IInv
<1>10. ASSUME NEW p \in Pids, ChildReports(p) PROVE IInv'
  <2>1. TypeOK'
    BY <1>10 DEF IInv, TypeOK, ChildReports
  <2>2. LockInv' /\ JoinInv' /\ ClosingInv' /\ ExitLeavesNothing'
    BY <1>10 DEF IInv, LockInv, JoinInv, ClosingInv, ExitLeavesNothing,
        ChildReports
  <2>3. PipeInv'
    BY <1>10 DEF IInv, TypeOK, PipeInv, SetupInv, ChildReports
  <2>4. SetupInv'
    BY <1>10 DEF IInv, TypeOK, SetupInv, ChildReports
  <2>5. OwnerInv'
    BY <1>10 DEF IInv, TypeOK, OwnerInv, ChildReports
  <2>6. NoOrphan'
    BY <1>10 DEF IInv, TypeOK, NoOrphan, ChildReports
  <2>7. LiveClientHasJail'
    BY <1>10 DEF IInv, TypeOK, LiveClientHasJail, ChildReports
  <2> QED BY <2>1, <2>2, <2>3, <2>4, <2>5, <2>6, <2>7 DEF IInv
<1>11. ASSUME NEW p \in Pids, ChildExecs(p) PROVE IInv'
  <2>1. TypeOK'
    BY <1>11 DEF IInv, TypeOK, ChildExecs
  <2>2. /\ LockInv' /\ JoinInv' /\ PipeInv' /\ SetupInv'
        /\ OwnerInv' /\ ClosingInv' /\ NoOrphan' /\ LiveClientHasJail'
        /\ ExitLeavesNothing'
    BY <1>11 DEF IInv, LockInv, JoinInv, PipeInv, SetupInv, OwnerInv,
        ClosingInv, NoOrphan, LiveClientHasJail, ExitLeavesNothing, ChildExecs
  <2> QED BY <2>1, <2>2 DEF IInv
<1>12. ASSUME NEW p \in Pids, ProcessEnds(p) PROVE IInv'
  <2>1. TypeOK'
    BY <1>12 DEF IInv, TypeOK, ProcessEnds, AfterDeath, SigKill
  <2>2. /\ LockInv' /\ JoinInv' /\ PipeInv' /\ SetupInv'
        /\ OwnerInv' /\ ClosingInv' /\ NoOrphan' /\ LiveClientHasJail'
        /\ ExitLeavesNothing'
    BY <1>12 DEF IInv, LockInv, JoinInv, PipeInv, SetupInv, OwnerInv,
        ClosingInv, NoOrphan, LiveClientHasJail, ExitLeavesNothing,
        ProcessEnds, AfterDeath, SigKill
  <2> QED BY <2>1, <2>2 DEF IInv
<1>13. ASSUME NEW p \in Pids, OtherProcess(p) PROVE IInv'
  <2>1. TypeOK'
    BY <1>13 DEF IInv, TypeOK, OtherProcess
  <2>2. /\ LockInv' /\ JoinInv' /\ PipeInv' /\ SetupInv'
        /\ OwnerInv' /\ ClosingInv' /\ NoOrphan' /\ LiveClientHasJail'
        /\ ExitLeavesNothing'
    BY <1>13 DEF IInv, LockInv, JoinInv, PipeInv, SetupInv, OwnerInv,
        ClosingInv, NoOrphan, LiveClientHasJail, ExitLeavesNothing,
        OtherProcess
  <2> QED BY <2>1, <2>2 DEF IInv
<1>14. CASE Display
  <2>1. TypeOK'
    BY <1>14 DEF IInv, TypeOK, Display, LockedLoop
  <2>2. /\ LockInv' /\ JoinInv' /\ PipeInv' /\ SetupInv'
        /\ OwnerInv' /\ ClosingInv' /\ NoOrphan' /\ LiveClientHasJail'
        /\ ExitLeavesNothing'
    BY <1>14 DEF IInv, LockInv, JoinInv, PipeInv, SetupInv, OwnerInv,
        ClosingInv, NoOrphan, LiveClientHasJail, ExitLeavesNothing, Display,
        LockedLoop
  <2> QED BY <2>1, <2>2 DEF IInv
<1>15. ASSUME NEW i \in Ips, DisplayOne(i) PROVE IInv'
  <2>1. TypeOK'
    BY <1>15 DEF IInv, TypeOK, DisplayOne
  <2>2. /\ LockInv' /\ JoinInv' /\ PipeInv' /\ SetupInv'
        /\ OwnerInv' /\ ClosingInv' /\ NoOrphan' /\ LiveClientHasJail'
        /\ ExitLeavesNothing'
    BY <1>15 DEF IInv, LockInv, JoinInv, PipeInv, SetupInv, OwnerInv,
        ClosingInv, NoOrphan, LiveClientHasJail, ExitLeavesNothing, DisplayOne
  <2> QED BY <2>1, <2>2 DEF IInv
<1>16. ASSUME NEW i \in Ips, DisplayDrop(i) PROVE IInv'
  <2>1. TypeOK'
    BY <1>16 DEF IInv, TypeOK, DisplayDrop, NoClient, AfterDeath, SigKill,
        EndProcess, FilesystemError, Erase, DropEntry, DropEntryFails
  <2>2. JoinInv' /\ PipeInv' /\ ExitLeavesNothing'
    BY <1>16 DEF IInv, JoinInv, PipeInv, ExitLeavesNothing, DisplayDrop,
        NoClient, AfterDeath, SigKill, EndProcess, FilesystemError, Erase,
        DropEntry, DropEntryFails
  <2>3. LockInv'
    BY <1>16 DEF IInv, TypeOK, LockInv, DisplayDrop, NoClient, AfterDeath,
        SigKill, EndProcess, FilesystemError, Erase, DropEntry, DropEntryFails
  <2>4. SetupInv'
    BY <1>16 DEF IInv, TypeOK, SetupInv, DisplayDrop, NoClient, AfterDeath,
        SigKill, EndProcess, FilesystemError, Erase, DropEntry, DropEntryFails
  <2>5. OwnerInv'
    BY <1>16 DEF IInv, TypeOK, OwnerInv, DisplayDrop, NoClient, AfterDeath,
        SigKill, EndProcess, FilesystemError, Erase, DropEntry, DropEntryFails
  <2>6. ClosingInv'
    BY <1>16 DEF IInv, TypeOK, ClosingInv, DisplayDrop, NoClient, AfterDeath,
        SigKill, EndProcess, FilesystemError, Erase, DropEntry, DropEntryFails
  <2>7. NoOrphan'
    BY <1>16 DEF IInv, TypeOK, NoOrphan, LiveClientHasJail, DisplayDrop,
        NoClient, AfterDeath, SigKill, EndProcess, FilesystemError, Erase,
        DropEntry, DropEntryFails
  <2>8. LiveClientHasJail'
    BY <1>16 DEF IInv, TypeOK, NoOrphan, LiveClientHasJail, DisplayDrop,
        NoClient, AfterDeath, SigKill, EndProcess, FilesystemError, Erase,
        DropEntry, DropEntryFails
  <2> QED BY <2>1, <2>2, <2>3, <2>4, <2>5, <2>6, <2>7, <2>8 DEF IInv
<1>17. CASE DisplayDone
  <2>1. TypeOK'
    BY <1>17 DEF IInv, TypeOK, DisplayDone
  <2>2. /\ LockInv' /\ JoinInv' /\ PipeInv' /\ SetupInv'
        /\ OwnerInv' /\ ClosingInv' /\ NoOrphan' /\ LiveClientHasJail'
        /\ ExitLeavesNothing'
    BY <1>17 DEF IInv, LockInv, JoinInv, PipeInv, SetupInv, OwnerInv,
        ClosingInv, NoOrphan, LiveClientHasJail, ExitLeavesNothing,
        DisplayDone
  <2> QED BY <2>1, <2>2 DEF IInv
<1>18. CASE DropCheckSize
  <2>1. TypeOK'
    BY <1>18 DEF IInv, TypeOK, DropCheckSize
  <2>2. /\ LockInv' /\ JoinInv' /\ PipeInv' /\ SetupInv'
        /\ OwnerInv' /\ ClosingInv' /\ NoOrphan' /\ LiveClientHasJail'
        /\ ExitLeavesNothing'
    BY <1>18 DEF IInv, LockInv, JoinInv, PipeInv, SetupInv, OwnerInv,
        ClosingInv, NoOrphan, LiveClientHasJail, ExitLeavesNothing,
        DropCheckSize
  <2> QED BY <2>1, <2>2 DEF IInv
<1>19. ASSUME NEW i \in Ips, DropSpecific(i) PROVE IInv'
  <2>1. TypeOK'
    BY <1>19 DEF IInv, TypeOK, DropSpecific, NoClient, AfterDeath, SigKill,
        EndProcess, FilesystemError, Erase, DropEntry, DropEntryFails
  <2>2. /\ LockInv' /\ JoinInv' /\ PipeInv' /\ ClosingInv'
        /\ ExitLeavesNothing'
    BY <1>19 DEF IInv, LockInv, JoinInv, PipeInv, ClosingInv,
        ExitLeavesNothing, DropSpecific, NoClient, AfterDeath, SigKill,
        EndProcess, FilesystemError, Erase, DropEntry, DropEntryFails
  <2>3. SetupInv'
    BY <1>19 DEF IInv, TypeOK, SetupInv, DropSpecific, NoClient, AfterDeath,
        SigKill, EndProcess, FilesystemError, Erase, DropEntry, DropEntryFails
  <2>4. OwnerInv'
    BY <1>19 DEF IInv, TypeOK, OwnerInv, DropSpecific, NoClient, AfterDeath,
        SigKill, EndProcess, FilesystemError, Erase, DropEntry, DropEntryFails
  <2>5. NoOrphan'
    BY <1>19 DEF IInv, TypeOK, NoOrphan, LiveClientHasJail, DropSpecific,
        NoClient, AfterDeath, SigKill, EndProcess, FilesystemError, Erase,
        DropEntry, DropEntryFails
  <2>6. LiveClientHasJail'
    BY <1>19 DEF IInv, TypeOK, NoOrphan, LiveClientHasJail, DropSpecific,
        NoClient, AfterDeath, SigKill, EndProcess, FilesystemError, Erase,
        DropEntry, DropEntryFails
  <2> QED BY <2>1, <2>2, <2>3, <2>4, <2>5, <2>6 DEF IInv
<1>20. CASE DropAll
  <2>1. TypeOK'
    BY <1>20 DEF IInv, TypeOK, DropAll, LockedLoop
  <2>2. /\ LockInv' /\ JoinInv' /\ PipeInv' /\ SetupInv'
        /\ OwnerInv' /\ ClosingInv' /\ NoOrphan' /\ LiveClientHasJail'
        /\ ExitLeavesNothing'
    BY <1>20 DEF IInv, LockInv, JoinInv, PipeInv, SetupInv, OwnerInv,
        ClosingInv, NoOrphan, LiveClientHasJail, ExitLeavesNothing, DropAll,
        LockedLoop
  <2> QED BY <2>1, <2>2 DEF IInv
<1>21. ASSUME NEW i \in Ips, DropAllOne(i) PROVE IInv'
  <2>1. TypeOK'
    BY <1>21 DEF IInv, TypeOK, DropAllOne, NoClient, AfterDeath, SigKill,
        EndProcess, FilesystemError, Erase, DropEntry, DropEntryFails
  <2>2. JoinInv' /\ PipeInv' /\ ExitLeavesNothing'
    BY <1>21 DEF IInv, JoinInv, PipeInv, ExitLeavesNothing, DropAllOne,
        NoClient, AfterDeath, SigKill, EndProcess, FilesystemError, Erase,
        DropEntry, DropEntryFails
  <2>3. LockInv'
    BY <1>21 DEF IInv, TypeOK, LockInv, DropAllOne, NoClient, AfterDeath,
        SigKill, EndProcess, FilesystemError, Erase, DropEntry, DropEntryFails
  <2>4. SetupInv'
    BY <1>21 DEF IInv, TypeOK, SetupInv, DropAllOne, NoClient, AfterDeath,
        SigKill, EndProcess, FilesystemError, Erase, DropEntry, DropEntryFails
  <2>5. OwnerInv'
    BY <1>21 DEF IInv, TypeOK, OwnerInv, DropAllOne, NoClient, AfterDeath,
        SigKill, EndProcess, FilesystemError, Erase, DropEntry, DropEntryFails
  <2>6. ClosingInv'
    BY <1>21 DEF IInv, TypeOK, ClosingInv, DropAllOne, NoClient, AfterDeath,
        SigKill, EndProcess, FilesystemError, Erase, DropEntry, DropEntryFails
  <2>7. NoOrphan'
    BY <1>21 DEF IInv, TypeOK, NoOrphan, LiveClientHasJail, DropAllOne,
        NoClient, AfterDeath, SigKill, EndProcess, FilesystemError, Erase,
        DropEntry, DropEntryFails
  <2>8. LiveClientHasJail'
    BY <1>21 DEF IInv, TypeOK, NoOrphan, LiveClientHasJail, DropAllOne,
        NoClient, AfterDeath, SigKill, EndProcess, FilesystemError, Erase,
        DropEntry, DropEntryFails
  <2> QED BY <2>1, <2>2, <2>3, <2>4, <2>5, <2>6, <2>7, <2>8 DEF IInv
<1>22. CASE DropAllDone
  <2>1. TypeOK'
    BY <1>22 DEF IInv, TypeOK, DropAllDone
  <2>2. /\ LockInv' /\ JoinInv' /\ PipeInv' /\ SetupInv'
        /\ OwnerInv' /\ NoOrphan' /\ LiveClientHasJail' /\ ExitLeavesNothing'
    BY <1>22 DEF IInv, LockInv, JoinInv, PipeInv, SetupInv, OwnerInv,
        NoOrphan, LiveClientHasJail, ExitLeavesNothing, DropAllDone
  <2>3. ClosingInv'
    BY <1>22 DEF IInv, TypeOK, ClosingInv, DropAllDone
  <2> QED BY <2>1, <2>2, <2>3 DEF IInv
<1>23. CASE Exit
  <2>1. TypeOK'
    BY <1>23 DEF IInv, TypeOK, Exit
  <2>2. /\ LockInv' /\ JoinInv' /\ PipeInv' /\ SetupInv'
        /\ OwnerInv' /\ ClosingInv' /\ NoOrphan' /\ LiveClientHasJail'
        /\ ExitLeavesNothing'
    BY <1>23 DEF IInv, LockInv, JoinInv, PipeInv, SetupInv, OwnerInv,
        ClosingInv, NoOrphan, LiveClientHasJail, ExitLeavesNothing, Exit
  <2> QED BY <2>1, <2>2 DEF IInv
<1>24. CASE EraseJailDir
  <2>1. TypeOK'
    BY <1>24 DEF IInv, TypeOK, EraseJailDir, NoClient, EndProcess,
        FilesystemError
  <2>2. /\ LockInv' /\ JoinInv' /\ PipeInv' /\ SetupInv'
        /\ OwnerInv' /\ ClosingInv'
    BY <1>24 DEF IInv, LockInv, JoinInv, PipeInv, SetupInv, OwnerInv,
        ClosingInv, EraseJailDir, NoClient, EndProcess, FilesystemError
  <2>3. NoOrphan'
    BY <1>24 DEF IInv, ClosingInv, NoOrphan, EraseJailDir, NoClient,
        EndProcess, FilesystemError
  <2>4. LiveClientHasJail'
    BY RegistryAssumption, <1>24 DEF IInv, OwnerInv, ClosingInv, NoOrphan,
        LiveClientHasJail, EraseJailDir, NoClient, EndProcess, FilesystemError
  <2>5. ExitLeavesNothing'
    BY RegistryAssumption, <1>24 DEF IInv, OwnerInv, ClosingInv, NoOrphan,
        ExitLeavesNothing, EraseJailDir, NoClient, EndProcess, FilesystemError
  <2> QED BY <2>1, <2>2, <2>3, <2>4, <2>5 DEF IInv
<1>25. CASE SweepLock
  <2>1. TypeOK'
    BY <1>25 DEF IInv, TypeOK, SweepLock
  <2>2. /\ LockInv' /\ JoinInv' /\ PipeInv' /\ SetupInv'
        /\ OwnerInv' /\ ClosingInv' /\ NoOrphan' /\ LiveClientHasJail'
        /\ ExitLeavesNothing'
    BY <1>25 DEF IInv, LockInv, JoinInv, PipeInv, SetupInv, OwnerInv,
        ClosingInv, NoOrphan, LiveClientHasJail, ExitLeavesNothing, SweepLock
  <2> QED BY <2>1, <2>2 DEF IInv
<1>26. ASSUME NEW i \in Ips, SweepOne(i) PROVE IInv'
  <2>1. TypeOK'
    BY <1>26 DEF IInv, TypeOK, SweepOne, NoClient, Exists, EndProcess,
        FilesystemError
  <2>2. /\ LockInv' /\ PipeInv' /\ SetupInv' /\ OwnerInv'
        /\ ClosingInv' /\ NoOrphan' /\ ExitLeavesNothing'
    BY <1>26 DEF IInv, LockInv, PipeInv, SetupInv, OwnerInv, ClosingInv,
        NoOrphan, ExitLeavesNothing, SweepOne, NoClient, Exists, EndProcess,
        FilesystemError
  <2>3. JoinInv'
    BY <1>26 DEF IInv, LockInv, JoinInv, SweepOne, NoClient, Exists,
        EndProcess, FilesystemError
  <2>4. LiveClientHasJail'
    BY <1>26 DEF IInv, LockInv, JoinInv, NoOrphan, LiveClientHasJail,
        SweepOne, NoClient, Exists, EndProcess, FilesystemError
  <2> QED BY <2>1, <2>2, <2>3, <2>4 DEF IInv
<1>27. CASE SweepUnlock
  <2>1. TypeOK'
    BY <1>27 DEF IInv, TypeOK, SweepUnlock
  <2>2. /\ LockInv' /\ JoinInv' /\ PipeInv' /\ SetupInv'
        /\ OwnerInv' /\ ClosingInv' /\ NoOrphan' /\ LiveClientHasJail'
        /\ ExitLeavesNothing'
    BY <1>27 DEF IInv, LockInv, JoinInv, PipeInv, SetupInv, OwnerInv,
        ClosingInv, NoOrphan, LiveClientHasJail, ExitLeavesNothing,
        SweepUnlock
  <2> QED BY <2>1, <2>2 DEF IInv
<1>28. CASE Ended
  <2>1. TypeOK'
    BY <1>28 DEF IInv, TypeOK, Ended, vars
  <2>2. /\ LockInv' /\ JoinInv' /\ PipeInv' /\ SetupInv'
        /\ OwnerInv' /\ ClosingInv' /\ NoOrphan' /\ LiveClientHasJail'
        /\ ExitLeavesNothing'
    BY <1>28 DEF IInv, LockInv, JoinInv, PipeInv, SetupInv, OwnerInv,
        ClosingInv, NoOrphan, LiveClientHasJail, ExitLeavesNothing, Ended,
        vars
  <2> QED BY <2>1, <2>2 DEF IInv
<1>29. CASE UNCHANGED vars
  BY <1>29 DEF IInv, TypeOK, LockInv, JoinInv, PipeInv, SetupInv, OwnerInv,
      ClosingInv, NoOrphan, LiveClientHasJail, ExitLeavesNothing, vars
<1> QED
  BY <1>1, <1>2, <1>3, <1>4, <1>5, <1>6, <1>7, <1>8, <1>9, <1>10, <1>11,
     <1>12, <1>13, <1>14, <1>15, <1>16, <1>17, <1>18, <1>19, <1>20, <1>21,
     <1>22, <1>23, <1>24, <1>25, <1>26, <1>27, <1>28, <1>29
     DEF Next, Operator, PromptThread, Sweeper, Child

(* The invariant holds in every reachable state.                           *)
THEOREM Invariance == Spec => []IInv
BY InitIInv, StepIInv, PTL DEF Spec

(* Every variable of the registry keeps its type.                          *)
THEOREM TypeCorrect == Spec => []TypeOK
<1>1. IInv => TypeOK
  BY DEF IInv
<1> QED BY <1>1, Invariance, PTL

(* No path of the code takes away the jail of a client that runs.          *)
THEOREM JailsKept == Spec => []LiveClientHasJail
<1>1. IInv => LiveClientHasJail
  BY DEF IInv
<1> QED BY <1>1, Invariance, PTL

(* Every client that runs can be found, and so dropped, by the operator.   *)
THEOREM ClientsFound == Spec => []NoOrphan
<1>1. IInv => NoOrphan
  BY DEF IInv
<1> QED BY <1>1, Invariance, PTL

(* A server that exits leaves neither jails nor clients.                   *)
THEOREM CleanExit == Spec => []ExitLeavesNothing
<1>1. IInv => ExitLeavesNothing
  BY DEF IInv
<1> QED BY <1>1, Invariance, PTL

(* Nobody changes the map while the sweeper iterates over it: whoever does *)
(* needs the mutex, which the sweeper holds; and when the server exits the *)
(* map is empty already.                                                   *)
THEOREM MapStable == Spec => MapStableWhileSwept
<1>1. ASSUME IInv, [Next]_vars
      PROVE  [sweeper = "sweep" /\ prompt' # "aborted" => c_map' = c_map]_vars
  <2> SUFFICES ASSUME sweeper = "sweep", prompt' # "aborted", Next
               PROVE  c_map' = c_map
    BY <1>1 DEF vars
  <2>1. mutex = "sweeper" /\ prompt \notin Looping
    BY <1>1 DEF IInv, LockInv
  <2>2. CASE Operator
    BY <2>1, <2>2 DEF Operator, HandlePending, DropSpecific, DropEntryFails,
        PopulateJail, Display, LockedLoop, DropAll, Exit, FilesystemError,
        EndProcess
  <2>3. CASE \E i \in Ips : DisplayOne(i) \/ DisplayDrop(i) \/ DropAllOne(i)
    BY <2>1, <2>3 DEF DisplayOne, DisplayDrop, DropAllOne, Looping
  <2>4. CASE EraseJailDir
    BY <1>1, <2>4 DEF IInv, ClosingInv, EraseJailDir, EndProcess,
        FilesystemError
  <2>5. CASE PromptThread
    BY <2>1, <2>3, <2>4, <2>5 DEF PromptThread, RefusedReturns, Fork,
        ForkFails, ParentSignal, ParentRead, ParentCheck, Insert, DisplayDone,
        DropCheckSize, DropAll, DropAllDone, LockedLoop, FilesystemError,
        EndProcess
  <2>6. CASE Sweeper
    BY <2>6 DEF Sweeper, SweepLock, SweepOne, SweepUnlock, FilesystemError,
        EndProcess
  <2>7. CASE \E p \in Pids : Child(p) \/ ProcessEnds(p) \/ OtherProcess(p)
    BY <2>7 DEF Child, ChildReports, ChildExecs, ProcessEnds, OtherProcess
  <2> QED
    BY <2>2, <2>5, <2>6, <2>7 DEF Next, Ended, vars
<1> QED
  BY <1>1, Invariance, PTL DEF Spec, MapStableWhileSwept

(* Whatever becomes of the pids, to drop a client that lives ends its      *)
(* process and nobody else's: as long as it lives nobody else has its pid, *)
(* and its entry has no other (Server.cpp:84, 280, 346, 370).              *)
THEOREM DropsAlone == Spec => LiveClientsDropAlone
<1> DEFINE Dropped(i) == c_map[i] # NoPid /\ c_map'[i] = NoPid
           Alone(i) == \A p \in Pids :
             stage'[p] # stage[p] <=> stage[p] \in Live /\ owner[p] = i
<1>1. ASSUME IInv, [Next]_vars, prompt' # "aborted",
             NEW i \in Ips \cap alive, Dropped(i)
      PROVE  Alone(i)
  <2> USE DEF procs, lock, adding, sweep
  <2>1. /\ c_map \in [Ips -> Pids \cup {NoPid}] /\ stage \in [Pids -> Stages]
        /\ prompt \notin {"erase"} \cup Down
    BY <1>1 DEF IInv, TypeOK, ClosingInv
  <2>2. \A p \in Pids : stage[p] \in Live /\ owner[p] = i => p = c_map[i]
    BY <1>1, <2>1 DEF IInv, NoOrphan, JoinInv, Joining, Down
  <2>3. c_map[i] \in Pids /\ stage[c_map[i]] \in Live /\ owner[c_map[i]] = i
    BY <1>1, <2>1, <2>2 DEF alive
  <2>4. stage' = SigKill(c_map[i])
    <3>1. CASE Operator
      BY <1>1, <2>1, <3>1 DEF Operator, HandlePending, DropSpecific,
         DropEntry, DropEntryFails, Erase, PopulateJail, Display, DropAll,
         LockedLoop, Exit, FilesystemError, EndProcess
    <3>2. CASE \E j \in Ips : DisplayOne(j) \/ DisplayDrop(j) \/ DropAllOne(j)
      BY <1>1, <2>1, <3>2 DEF DisplayOne, DisplayDrop, DropAllOne, DropEntry,
         DropEntryFails, Erase, FilesystemError, EndProcess
    <3>3. CASE Insert
      BY <1>1, <2>1, <3>3, RegistryAssumption DEF Insert, IInv, JoinInv,
         Joining, Adding
    <3>4. CASE PromptThread
      BY <1>1, <2>1, <3>2, <3>3, <3>4 DEF PromptThread, RefusedReturns, Fork,
         ForkFails, ParentSignal, ParentRead, ParentCheck, ReturnToMenu,
         DisplayDone, DropCheckSize, DropAll, DropAllDone, LockedLoop,
         EraseJailDir, FilesystemError, EndProcess
    <3>5. CASE Sweeper
      BY <1>1, <3>5 DEF Sweeper, SweepLock, SweepOne, SweepUnlock,
         FilesystemError, EndProcess
    <3>6. CASE \E p \in Pids : Child(p) \/ ProcessEnds(p) \/ OtherProcess(p)
      BY <1>1, <3>6 DEF Child, ChildReports, ChildExecs, ProcessEnds,
         OtherProcess
    <3>7. CASE Ended \/ UNCHANGED vars
      BY <1>1, <3>7 DEF Ended, vars
    <3> QED BY <1>1, <3>1, <3>4, <3>5, <3>6, <3>7 DEF Next
  <2> QED
    BY <2>1, <2>2, <2>3, <2>4 DEF SigKill, AfterDeath, Live
<1>2. IInv /\ [Next]_vars =>
        [prompt' # "aborted" =>
           \A i \in Ips \cap alive : Dropped(i) => Alone(i)]_vars
  BY <1>1
<1> QED
  BY <1>2, Invariance, PTL DEF Spec, LiveClientsDropAlone

-----------------------------------------------------------------------------
(* What a pid says of its client, as long as the kernel does not hand out  *)
(* a pid twice.                                                            *)

-----------------------------------------------------------------------------
(* What must happen.  A thread keeps the mutex for one pass over a map     *)
(* that is finite and that nobody else changes, but that such a loop ends  *)
(* needs an induction over temporal formulas and is left to TLC:           *)
(* MutexReleased.  From that, and from the fairness of the threads and     *)
(* children, each with its guard spelled out, follows the rest, for any    *)
(* number of addresses.                                                    *)

(* The prompt thread has something to do.                                  *)
PromptCan ==
  \/ prompt \in Looping \cup {"refused", "fork", "signal", "erase"}
  \/ prompt = "read" /\ (pipe # "empty" \/ EndOfPipe)
  \/ prompt = "check" /\ stage[new_client.pid] # "told"
  \/ prompt \in {"insert", "size", "dtor"} /\ mutex = "none"

(* Weak fairness of PromptThread.                                          *)
PromptFair == [](<>~PromptCan \/ <><<PromptThread>>_vars)

(* The sweeper has something to do.                                        *)
SweepCan ==
  \/ sweeper = "sweep"
  \/ sweeper = "sleep" /\ prompt \notin Down /\ mutex = "none"

(* What the loop of the thread that holds the mutex has before it.         *)
Unvisited == IF mutex = "sweeper" THEN unswept ELSE todo

(* The loop is over entries of a finite map, and its thread can go on.     *)
LoopBounded ==
  /\ IsFiniteSet(Registered)
  /\ mutex # "none" => /\ Unvisited \subseteq Registered
                       /\ IF mutex = "sweeper" THEN SweepCan ELSE PromptCan

(* A step of that thread takes an entry off it, has found the one gone     *)
(* that it takes off next, or lets go of the mutex; the others put none on *)
(* it.                                                                     *)
Visit ==
  mutex # "none" =>
    \/ mutex' = "none"
    \/ mutex' = mutex /\ \E i \in Unvisited : Unvisited' = Unvisited \ {i}
    \/ mutex' = mutex /\ Unvisited' = Unvisited /\ dead = NoIp /\ dead' # NoIp
    \/ /\ mutex' = mutex /\ Unvisited' = Unvisited /\ dead' = dead
       /\ IF mutex = "sweeper" THEN ~Sweeper ELSE ~PromptThread

LoopAdvances == [][Visit]_vars

(* The map is finite, since an entry is added at a time.                   *)
LEMMA StepFinite ==
  ASSUME IInv, IsFiniteSet(Registered), [Next]_vars
  PROVE  IsFiniteSet(Registered')
<1> USE DEF procs, lock, adding, sweep
<1>1. c_map \in [Ips -> Pids \cup {NoPid}]
  BY DEF IInv, TypeOK
<1>2. \/ Registered' \subseteq Registered
      \/ Registered' \subseteq Registered \cup {new_client.ip}
  <2>1. CASE Operator
    BY <1>1, <2>1 DEF Operator, HandlePending, DropSpecific, DropEntry,
        DropEntryFails, Erase, PopulateJail, Display, DropAll, LockedLoop,
        Exit, FilesystemError, EndProcess, Registered
  <2>2. CASE PromptThread
    BY <1>1, <2>2 DEF PromptThread, RefusedReturns, ReturnToMenu, Fork,
        ForkFails, ParentSignal, ParentRead, ParentCheck, Insert, DisplayOne,
        DisplayDrop, DropAllOne, DropEntry, DropEntryFails, Erase,
        DisplayDone, DropCheckSize, DropAll, DropAllDone, LockedLoop,
        EraseJailDir, FilesystemError, EndProcess, Registered
  <2>3. CASE Sweeper
    BY <2>3 DEF Sweeper, SweepLock, SweepOne, SweepUnlock, FilesystemError,
        EndProcess, Registered
  <2>4. CASE \E p \in Pids : Child(p) \/ ProcessEnds(p) \/ OtherProcess(p)
    BY <2>4 DEF Child, ChildReports, ChildExecs, ProcessEnds, OtherProcess,
        Registered
  <2>5. CASE Ended \/ UNCHANGED vars
    BY <2>5 DEF Ended, vars, Registered
  <2> QED BY <2>1, <2>2, <2>3, <2>4, <2>5 DEF Next
<1>3. IsFiniteSet(Registered \cup {new_client.ip})
  BY FS_AddElement
<1> QED BY <1>2, <1>3, FS_Subset

(* The thread that holds the mutex visits an entry or lets go of it.       *)
LEMMA HolderVisits ==
  ASSUME IInv, mutex # "none",
         IF mutex = "sweeper" THEN Sweeper ELSE PromptThread
  PROVE  \/ mutex' = "none"
         \/ mutex' = mutex /\ \E i \in Unvisited : Unvisited' = Unvisited \ {i}
         \/ /\ mutex' = mutex /\ Unvisited' = Unvisited
            /\ dead = NoIp /\ dead' # NoIp
<1> USE DEF procs, lock, adding, sweep
<1>1. CASE mutex = "sweeper"
  BY <1>1 DEF Sweeper, SweepLock, SweepOne, SweepUnlock, FilesystemError,
      EndProcess, Unvisited
<1>2. CASE mutex = "prompt"
  <2>1. prompt \in Looping
    BY <1>2 DEF IInv, LockInv
  <2>2. \/ \E i \in Ips : DisplayOne(i) \/ DisplayDrop(i) \/ DropAllOne(i)
        \/ DisplayDone \/ DropAllDone
    BY <1>2, <2>1 DEF PromptThread, RefusedReturns, Fork, ForkFails,
        ParentSignal, ParentRead, ParentCheck, Insert, DropCheckSize,
        DropAll, EraseJailDir, Looping
  <2>3. dead # NoIp => dead \in todo
    BY DEF IInv, LockInv
  <2> QED
    BY <1>2, <2>2, <2>3, RegistryAssumption DEF DisplayOne, DisplayDrop,
        DropAllOne, DropEntryFails, DisplayDone, DropAllDone, FilesystemError,
        EndProcess, Unvisited
<1> QED BY <1>1, <1>2 DEF IInv, TypeOK

(* The others leave the mutex and the loop alone, or end the process.      *)
LEMMA OthersLeave ==
  ASSUME IInv, [Next]_vars, mutex # "none",
         IF mutex = "sweeper" THEN ~Sweeper ELSE ~PromptThread
  PROVE  \/ mutex' = "none"
         \/ mutex' = mutex /\ Unvisited' = Unvisited /\ dead' = dead
<1> USE DEF procs, lock, adding, sweep
<1>1. /\ mutex = "sweeper" <=> sweeper = "sweep"
      /\ mutex = "prompt" <=> prompt \in Looping
      /\ mutex \in {"prompt", "sweeper"}
  BY DEF IInv, LockInv, TypeOK
<1>2. CASE Operator
  BY <1>1, <1>2 DEF Operator, HandlePending, DropSpecific, DropEntryFails,
      PopulateJail, Display, DropAll, LockedLoop, Exit, FilesystemError,
      EndProcess, Unvisited, Looping
<1>3. CASE PromptThread
  BY <1>1, <1>3 DEF PromptThread, RefusedReturns, Fork, ForkFails,
      ParentSignal, ParentRead, ParentCheck, Insert, DisplayOne, DisplayDrop,
      DropAllOne, DropEntryFails, DisplayDone, DropCheckSize, DropAll,
      DropAllDone, LockedLoop, EraseJailDir, FilesystemError, EndProcess,
      Unvisited, Looping
<1>4. CASE Sweeper
  BY <1>1, <1>4 DEF Sweeper, SweepLock, SweepOne, SweepUnlock
<1>5. CASE \E p \in Pids : Child(p) \/ ProcessEnds(p) \/ OtherProcess(p)
  BY <1>5 DEF Child, ChildReports, ChildExecs, ProcessEnds, OtherProcess,
      Unvisited
<1>6. CASE Ended \/ UNCHANGED vars
  BY <1>6 DEF Ended, vars, Unvisited
<1> QED BY <1>2, <1>3, <1>4, <1>5, <1>6 DEF Next

(* A thread that has clients_map_mut passes once over a finite map and     *)
(* lets go of it: it can always go on, it comes nearer to its end with     *)
(* each step, and neither the other thread nor the children, the kernel or *)
(* the operator put off that end (Server.cpp:199-204, 362-379, 402-413).   *)
THEOREM MutexProgress == Spec => []LoopBounded /\ LoopAdvances
<1>1. Init => IsFiniteSet(Registered)
  <2> SUFFICES ASSUME Init PROVE IsFiniteSet(Registered)
    OBVIOUS
  <2>1. Registered = {}
    BY DEF Init, Registered
  <2> QED BY <2>1, FS_EmptySet
<1>2. IInv /\ IsFiniteSet(Registered) /\ [Next]_vars
        => IsFiniteSet(Registered)'
  BY StepFinite
<1>3. IInv /\ IsFiniteSet(Registered) => LoopBounded
  BY DEF IInv, TypeOK, LockInv, LoopBounded, Unvisited, SweepCan, PromptCan
<1>4. IInv /\ [Next]_vars => Visit
  BY HolderVisits, OthersLeave DEF Visit
<1> QED BY <1>1, <1>2, <1>3, <1>4, Invariance, PTL DEF Spec, LoopAdvances

(* Strong fairness of Insert, and of the destructor's DropAll.             *)
InsertFair ==
  []<>(prompt = "insert" /\ mutex = "none") => []<><<Insert>>_vars

DropFair ==
  []<>(prompt = "dtor" /\ mutex = "none")
    => []<><<prompt = "dtor" /\ DropAll>>_vars

(* A child has something to do; weak fairness of Child, for every child.   *)
ChildCan(p) == (stage[p] = "setup" /\ prompt \notin Down) \/ stage[p] = "told"

ChildRuns(p) == <>~ChildCan(p) \/ <><<Child(p)>>_vars
ChildrenRun == \A p \in Pids : ChildRuns(p)
ChildrenFair == []ChildrenRun

(* Strong fairness of SweepLock.                                           *)
SweepFair ==
  []<>(sweeper = "sleep" /\ ~(prompt \in Down) /\ mutex = "none")
    => []<><<SweepLock>>_vars

(* Where the prompt thread can get to in a step.                           *)
LEMMA PromptMoves ==
  ASSUME IInv, [Next]_vars
  PROVE  /\ prompt = "signal" => prompt' \in {"signal", "read", "aborted"}
         /\ prompt = "read" =>
              /\ prompt' \in {"read", "check", "dtor", "aborted"}
              /\ prompt' = "read" => new_client' = new_client
         /\ prompt = "check" =>
              /\ prompt' \in {"check", "insert", "menu", "aborted"}
              /\ prompt' = "check" => new_client' = new_client
         /\ prompt = "insert" => prompt' \in {"insert", "menu", "aborted"}
         /\ prompt = "dtor" => prompt' \in {"dtor", "dtordrop", "aborted"}
         /\ prompt = "dtordrop" =>
              prompt' \in {"dtordrop", "erase", "aborted"}
         /\ prompt = "erase" => prompt' \in {"erase", "exited", "aborted"}
<1> USE DEF procs, lock, adding, sweep
<1>1. CASE Operator
  BY <1>1 DEF Operator, HandlePending, DropSpecific, DropEntryFails,
      PopulateJail, Display, DropAll, LockedLoop, Exit, FilesystemError,
      EndProcess
<1>2. CASE PromptThread
  BY <1>2 DEF PromptThread, RefusedReturns, ReturnToMenu, Fork, ForkFails,
      ParentSignal, ParentRead, ParentCheck, Insert, DisplayOne, DisplayDrop,
      DropAllOne, DropEntry, DropEntryFails, Erase, DisplayDone,
      DropCheckSize, DropAll, DropAllDone, LockedLoop, EraseJailDir,
      FilesystemError, EndProcess
<1>3. CASE Sweeper
  BY <1>3 DEF Sweeper, SweepLock, SweepOne, SweepUnlock, FilesystemError,
      EndProcess
<1>4. CASE \E p \in Pids : Child(p) \/ ProcessEnds(p) \/ OtherProcess(p)
  BY <1>4 DEF Child, ChildReports, ChildExecs, ProcessEnds, OtherProcess
<1>5. CASE Ended \/ UNCHANGED vars
  BY <1>5 DEF Ended, vars
<1> QED BY <1>1, <1>2, <1>3, <1>4, <1>5 DEF Next

(* The destructor gets the mutex and finishes, if the threads run and no   *)
(* one keeps the mutex for ever (Server.cpp:48-51).                        *)
THEOREM DestructorEnds ==
  Spec /\ MutexReleased /\ PromptFair /\ DropFair => DestructorTerminates
<1> DEFINE Dtor  == prompt = "dtor"
           Drop  == prompt = "dtordrop"
           Erasing == prompt = "erase"
           Over  == prompt \in Down
<1>1. /\ IInv /\ [Next]_vars /\ Dtor => Dtor' \/ Drop' \/ Over'
      /\ IInv /\ [Next]_vars /\ Drop => Drop' \/ Erasing' \/ Over'
      /\ IInv /\ [Next]_vars /\ Erasing => Erasing' \/ Over'
  BY PromptMoves DEF Down
<1>2. <<prompt = "dtor" /\ DropAll>>_vars => Drop'
  BY DEF DropAll, LockedLoop
<1>3. IInv /\ Drop => ~(mutex = "none")
  BY DEF IInv, LockInv, Looping
<1>4. Erasing => PromptCan
  BY DEF PromptCan
<1>5. Erasing /\ <<PromptThread>>_vars => Over'
  BY DEF PromptThread, RefusedReturns, Fork, ForkFails, ParentSignal,
      ParentRead, ParentCheck, Insert, DisplayOne, DisplayDrop, DropAllOne,
      DisplayDone, DropCheckSize, DropAllDone, EraseJailDir, FilesystemError,
      EndProcess, Down
<1>6. Spec /\ MutexReleased /\ DropFair => (Dtor ~> Drop \/ Over)
  BY <1>1, <1>2, Invariance, PTL DEF Spec, MutexReleased, DropFair
<1>7. Spec /\ MutexReleased => (Drop ~> Erasing \/ Over)
  BY <1>1, <1>3, Invariance, PTL DEF Spec, MutexReleased
<1>8. Spec /\ PromptFair => (Erasing ~> Over)
  BY <1>1, <1>4, <1>5, Invariance, PTL DEF Spec, PromptFair
<1> QED BY <1>6, <1>7, <1>8, PTL DEF DestructorTerminates

(* What the parent waits for in ParentRead and ParentCheck: the child's    *)
(* report or its end, and that it has come to execl.                       *)
Heard == pipe # "empty" \/ EndOfPipe
Settled == stage[new_client.pid] # "told"

(* Once it has come, it stays; and until it has, the child can bring it.   *)
LEMMA ChildAnswers ==
  ASSUME IInv
  PROVE  /\ [Next]_vars /\ prompt = "read" /\ prompt' = "read" /\ Heard
              => Heard'
         /\ [Next]_vars /\ prompt = "check" /\ prompt' = "check" /\ Settled
              => Settled'
         /\ prompt = "read" /\ ~Heard => ChildCan(new_client.pid)
         /\ prompt = "read" /\ <<Child(new_client.pid)>>_vars => Heard'
         /\ prompt = "check" /\ ~Settled => ChildCan(new_client.pid)
         /\ prompt = "check" /\ <<Child(new_client.pid)>>_vars => Settled'
<1> DEFINE p == new_client.pid
<1> USE DEF procs, lock, adding, sweep
<1>1. /\ stage \in [Pids -> Stages]
      /\ prompt \in {"read", "check"} => p \in Pids
      /\ prompt = "check" => pipe # "empty" /\ stage[p] # "setup"
  BY DEF IInv, TypeOK, JoinInv, PipeInv, SetupInv, Adding
<1>2. ASSUME [Next]_vars, prompt \in {"read", "check"}, prompt' = prompt
      PROVE  /\ new_client' = new_client
             /\ pipe # "empty" => pipe' # "empty"
             /\ stage'[p] = "setup" => stage[p] = "setup"
             /\ stage'[p] = "told" => stage[p] \in {"setup", "told"}
  <2>1. CASE Operator
    BY <1>2, <2>1 DEF Operator, HandlePending, DropSpecific, DropEntryFails,
        PopulateJail, Display, DropAll, LockedLoop, Exit, FilesystemError,
        EndProcess
  <2>2. CASE PromptThread
    BY <1>2, <2>2 DEF PromptThread, RefusedReturns, ReturnToMenu, Fork,
        ForkFails, ParentSignal, ParentRead, ParentCheck, Insert, DisplayOne,
        DisplayDrop, DropAllOne, DropEntryFails, DisplayDone, DropCheckSize,
        DropAll, DropAllDone, LockedLoop, EraseJailDir, FilesystemError,
        EndProcess
  <2>3. CASE Sweeper
    BY <1>2, <2>3 DEF Sweeper, SweepLock, SweepOne, SweepUnlock,
        FilesystemError, EndProcess
  <2>4. ASSUME NEW q \in Pids, Child(q) \/ ProcessEnds(q) \/ OtherProcess(q)
        PROVE  /\ new_client' = new_client
               /\ pipe # "empty" => pipe' # "empty"
               /\ stage'[p] = "setup" => stage[p] = "setup"
               /\ stage'[p] = "told" => stage[p] \in {"setup", "told"}
    BY <1>1, <1>2, <2>4 DEF Child, ChildReports, ChildExecs, ProcessEnds,
        OtherProcess, SigKill, AfterDeath
  <2>5. CASE Ended \/ UNCHANGED vars
    BY <2>5 DEF Ended, vars
  <2> QED BY <1>2, <2>1, <2>2, <2>3, <2>4, <2>5 DEF Next
<1>3. [Next]_vars /\ prompt = "read" /\ prompt' = "read" /\ Heard => Heard'
  BY <1>2 DEF Heard, EndOfPipe
<1>4. [Next]_vars /\ prompt = "check" /\ prompt' = "check" /\ Settled
        => Settled'
  BY <1>1, <1>2 DEF Settled
<1>5. /\ prompt = "read" /\ ~Heard => ChildCan(p)
      /\ prompt = "check" /\ ~Settled => ChildCan(p)
  BY DEF Heard, Settled, EndOfPipe, ChildCan, Down
<1>6. prompt = "read" /\ <<Child(p)>>_vars => Heard'
  BY <1>1 DEF Child, ChildReports, ChildExecs, Heard, EndOfPipe
<1>7. prompt = "check" /\ <<Child(p)>>_vars => Settled'
  BY <1>1 DEF Child, ChildReports, ChildExecs, Settled
<1> QED BY <1>3, <1>4, <1>5, <1>6, <1>7

(* What the parent waits for comes, and it goes on.                        *)
LEMMA AnswersCome ==
  ASSUME []IInv, [][Next]_vars, []ChildrenRun,
         [](<>~PromptCan \/ <><<PromptThread>>_vars)
  PROVE  /\ prompt = "read" ~> ~(prompt = "read")
         /\ prompt = "check" ~> ~(prompt = "check")
<1> DEFINE Read  == prompt = "read"
           Check == prompt = "check"
           Is(p) == new_client.pid = p
<1>1. ASSUME NEW p \in Pids
      PROVE  /\ Read /\ Is(p) => <>~Read
             /\ Check /\ Is(p) => <>~Check
  <2>1. <>~ChildCan(p) \/ <><<Child(p)>>_vars
    <3>1. ChildrenRun
      BY PTL
    <3>2. ChildRuns(p)
      BY <3>1 DEF ChildrenRun
    <3> QED BY <3>2 DEF ChildRuns
  <2>2. /\ IInv /\ [Next]_vars /\ Read /\ Is(p) /\ Read' => Is(p)'
        /\ IInv /\ [Next]_vars /\ Check /\ Is(p) /\ Check' => Is(p)'
    BY PromptMoves
  <2>3. /\ IInv /\ [Next]_vars /\ Read /\ Read' /\ Heard => Heard'
        /\ IInv /\ [Next]_vars /\ Check /\ Check' /\ Settled => Settled'
        /\ IInv /\ Read /\ Is(p) /\ ~Heard => ChildCan(p)
        /\ IInv /\ Read /\ Is(p) /\ <<Child(p)>>_vars => Heard'
        /\ IInv /\ Check /\ Is(p) /\ ~Settled => ChildCan(p)
        /\ IInv /\ Check /\ Is(p) /\ <<Child(p)>>_vars => Settled'
    BY ChildAnswers
  <2>4. /\ Read /\ Heard => PromptCan
        /\ Check /\ Settled => PromptCan
    BY DEF PromptCan, Heard, Settled
  <2>5. <<PromptThread>>_vars => (Read => ~Read') /\ (Check => ~Check')
    BY DEF PromptThread, RefusedReturns, Fork, ForkFails, ParentSignal,
        ParentRead, ParentCheck, ReturnToMenu, Insert, DisplayOne,
        DisplayDrop, DropAllOne, DisplayDone, DropCheckSize, DropAllDone,
        EraseJailDir, FilesystemError, EndProcess
  <2>6. Read /\ Is(p) => <>~Read
    BY <2>1, <2>2, <2>3, <2>4, <2>5, PTL
  <2>7. Check /\ Is(p) => <>~Check
    BY <2>1, <2>2, <2>3, <2>4, <2>5, PTL
  <2> QED BY <2>6, <2>7
<1>2. (Read => <>~Read) /\ (Check => <>~Check)
  <2>1. IInv
    BY PTL
  <2>2. Read \/ Check => \E p \in Pids : Is(p)
    BY <2>1 DEF IInv, JoinInv, Adding
  <2>3. \A p \in Pids : Read /\ Is(p) => <>~Read
    BY <1>1
  <2>4. \A p \in Pids : Check /\ Is(p) => <>~Check
    BY <1>1
  <2> HIDE DEF Read, Check, Is
  <2>5. Read => <>~Read
    BY <2>2, <2>3
  <2>6. Check => <>~Check
    BY <2>2, <2>4
  <2> QED BY <2>5, <2>6
<1> QED BY <1>2, PTL

(* From the fork on, adding a client comes to an end whatever the child    *)
(* does, if the threads and the children run and no one keeps the mutex    *)
(* for ever (Server.cpp:258-286).                                          *)
THEOREM AddEnds ==
  Spec /\ MutexReleased
       /\ PromptFair /\ InsertFair /\ DropFair /\ ChildrenFair
    => AddReturns
<1> DEFINE Signal == prompt = "signal"
           Read   == prompt = "read"
           Check  == prompt = "check"
           Ins    == prompt = "insert"
           Dtor   == prompt = "dtor"
           Over   == prompt \in Down
           Back   == prompt \in {"menu"} \cup Down
           Busy   == prompt \in Adding
<1>1. /\ IInv /\ [Next]_vars /\ Signal => Signal' \/ Read' \/ Back'
      /\ IInv /\ [Next]_vars /\ Read => Read' \/ Check' \/ Dtor' \/ Back'
      /\ IInv /\ [Next]_vars /\ Check => Check' \/ Ins' \/ Back'
      /\ IInv /\ [Next]_vars /\ Ins => Ins' \/ Back'
  BY PromptMoves DEF Down
<1>2. <<PromptThread>>_vars => (Signal => Read')
  BY DEF PromptThread, RefusedReturns, Fork, ForkFails, ParentSignal,
      ParentRead, ParentCheck, Insert, DisplayOne, DisplayDrop, DropAllOne,
      DisplayDone, DropCheckSize, DropAllDone, EraseJailDir
<1>3. <<Insert>>_vars => Back'
  BY DEF Insert, ReturnToMenu
<1>4. Signal => PromptCan
  BY DEF PromptCan
<1>5. /\ Busy => Signal \/ Read \/ Check \/ Ins
      /\ Over => Back
  BY DEF Adding
<1>6. Spec /\ PromptFair => (Signal ~> Read \/ Back)
  BY <1>1, <1>2, <1>4, Invariance, PTL DEF Spec, PromptFair
<1>7. Spec /\ PromptFair /\ ChildrenFair =>
        (Read ~> ~Read) /\ (Check ~> ~Check)
  BY AnswersCome, Invariance, PTL DEF Spec, PromptFair, ChildrenFair
<1>8. Spec /\ PromptFair /\ ChildrenFair => (Read ~> Check \/ Dtor \/ Back)
  BY <1>1, <1>7, Invariance, PTL DEF Spec
<1>9. Spec /\ PromptFair /\ ChildrenFair => (Check ~> Ins \/ Back)
  BY <1>1, <1>7, Invariance, PTL DEF Spec
<1>10. Spec /\ MutexReleased /\ InsertFair => (Ins ~> Back)
  BY <1>1, <1>3, Invariance, PTL DEF Spec, MutexReleased, InsertFair
<1>11. Spec /\ MutexReleased /\ PromptFair /\ DropFair => (Dtor ~> Over)
  BY DestructorEnds, PTL DEF DestructorTerminates
<1> QED
  BY <1>5, <1>6, <1>8, <1>9, <1>10, <1>11, PTL DEF AddReturns

(* The process of a registered client has ended, and its jail is there.    *)
Gone(i) == c_map[i] \in Pids /\ stage[c_map[i]] = "free" /\ i \in jails
Cleared(i) ==
  \/ i \notin jails
  \/ prompt \in Down
  \/ c_map[i] \in Pids /\ stage[c_map[i]] # "free"

(* The sweeper still has to look at the entry.                             *)
Awaited(i) == sweeper = "sweep" /\ i \in unswept

(* A client stays gone until its jail is removed or its pid is used again, *)
(* and an entry the sweeper has before it stays there until then.          *)
LEMMA GoneStays ==
  ASSUME IInv, [Next]_vars, NEW i \in Ips, Gone(i)
  PROVE  /\ Gone(i)' \/ Cleared(i)'
         /\ Awaited(i) => Awaited(i)' \/ Cleared(i)'
<1> DEFINE Kept == /\ Gone(i)' \/ Cleared(i)'
                   /\ Awaited(i) => Awaited(i)' \/ Cleared(i)'
<1> USE DEF Gone, Cleared, Awaited, procs, lock, adding, sweep
<1>1. /\ c_map \in [Ips -> Pids \cup {NoPid}]
      /\ stage \in [Pids -> Stages]
      /\ Joining => new_client.ip # i
  BY RegistryAssumption DEF IInv, TypeOK, JoinInv
<1>2. CASE Operator
  BY <1>1, <1>2 DEF Operator, HandlePending, DropSpecific, DropEntry,
      DropEntryFails, SigKill, Erase, PopulateJail, Display, DropAll,
      LockedLoop, Exit, FilesystemError, EndProcess, Down
<1>3. ASSUME NEW p \in Pids, Fork(p) PROVE Kept
  BY <1>1, <1>3, RegistryAssumption DEF Fork
<1>4. CASE ParentCheck \/ Insert
  BY <1>1, <1>4 DEF ParentCheck, Insert, ReturnToMenu, FilesystemError,
      EndProcess, Joining, Adding, Down
<1>5. ASSUME NEW j \in Ips,
            DisplayOne(j) \/ DisplayDrop(j) \/ DropAllOne(j)
      PROVE Kept
  BY <1>1, <1>5 DEF DisplayOne, DisplayDrop, DropAllOne, DropEntry,
      DropEntryFails, SigKill, Erase, FilesystemError, EndProcess, Down
<1>6. CASE PromptThread
  BY <1>1, <1>3, <1>4, <1>5, <1>6 DEF PromptThread, RefusedReturns,
      ReturnToMenu, ForkFails, ParentSignal, ParentRead, DisplayDone,
      DropCheckSize, DropAll, DropAllDone, LockedLoop, EraseJailDir,
      FilesystemError, EndProcess, Down
<1>7. CASE Sweeper
  BY <1>1, <1>7 DEF Sweeper, SweepLock, SweepOne, SweepUnlock, Exists,
      FilesystemError, EndProcess, Down
<1>8. CASE \E p \in Pids : Child(p) \/ ProcessEnds(p) \/ OtherProcess(p)
  BY <1>1, <1>8 DEF Child, ChildReports, ChildExecs, ProcessEnds,
      OtherProcess, SigKill
<1>9. CASE Ended \/ UNCHANGED vars
  BY <1>9 DEF Ended, vars
<1> QED BY <1>2, <1>6, <1>7, <1>8, <1>9 DEF Next

(* The sweeper removes the jail of every client that has gone, whatever    *)
(* the operator does meanwhile, unless its pid is given to another         *)
(* process, if the sweeper gets its turn and no one keeps the mutex for    *)
(* ever (Server.cpp:400-413).                                              *)
THEOREM GoneSwept ==
  Spec /\ MutexReleased /\ SweepFair => GoneClientsAreSwept
<1>1. ASSUME NEW i \in Ips
      PROVE  Spec /\ MutexReleased /\ SweepFair => (Gone(i) ~> Cleared(i))
  <2>1. IInv /\ [Next]_vars /\ Gone(i) =>
          /\ Gone(i)' \/ Cleared(i)'
          /\ Awaited(i) => Awaited(i)' \/ Cleared(i)'
    BY <1>1, GoneStays
  <2>2. IInv /\ Gone(i) /\ <<SweepLock>>_vars => Awaited(i)'
    BY <1>1, RegistryAssumption DEF Gone, Awaited, SweepLock, Registered
  <2>3. IInv /\ mutex = "none" => sweeper = "sleep" /\ ~Awaited(i)
    BY DEF IInv, TypeOK, LockInv, Awaited
  <2>4. prompt \in Down => Cleared(i)
    BY DEF Cleared
  <2> QED
    BY <2>1, <2>2, <2>3, <2>4, Invariance, PTL
       DEF Spec, MutexReleased, SweepFair
<1> QED BY <1>1 DEF GoneClientsAreSwept, Gone, Cleared

(* The display has an entry before it whose process has ended.             *)
Displaying == prompt \in {"display", "dropdisplay"}
ToForget(i) ==
  Displaying /\ i \in todo
    /\ c_map[i] \in Pids /\ stage[c_map[i]] = "free"

(* The entry is forgotten, or its pid is somebody else's.                  *)
ForgottenOrReused(i) == c_map[i] = NoPid \/ stage[c_map[i]] # "free"

(* Until then such an entry stays before it.                               *)
LEMMA ToForgetStays ==
  ASSUME IInv, [Next]_vars, NEW i \in Ips, ToForget(i)
  PROVE  ToForget(i)' \/ ForgottenOrReused(i)'
<1> DEFINE Kept == ToForget(i)' \/ ForgottenOrReused(i)'
<1> USE DEF ForgottenOrReused
<1> USE DEF ToForget, Displaying, procs, lock, adding, sweep
<1>1. /\ c_map \in [Ips -> Pids \cup {NoPid}]
      /\ stage \in [Pids -> Stages]
      /\ mutex = "prompt"
  BY DEF IInv, TypeOK, LockInv, Looping
<1>2. CASE Operator
  BY <1>1, <1>2 DEF Operator, HandlePending, DropSpecific, PopulateJail,
      Display, DropAll, Exit
<1>3. ASSUME NEW j \in Ips, DisplayOne(j) \/ DisplayDrop(j) PROVE Kept
  <2>1. c_map[j] \in Pids \cup {NoPid}
    BY <1>1
  <2> QED
    BY <1>1, <1>3, <2>1 DEF DisplayOne, DisplayDrop, DropEntry,
       DropEntryFails, SigKill, Erase, Exists, FilesystemError, EndProcess
<1>4. CASE PromptThread
  BY <1>1, <1>3, <1>4 DEF PromptThread, RefusedReturns, Fork, ForkFails,
      ParentSignal, ParentRead, ParentCheck, Insert, DropAllOne, DisplayDone,
      DropCheckSize, DropAll, DropAllDone, EraseJailDir
<1>5. CASE Sweeper
  BY <1>1, <1>5 DEF Sweeper, SweepLock, SweepOne, SweepUnlock, IInv, LockInv
<1>6. CASE \E p \in Pids : Child(p) \/ ProcessEnds(p) \/ OtherProcess(p)
  BY <1>1, <1>6 DEF Child, ChildReports, ChildExecs, ProcessEnds,
      OtherProcess, SigKill
<1>7. CASE Ended \/ UNCHANGED vars
  BY <1>7 DEF Ended, vars
<1> QED BY <1>2, <1>4, <1>5, <1>6, <1>7 DEF Next

(* A display that lets go of the mutex has forgotten every client that had *)
(* gone before it was visited, but those whose pid was given to another    *)
(* process before the display came to them (Server.cpp:68-90).             *)
THEOREM GoneForgotten == Spec /\ MutexReleased => GoneClientsAreForgotten
<1>1. ASSUME NEW i \in Ips
      PROVE  Spec /\ MutexReleased => (ToForget(i) ~> ForgottenOrReused(i))
  <2>1. IInv /\ [Next]_vars /\ ToForget(i)
          => ToForget(i)' \/ ForgottenOrReused(i)'
    BY <1>1, ToForgetStays
  <2>2. IInv /\ mutex = "none" => ~ToForget(i)
    BY DEF IInv, LockInv, Looping, ToForget, Displaying
  <2> QED
    BY <2>1, <2>2, Invariance, PTL DEF Spec, MutexReleased
<1> QED
  BY <1>1 DEF GoneClientsAreForgotten, ToForget, Displaying, ForgottenOrReused

=============================================================================
