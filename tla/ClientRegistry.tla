--------------------------- MODULE ClientRegistry ---------------------------
(***************************************************************************)
(* The registry of jailed clients of remramd_server: the map c_map from a  *)
(* client's IP address to the process forked for it, the directory of the  *)
(* RAM disk that holds one jail per address, and the two threads that work *)
(* on them under clients_map_mut: the prompt thread (Server::run and every *)
(* operation of its menu that concerns clients, and the destructor) and    *)
(* the jail sweeper.  The forked children and the kernel's process table   *)
(* are part of the model, because the registry knows a client only by the  *)
(* pid it once had.                                                        *)
(*                                                                         *)
(* A section of the prompt thread that holds the mutex and makes a single  *)
(* pass is one action guarded by the mutex being free; the sections that   *)
(* loop over the map hold the mutex over several steps.                    *)
(***************************************************************************)

CONSTANTS
  Ips,          \* addresses of clients: the keys of c_map, the names of jails
  Pids,         \* process identifiers the kernel may hand out
  NoIp, NoPid   \* no client, no process

ASSUME RegistryAssumption ==
  /\ NoIp \notin Ips
  /\ NoPid \notin Pids

VARIABLES
  c_map,        \* Server::c_map: the pid registered for an address, or NoPid
  jails,        \* the directories that exist under jail_path
  stage,        \* the process table: what runs under a pid
  owner,        \* the address the latest child under a pid was forked for
  sigchld,      \* the server's disposition of SIGCHLD
  mutex,        \* the thread that holds clients_map_mut
  prompt,       \* where the prompt thread is
  new_client,   \* its client being added: address and pid of the child
  pipe,         \* what that child has written to the pipe
  todo,         \* the entries its loop over c_map still has to visit
  dead,         \* the entry of these that a display has just found gone
  sweeper,      \* where the jail sweeper is
  unswept       \* the entries its loop over c_map still has to visit

procs  == <<stage, owner, sigchld>>
lock   == <<mutex, todo, dead>>
adding == <<new_client, pipe>>
sweep  == <<sweeper, unswept>>
vars == <<c_map, jails, prompt, procs, lock, adding, sweep>>

-----------------------------------------------------------------------------

(* A child sets up its jail and connects ("setup"), reports through the    *)
(* pipe ("told"), and becomes the client's shell; if execl returns it is   *)
(* back in the server's menu loop ("menu").  A child that cannot connect   *)
(* reports that and exits ("failed").                                      *)
Live == {"setup", "told", "shell", "menu"}
Stages == Live \cup {"failed", "zombie", "free", "other"}

Reports == {"empty", "CHILD_FAILED", "CHILD_SUCCESS"}

(* The prompt thread between the fork and the end of add_new_client.       *)
Adding == {"signal", "read", "check", "insert"}

(* The loops in which the prompt thread holds the mutex.                   *)
Looping == {"display", "dropdisplay", "dropall", "dtordrop"}

Down == {"exited", "aborted"}

PromptStates ==
  Adding \cup Looping \cup Down \cup
  {"menu", "refused", "populate", "fork", "size", "pick", "dtor", "erase"}

NoClient == [ip |-> NoIp, pid |-> NoPid]

Registered == {i \in Ips : c_map[i] # NoPid}

ExistsInverted(p) == stage[p] = "free"

(* kill(pid, 0) == 0: some process has this pid, a zombie included.        *)
Exists(p) == stage[p] # "free"

(* A child that dies stays a zombie until SIGCHLD is ignored before it     *)
(* dies; a process of somebody else is reaped by its own parent.           *)
AfterDeath(p) ==
  IF stage[p] = "other" \/ sigchld = "ignore" \/ prompt \in Down
    THEN "free" ELSE "zombie"

SigKillProbes(p) == stage

(* kill(pid, SIGKILL): whatever runs under the pid dies.                   *)
SigKill(p) ==
  [stage EXCEPT ![p] = IF @ \in {"free", "zombie"} THEN @ ELSE AfterDeath(p)]

Init ==
  /\ c_map = [i \in Ips |-> NoPid]
  /\ jails = {}
  /\ stage = [p \in Pids |-> "free"]
  /\ owner = [p \in Pids |-> NoIp]
  /\ sigchld = "default"
  /\ mutex = "none"
  /\ prompt = "menu"
  /\ new_client = NoClient
  /\ pipe = "empty"
  /\ todo = {}
  /\ dead = NoIp
  /\ sweeper = "sleep"
  /\ unswept = {}

(* The server process ends, and its threads and memory with it; its        *)
(* children and the directories do not.                                    *)
EndProcess(how) ==
  /\ prompt' = how
  /\ c_map' = [i \in Ips |-> NoPid]
  /\ mutex' = "none"
  /\ new_client' = NoClient
  /\ pipe' = "empty"
  /\ todo' = {}
  /\ dead' = NoIp
  /\ sweeper' = "sleep"
  /\ unswept' = {}
  /\ UNCHANGED <<owner, sigchld>>

(* A filesystem_error is no remramd::exception: nothing catches it, so it  *)
(* ends the process without running ~Server.                               *)
FilesystemError == EndProcess("aborted") /\ UNCHANGED jails

-----------------------------------------------------------------------------
(* Accepting the pending connection at the head of the queue: its address  *)
(* may be any.                                                             *)

HandlePendingUnchecked(i) ==
  /\ prompt = "menu"
  /\ mutex = "none"
  /\ new_client' = [ip |-> i, pid |-> NoPid]
  /\ prompt' = "populate"
  /\ UNCHANGED <<c_map, jails, pipe, procs, lock, sweep>>

(* handle_pending_connection(true), up to the end of its locked section.   *)
HandlePending(i) ==
  /\ prompt = "menu"
  /\ mutex = "none"
  /\ new_client' = [ip |-> i, pid |-> NoPid]
  /\ prompt' = IF c_map[i] # NoPid THEN "refused" ELSE "populate"
  /\ UNCHANGED <<c_map, jails, pipe, procs, lock, sweep>>

ReturnToMenu ==
  /\ prompt' = "menu"
  /\ new_client' = NoClient
  /\ pipe' = "empty"

RefusedReturns ==
  /\ prompt = "refused"
  /\ ReturnToMenu
  /\ UNCHANGED <<c_map, jails, procs, lock, sweep>>

(* From the answer to the client to the jail.  An answer that cannot be    *)
(* written, a pipe that cannot be opened or a binary that ldd cannot read  *)
(* throws a remramd::exception, which unwinds to main and so runs ~Server; *)
(* a directory that cannot be made or a copy that fails aborts.  Either    *)
(* may come before the jail's directory is made or after.                  *)
PopulateJail ==
  /\ prompt = "populate"
  /\ jails' \in {jails, jails \cup {new_client.ip}}
  /\ UNCHANGED stage
  /\ \/ /\ prompt' \in {"fork", "dtor"}
        /\ prompt' = "fork" => new_client.ip \in jails'
        /\ UNCHANGED <<c_map, owner, sigchld, lock, adding, sweep>>
     \/ EndProcess("aborted")

Fork(p) ==
  /\ prompt = "fork"
  /\ stage[p] = "free"
  /\ stage' = [stage EXCEPT ![p] = "setup"]
  /\ owner' = [owner EXCEPT ![p] = new_client.ip]
  /\ new_client' = [new_client EXCEPT !.pid = p]
  /\ prompt' = "signal"
  /\ UNCHANGED <<c_map, jails, sigchld, pipe, lock, sweep>>

ForkFails ==
  /\ prompt = "fork"
  /\ prompt' = "dtor"
  /\ UNCHANGED <<c_map, jails, procs, lock, adding, sweep>>

(* std::signal(SIGCHLD, SIG_IGN) in the parent, after the fork.            *)
ParentSignal ==
  /\ prompt = "signal"
  /\ sigchld' = "ignore"
  /\ prompt' = "read"
  /\ UNCHANGED <<c_map, jails, stage, owner, lock, adding, sweep>>

EndOfPipeNever == FALSE

(* pipe.read blocks until the child has reported or, the parent's own      *)
(* write end being closed, until the child is gone: the latter throws.     *)
EndOfPipe == pipe = "empty" /\ stage[new_client.pid] # "setup"

ParentRead ==
  /\ prompt = "read"
  /\ \/ pipe # "empty" /\ prompt' = "check"
     \/ EndOfPipe /\ prompt' = "dtor"
  /\ UNCHANGED <<c_map, jails, procs, lock, adding, sweep>>

(* The 1.5 s sleep and the check after it.  Time is not modelled: the      *)
(* sleep is taken to outlast the child's way from the pipe to execl.       *)
ParentCheck ==
  /\ prompt = "check"
  /\ stage[new_client.pid] # "told"
  /\ UNCHANGED stage
  /\ IF Exists(new_client.pid) /\ pipe = "CHILD_SUCCESS"
       THEN /\ prompt' = "insert"
            /\ UNCHANGED <<c_map, jails, owner, sigchld, lock, adding, sweep>>
       ELSE \/ /\ jails' = jails \ {new_client.ip}
               /\ ReturnToMenu
               /\ UNCHANGED <<c_map, owner, sigchld, lock, sweep>>
            \/ FilesystemError

InsertUnlocked ==
  /\ prompt = "insert"
  /\ c_map' = [c_map EXCEPT ![new_client.ip] = new_client.pid]
  /\ ReturnToMenu
  /\ UNCHANGED <<jails, procs, lock, sweep>>

Insert ==
  /\ prompt = "insert"
  /\ mutex = "none"
  /\ c_map' = [c_map EXCEPT ![new_client.ip] = new_client.pid]
  /\ ReturnToMenu
  /\ UNCHANGED <<jails, procs, lock, sweep>>

-----------------------------------------------------------------------------
(* The child, and the processes of the rest of the machine.                *)

ChildReports(p) ==
  /\ stage[p] = "setup"
  /\ prompt \notin Down          \* else the write is answered with SIGPIPE
  /\ \/ pipe' = "CHILD_SUCCESS" /\ stage' = [stage EXCEPT ![p] = "told"]
     \/ pipe' = "CHILD_FAILED" /\ stage' = [stage EXCEPT ![p] = "failed"]
  /\ UNCHANGED <<c_map, jails, owner, sigchld, prompt, new_client, lock, sweep>>

(* execl replaces the child by bash, or returns: then the child leaves     *)
(* add_new_client and goes on in Server::run.                              *)
ChildExecs(p) ==
  /\ stage[p] = "told"
  /\ \E next \in {"shell", "menu"} : stage' = [stage EXCEPT ![p] = next]
  /\ UNCHANGED <<c_map, jails, owner, sigchld, prompt, lock, adding, sweep>>

(* A child exits or is killed by somebody else; a process of somebody else *)
(* ends.                                                                   *)
ProcessEnds(p) ==
  /\ stage[p] \notin {"free", "zombie"}
  /\ stage' = SigKill(p)
  /\ UNCHANGED <<c_map, jails, owner, sigchld, prompt, lock, adding, sweep>>

(* The kernel hands out the pid of a process that has gone again, to a     *)
(* child (Fork) or to anybody.                                             *)
OtherProcess(p) ==
  /\ stage[p] = "free"
  /\ stage' = [stage EXCEPT ![p] = "other"]
  /\ owner' = [owner EXCEPT ![p] = NoIp]
  /\ UNCHANGED <<c_map, jails, sigchld, prompt, lock, adding, sweep>>

-----------------------------------------------------------------------------
(* display_current_clients: operator<< visits the entries under the mutex, *)
(* and drops those whose process is gone: by the time it kills, the pid it *)
(* has found free may be somebody's.  drop_specific_client begins with the *)
(* same loop ("dropdisplay").                                              *)

LockedLoopOverPids(loop) ==
  /\ mutex = "none"
  /\ mutex' = "prompt"
  /\ prompt' = loop
  /\ todo' = {c_map[i] : i \in Registered}
  /\ UNCHANGED dead

LockedLoop(loop) ==
  /\ mutex = "none"
  /\ mutex' = "prompt"
  /\ prompt' = loop
  /\ todo' = Registered
  /\ UNCHANGED dead

Display ==
  /\ prompt = "menu"
  /\ \E loop \in {"display", "dropdisplay"} : LockedLoop(loop)
  /\ UNCHANGED <<c_map, jails, procs, adding, sweep>>

Erase(i) ==
  /\ jails' = jails \ {i}
  /\ c_map' = [c_map EXCEPT ![i] = NoPid]

DropEntryOfNext(i) ==
  /\ \E j \in Registered : stage' = SigKill(c_map[j])
  /\ Erase(i)
  /\ UNCHANGED <<owner, sigchld>>

(* kill, remove_all and erase for one entry, as operator<<,                *)
(* drop_specific_client and drop_all_clients do it.                        *)
DropEntry(i) ==
  /\ stage' = SigKill(c_map[i])
  /\ Erase(i)
  /\ UNCHANGED <<owner, sigchld>>

DropEntryFails(i) == stage' = SigKill(c_map[i]) /\ FilesystemError

DisplayOne(i) ==
  /\ prompt \in {"display", "dropdisplay"}
  /\ dead = NoIp
  /\ i \in todo
  /\ IF Exists(c_map[i])
       THEN todo' = todo \ {i} /\ UNCHANGED dead
       ELSE dead' = i /\ UNCHANGED todo
  /\ UNCHANGED <<c_map, jails, prompt, procs, mutex, adding, sweep>>

DisplayDropSkips(i) ==
  /\ prompt \in {"display", "dropdisplay"}
  /\ dead = i
  /\ DropEntry(i)
  /\ \E j \in todo : todo' = todo \ {i, j}
  /\ dead' = NoIp
  /\ UNCHANGED <<prompt, mutex, adding, sweep>>

DisplayDrop(i) ==
  /\ prompt \in {"display", "dropdisplay"}
  /\ dead = i
  /\ \/ /\ DropEntry(i)
        /\ todo' = todo \ {i}
        /\ dead' = NoIp
        /\ UNCHANGED <<prompt, mutex, adding, sweep>>
     \/ DropEntryFails(i)

DisplayDone ==
  /\ prompt \in {"display", "dropdisplay"}
  /\ todo = {}          \* and so dead = NoIp
  /\ mutex' = "none"
  /\ prompt' = IF prompt = "display" THEN "menu" ELSE "size"
  /\ UNCHANGED <<c_map, jails, procs, todo, dead, adding, sweep>>

-----------------------------------------------------------------------------
(* drop_specific_client after the display: it looks at the size of the map *)
(* under the mutex, lets go of it while the operator types an address, and *)
(* takes it again to find the entry.                                       *)

DropCheckSize ==
  /\ prompt = "size"
  /\ mutex = "none"
  /\ prompt' = IF Registered = {} THEN "menu" ELSE "pick"
  /\ UNCHANGED <<c_map, jails, procs, lock, adding, sweep>>

DropSpecific(i) ==
  /\ prompt = "pick"
  /\ mutex = "none"
  /\ \/ /\ i \in Registered
        /\ DropEntry(i)
        /\ prompt' = "menu"
        /\ UNCHANGED <<lock, adding, sweep>>
     \/ i \in Registered /\ DropEntryFails(i)
     \/ /\ i \notin Registered
        /\ prompt' = "menu"
        /\ UNCHANGED <<c_map, jails, procs, lock, adding, sweep>>

-----------------------------------------------------------------------------
(* drop_all_clients, from the menu or from ~Server, and the rest of the    *)
(* destructor.                                                             *)

DropAll ==
  /\ \/ prompt = "menu" /\ LockedLoop("dropall")
     \/ prompt = "dtor" /\ LockedLoop("dtordrop")
  /\ UNCHANGED <<c_map, jails, procs, adding, sweep>>

DropAllOne(i) ==
  /\ prompt \in {"dropall", "dtordrop"}
  /\ i \in todo
  /\ \/ /\ DropEntry(i)
        /\ todo' = todo \ {i}
        /\ UNCHANGED <<prompt, mutex, dead, adding, sweep>>
     \/ DropEntryFails(i)

DropAllDoneLocked ==
  /\ prompt \in {"dropall", "dtordrop"}
  /\ todo = {}
  /\ prompt' = IF prompt = "dropall" THEN "menu" ELSE "erase"
  /\ UNCHANGED <<c_map, jails, procs, lock, adding, sweep>>

DropAllDone ==
  /\ prompt \in {"dropall", "dtordrop"}
  /\ todo = {}
  /\ mutex' = "none"
  /\ prompt' = IF prompt = "dropall" THEN "menu" ELSE "erase"
  /\ UNCHANGED <<c_map, jails, procs, todo, dead, adding, sweep>>

(* The EXIT choice ends the loop of run, and main destroys the server.     *)
Exit ==
  /\ prompt = "menu"
  /\ prompt' = "dtor"
  /\ UNCHANGED <<c_map, jails, procs, lock, adding, sweep>>

(* erase_jail_dir, and the return from main.  It takes no mutex.           *)
EraseJailDir ==
  /\ prompt = "erase"
  /\ UNCHANGED stage
  /\ \/ jails' = {} /\ EndProcess("exited")
     \/ FilesystemError

-----------------------------------------------------------------------------
(* The jail sweeper, every 30 seconds as long as the process runs.         *)

SweepLock ==
  /\ sweeper = "sleep"
  /\ prompt \notin Down
  /\ mutex = "none"
  /\ mutex' = "sweeper"
  /\ sweeper' = "sweep"
  /\ unswept' = Registered
  /\ UNCHANGED <<c_map, jails, prompt, procs, todo, dead, adding>>

SweepOne(i) ==
  /\ sweeper = "sweep"
  /\ i \in unswept
  /\ \/ /\ jails' = IF Exists(c_map[i]) THEN jails ELSE jails \ {i}
        /\ unswept' = unswept \ {i}
        /\ UNCHANGED <<c_map, prompt, procs, lock, adding, sweeper>>
     \/ ~Exists(c_map[i]) /\ UNCHANGED stage /\ FilesystemError

SweepUnlockForgotten ==
  /\ sweeper = "sweep"
  /\ unswept = {}
  /\ sweeper' = "sleep"
  /\ UNCHANGED <<c_map, jails, prompt, procs, lock, adding, unswept>>

SweepUnlock ==
  /\ sweeper = "sweep"
  /\ unswept = {}
  /\ mutex' = "none"
  /\ sweeper' = "sleep"
  /\ UNCHANGED <<c_map, jails, prompt, procs, todo, dead, adding, unswept>>

-----------------------------------------------------------------------------

(* After the server has ended nothing need happen any more.                *)
Ended == prompt \in Down /\ UNCHANGED vars

(* What the operator decides to do.                                        *)
Operator ==
  \/ \E i \in Ips : HandlePending(i) \/ DropSpecific(i)
  \/ PopulateJail
  \/ Display
  \/ prompt = "menu" /\ DropAll
  \/ Exit

(* What the prompt thread does once it has been told.                      *)
PromptThread ==
  \/ RefusedReturns
  \/ \E p \in Pids : Fork(p)
  \/ ForkFails \/ ParentSignal \/ ParentRead \/ ParentCheck \/ Insert
  \/ \E i \in Ips : DisplayOne(i) \/ DisplayDrop(i) \/ DropAllOne(i)
  \/ DisplayDone \/ DropCheckSize
  \/ prompt = "dtor" /\ DropAll
  \/ DropAllDone \/ EraseJailDir

Child(p) == ChildReports(p) \/ ChildExecs(p)

Sweeper == SweepLock \/ SweepUnlock \/ \E i \in Ips : SweepOne(i)

Next ==
  \/ Operator \/ PromptThread \/ Sweeper
  \/ \E p \in Pids : Child(p) \/ ProcessEnds(p) \/ OtherProcess(p)
  \/ Ended

Spec == Init /\ [][Next]_vars

(* Threads and children run; the operator need not do anything.  A thread  *)
(* that waits for the mutex gets it, although the other takes it again and *)
(* again: the sweeper sleeps for 30 seconds between two sweeps, and the    *)
(* prompt thread waits for the operator without the mutex.                 *)
Fairness ==
  /\ WF_vars(PromptThread)
  /\ SF_vars(Insert) /\ SF_vars(DropCheckSize)
  /\ SF_vars(prompt = "dtor" /\ DropAll)
  /\ WF_vars(Sweeper) /\ SF_vars(SweepLock)
  /\ \A p \in Pids : WF_vars(Child(p))

FairSpec == Spec /\ Fairness

-----------------------------------------------------------------------------

(* The addresses whose client's process runs.                              *)
alive == {owner[p] : p \in {q \in Pids : stage[q] \in Live}}

(* Every variable has its type.                                            *)
TypeOK ==
  /\ c_map \in [Ips -> Pids \cup {NoPid}]
  /\ jails \in SUBSET Ips
  /\ stage \in [Pids -> Stages]
  /\ owner \in [Pids -> Ips \cup {NoIp}]
  /\ sigchld \in {"default", "ignore"}
  /\ mutex \in {"none", "prompt", "sweeper"}
  /\ prompt \in PromptStates
  /\ new_client \in [ip : Ips \cup {NoIp}, pid : Pids \cup {NoPid}]
  /\ pipe \in Reports
  /\ todo \in SUBSET Ips
  /\ dead \in Ips \cup {NoIp}
  /\ sweeper \in {"sleep", "sweep"}
  /\ unswept \in SUBSET Ips

(* No code path takes away the jail of a client whose process runs: not    *)
(* the sweeper, not the display, not the clean-up of a failed join, not    *)
(* the destructor, and whatever becomes of the pids (Server.cpp:85, 283,   *)
(* 347, 371, 410, 98).                                                     *)
LiveClientHasJail ==
  \A p \in Pids : stage[p] \in Live => owner[p] \in jails

(* As long as the server has not crashed, a child that lives is in the map *)
(* under its own address or is the one being added: the operator can drop  *)
(* every client there is, and no entry replaces that of a running client   *)
(* (Server.cpp:276-280, 301).                                              *)
NoOrphan ==
  prompt # "aborted" =>
    \A p \in Pids : stage[p] \in Live =>
      \/ c_map[owner[p]] = p
      \/ prompt \in Adding /\ new_client = [ip |-> owner[p], pid |-> p]

(* A server that ends by EXIT or by a remramd::exception, at any point of  *)
(* adding a client, leaves no jail and no client behind (Server.cpp:48).   *)
ExitLeavesNothing ==
  prompt = "exited" => jails = {} /\ \A p \in Pids : stage[p] \notin Live

(* Nobody changes the map while the sweeper iterates over it, which would  *)
(* invalidate its iterator (Server.cpp:405-412, 341-348).                  *)
MapStableWhileSwept ==
  [][sweeper = "sweep" /\ prompt' # "aborted" => c_map' = c_map]_vars

(* Server.cpp:331, "drops specific jailed client": a step that removes an  *)
(* entry ends no process but the one forked for the address of that entry  *)
(* (Server.cpp:84, 346, 370).                                              *)
KillsOnlyTheDropped ==
  [][c_map' # c_map =>
       \A p \in Pids : stage'[p] # stage[p] =>
         /\ owner[p] \in Ips
         /\ c_map[owner[p]] = p
         /\ c_map'[owner[p]] = NoPid]_vars

(* Whatever becomes of the pids, to drop a client that lives ends its      *)
(* process and nobody else's: an entry may name a stranger only once its   *)
(* client has gone (Server.cpp:84, 280, 346, 370).                         *)
LiveClientsDropAlone ==
  [][prompt' # "aborted" =>
       \A i \in Ips \cap alive : c_map[i] # NoPid /\ c_map'[i] = NoPid =>
         \A p \in Pids :
           stage'[p] # stage[p] <=> stage[p] \in Live /\ owner[p] = i]_vars

(* Server.cpp:273-275, "sleep for 1.5 seconds to be sure that execve       *)
(* actually has been successful; check if process is alive (will fail if   *)
(* execve in child process failed)": what passes the check runs the shell. *)
CheckedChildRunsShell ==
  [][prompt' = "insert" /\ prompt # "insert" =>
       stage[new_client.pid] = "shell"]_vars

(* Neither thread keeps clients_map_mut for ever: each lets go of it after *)
(* one pass over the map, whatever happens meanwhile, and never waits for  *)
(* the operator or a child with it (Server.cpp:215-216, 292-307, 356-379,  *)
(* 402-413).                                                               *)
MutexReleased == []<>(mutex = "none")

(* Server.cpp:400, the sweeper removes the jail of every client that has   *)
(* gone, whatever the operator does meanwhile, unless the server ends or   *)
(* the client's pid is somebody else's by then.                            *)
GoneClientsAreSwept ==
  \A i \in Ips :
    c_map[i] \in Pids /\ stage[c_map[i]] = "free" /\ i \in jails
      ~> \/ i \notin jails
         \/ prompt \in Down
         \/ c_map[i] \in Pids /\ stage[c_map[i]] # "free"

(* A display that has a client before it that has gone forgets it, unless  *)
(* its pid is somebody else's by then; but for a drop, nothing else lets   *)
(* its address in again (Server.cpp:68-90, 301).                           *)
GoneClientsAreForgotten ==
  \A i \in Ips :
    prompt \in {"display", "dropdisplay"} /\ i \in todo
      /\ c_map[i] \in Pids /\ stage[c_map[i]] = "free"
        ~> c_map[i] = NoPid \/ stage[c_map[i]] # "free"

(* From the fork on, adding a client comes to an end whatever the child    *)
(* does: the parent is not left waiting on the pipe (Server.cpp:258-286).  *)
AddReturns ==
  prompt \in Adding ~> prompt \in {"menu"} \cup Down

(* The destructor gets the mutex and finishes (Server.cpp:48-51).          *)
DestructorTerminates == prompt = "dtor" ~> prompt \in Down

-----------------------------------------------------------------------------

(* An address is joining from the check of the map until its child has     *)
(* been registered or given up.                                            *)
Joining == prompt \in {"populate", "fork"} \cup Adding

session ==
  [i \in Ips |-> IF Joining /\ new_client.ip = i THEN "joining"
                 ELSE IF c_map[i] # NoPid THEN "connected"
                 ELSE "none"]

server ==
  CASE prompt = "exited"  -> "closed"
    [] prompt = "aborted" -> "crashed"
    [] OTHER              -> "up"

Sessions == INSTANCE JailSessions

(* The registry keeps the promises of JailSessions, although the map is    *)
(* not locked between the check of an address and its insertion, although  *)
(* processes die at any time and although pids may be reused               *)
(* (Server.cpp:299-307, 279-280).                                          *)
ImplementsSessions == Sessions!Spec

=============================================================================
