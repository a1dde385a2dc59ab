# A verification of remramd

TLA+ modules that model remramd, the TLC runs that check them on small
instances, and theorems about them that TLAPS proves for every instance. Line
numbers refer to the repository's source; `Server.cpp` stands for
`server/src/Server.cpp`, and so on.

Contents

1. The system: inventory of its parts, and what makes them hard
2. The modules, and how they correspond to the code
3. The runs: what each asks, what it shows, its bounds
4. Fairness
5. What is proved, and how
6. Where the code and what is said of it disagree
7. What is not modelled


## 1. The system

A server, run as root, gives clients a shell in a chroot jail below a directory
that is meant to be mounted on a RAM disk. The operator decides at a prompt who
is let in.

| part | state it keeps | operations | interacts with |
| --- | --- | --- | --- |
| client registry (`Server.cpp`) | `c_map`: address to pid, uid, gid, jail path; `clients_map_mut`; the directories below `jail_path` | display, accept, drop one, drop all, exit; the sweeper's pass every 30 s; the destructor | children through `fork`, `kill`, the pipe; the sweeper through the mutex |
| pending connections (`Server.cpp`, `Protocol.cpp`) | the listen backlog; `conn_q`; `pend_conn_q_mut`; the descriptor table | accept and receive (a thread of its own); show, accept, decline, decline all (the prompt) | clients through sockets; the registry through an accepted connection |
| pipe (`PipeWrapper`) | two descriptors, `fd_ctx_bitmap` | open, close one end, read, write, destroy (closes both ends) | parent and child; shares the descriptor table with the connections |
| jailing of the child (`Connection.cpp`, `enjail_new_client`) | the child's descriptors, root and credentials | chown, chroot, drop privileges, connect back, report, exec | the client's netcat; the parent through the pipe |
| population of a jail (`Utils.cpp`) | the directory of one address | make the directory, copy binaries and the shared objects `ldd` names | the registry, by what it throws |
| client (`Client.cpp`, `Protocol::request_connection`) | its socket, then its netcat | connect, send a port, read the answer, become netcat | the receiving thread; the child that connects back |
| servers, one after or beside the other | the port, the jail path | start, bind, crash, exit, start again | each other, through the port, the jail path and the children a crash leaves |
| timeouts (`Protocol::validate_timeout`) | none | seconds to milliseconds, with a limit | the two `poll` calls |
| RAM disk driver (`ramd.c`) | the buffer, the disk, the request queue, the count of openers | load, unload, open, release, serve a request | the kernel's block layer |
| command line, menu, exception class | none | parsing, text | all of the above |

The server has three threads: the prompt (`Server::run`), the receiver
(`connection_receiver_worker`, line 112) and the sweeper (line 401). The last two
are detached and end with the process. Two mutexes, locked and unlocked partly
by hand, guard the map and the queue; the jail directories, the descriptor table
and the process table are shared without any lock.

What is hard, and what has to be true for each part:

* **Registry.** A client is known only by the pid its process once had, and by a
  directory; processes die at any moment; the map is unlocked between the check
  of an address (line 301) and the insertion (line 280), for as long as the
  operator types and the child starts. It is correct if no path takes the jail
  of a client that runs, if every client that runs can be found and dropped, if
  an exit leaves nothing behind, and if the map does not change under an
  iterator. It should also kill nobody else, and get rid of what has gone.
* **Connections.** A queued connection is a number in the descriptor table. Both
  threads open and close descriptors; a forked child keeps copies. It is
  correct if the number still stands for the same connection when it is used, if
  what is no longer used is closed, and if each client learns what was decided
  about it and nothing else.
* **Pipe and child.** The parent waits without a limit for a report. It is
  correct if the wait always ends and the report means what the parent takes it
  to mean.
* **Restarts.** A server keeps nothing on disk but the jails, and reads nothing of
  those it finds. It is correct if, whatever crashed before, it knows every
  client that runs below its jail path, lets no two of an address run, and takes
  the jail of no client that goes on running.
* **Driver.** Loading can fail at each of its steps, unloading can meet openers
  and requests, several requests are served at a time. It is correct if every
  object is freed once, after its last use, if a request moves its own cells and
  no others, and if `insmod`, `rmmod` and every request come to their end.
* **Timeouts.** An int of seconds becomes an int of milliseconds. It is correct if
  the wait is the one asked for, and no overflow makes it a wait for ever.

`PROJECT.json` lists the hazards one by one, each at its line, with the
properties that cover it or the reason why none does.


## 2. The modules

| module | what it is |
| --- | --- |
| `JailSessions` | what the registry promises, without pids, threads, locks or directories |
| `ClientRegistry` | the registry: prompt thread, sweeper, children, process table, jails |
| `Admission` | what the README promises a client, without sockets or threads |
| `Handshake` | from the client's request to the server's answer: backlog, receiver, queue, prompt, descriptor table, pipe |
| `Restarts` | several servers over one port and jail path, crashes between any two operations, and the client's end of a session |
| `BlockDevice` | what the RAM disk promises its users, without memory, segments or a module to load |
| `RamdDriver` | the driver: loading, size, openers, requests, unloading |
| `Timeouts` | `validate_timeout` in 32 bits, with its theorems |
| `MCClientRegistry`, `MCHandshake`, `MCRestarts`, `MCRamd` | the four on small sets, for TLC |
| `ClientRegistryProofs` | the inductive invariant of `ClientRegistry`, its safety theorems, and what must happen if the threads run |
| `ClientRegistryRefinement` | the proof that `ClientRegistry` implements `JailSessions` |
| `HandshakeProofs` | where a connection can be: the invariant of `Handshake`, and what follows from it alone |
| `RestartsProofs` | the inductive invariant of `Restarts`, and the proof that each server implements `JailSessions` |
| `RamdProofs` | the inductive invariant of `RamdDriver`, the count of openers, the alignment of the size, and the end of calls and requests |
| `RamdRefinement` | the proof that `RamdDriver` implements `BlockDevice` |
| `HandshakeRefinement` | the descriptors and answers: the rest of the invariant, that no answer is lost, and the proof that `Handshake` implements `Admission` |

### ClientRegistry

| variable | in the code |
| --- | --- |
| `c_map` | `Server::c_map`, an entry reduced to its pid |
| `jails` | the directories below `jail_path` (`fakeroot_path` is `jail_path/ip`, `Utils.cpp:81`) |
| `stage`, `owner` | the kernel's process table: what runs under a pid, and for which address it was forked |
| `sigchld` | the disposition of SIGCHLD, which line 269 sets to ignored |
| `mutex` | who holds `clients_map_mut` |
| `prompt`, `new_client`, `pipe` | where the prompt thread is, its local client, what its child has written |
| `todo`, `dead` | what its loop over the map still visits, and the entry of these that `operator<<` has just found gone |
| `sweeper`, `unswept` | the same for the sweeper |

A section that holds the mutex and makes one pass is a single action guarded by
the mutex being free. The loops of `operator<<`, `drop_all_clients` and the
sweeper are an action per entry, with the mutex held across them, so that
processes die and children go on between two of their steps. `operator<<` takes two
for an entry that is gone, `DisplayOne`, which calls `kill(pid, 0)` (line 70), and
`DisplayDrop` (lines 83-88): the pid may be used again between the two. The order in which
a loop visits the entries, that of the keys, is left open: addresses are not
ordered in the model.

Adding a client is the longest path: `HandlePending` (lines 294-307),
`PopulateJail` (the operator's input and `Utils.cpp:78-107`), `Fork`,
`ParentSignal`, `ParentRead`, `ParentCheck` and `Insert`; `PopulateJail` begins with the
answer to the client (line 309) and the pipe (line 235), which may throw before there is a
directory, as `create_directory` may; the child runs `ChildReports` and `ChildExecs` beside it. What can fail fails: a
`remramd::exception` unwinds to `main` (`server_main.cpp:13`) and so runs
`~Server` (`prompt = "dtor"`); a `filesystem_error` is no such exception, nothing
catches it, and the process is gone without `~Server` (`FilesystemError`,
`prompt = "aborted"`).

A child whose `execl` returns is alive and goes on in the menu loop of
`Server::run`. It is a process in the model (`stage = "menu"`); what it does there
is not.

The sleep of 1.5 seconds before the check (line 274) is the one place where time
decides: the model takes it to outlast the child's way from its report to
`execl` (the guard of `ParentCheck`). The sweeper's 30 seconds and the other sleeps
are not modelled, any delay is possible.

The kernel hands out the pid of a process that has gone again, to a child (`Fork`) or
to somebody else's process (`OtherProcess`), as soon as it likes.

### Handshake

| variable | in the code |
| --- | --- |
| `client`, `sent`, `answer` | where `request_connection` is, a request under way, the byte the server has written |
| `backlog` | connections the kernel has set up and nobody accepted |
| `files` | the server's descriptor table: which connection, or end of a pipe, a number stands for |
| `worker`, `cur` | `connection_receiver_worker` and its `curr_pend_conn` |
| `conn_q` | `Server::conn_q`, an entry reduced to the client and the number |
| `prompt`, `taken` | where the prompt thread is, the connection it handles, its pipe |
| `kids` | the connections that a forked child holds copies of |
| `jailed` | the clients that are in `c_map` |
| `verdict` | history: what was decided about a client; no action reads it in a guard |

`SendData` writes to whatever the number stands for now, `Close` closes it,
`Accept` and `OpenPipe` take the lowest number that is free, as the kernel does.
`ReadAnswer` sees the end of the connection only when no process has it open any
more: `OpenAtServer` looks at the backlog, the table and the children.
`EnjailReturns` closes the connection and both ends of the pipe, the one that
`ForkChild` has closed again (`PipeWrapper.cpp:15-18`).

`AcceptsInWindow` says whether the receiver may accept a connection between the
closing of the pipe's write end and the destructor that closes it again. It may;
FALSE is used for the properties that this second close breaks, so that all other
interleavings are still checked for them. `handshake_liveness`, `handshake_deaf` and
`handshake_crossed` use TRUE; that `OneClientPerAddress` and `DecidedOnce` hold for
TRUE as well is proved.

The map, the sweeper and the failures of the registry are not repeated:
`jailed` grows when a child makes it, shrinks when a client is dropped or found
to have gone, and `EnjailThrows` and `Exit` end the server.

### Restarts

| variable | in the code |
| --- | --- |
| `server` | where the main thread of each `remramd_server` is |
| `bound` | the servers whose receiving thread has got the port |
| `joining`, `c_map` | the client a server is adding, the clients it knows |
| `jails` | the directories below the jail path that all servers share |
| `stale` | history: those there were when the last server got the port; no action reads it |
| `pending`, `at` | the clients that are queued, and the server whose queue or child theirs is |
| `client`, `child` | a client from its request to its netcat, and its child from `fork` to its end |

What `ClientRegistry` and `Handshake` follow through threads is one action per
operation here, since what is asked is another question: what one server's
operations do to another's clients. A step of adding a client is an action of
its own (`Accept`, `PopulateJail`, `Fork`, `Insert` or `Reject`), so that a crash, or
another server, may come between any two. Each has its failure: `PopulateFails` may
or may not have made the directory, `ForkFails`, `EndOfPipe`; these throw and end in
`~Server` (`closing`), which drops the clients one by one and then erases the jail
path. `Crash` is a signal or an exception that nothing catches: no destructor runs.

The prompt starts before the receiving thread has the port (`Server.cpp:397-420`),
so a server may be told to exit before it is found out that it cannot have it.
`BindFails` needs no reason: a port may be refused because earlier connections
linger, the code sets no SO_REUSEADDR.

A child is forked with the listening socket open, and keeps it in bash
(`HoldsSocket`): as long as a client runs, nobody else gets the port, and the
kernel goes on setting up connections that nobody will accept (`Ask`).

`ChildConnects` needs a client whose netcat is there already; that its server is there
too, which the report needs, is not asked for, so that a crash leaves more clients
behind than it would. The child's failure is
always possible, in particular when it is too early.

The clients differ by address; two of one address stand for one user who comes
again. Pids and `execl` are left to `ClientRegistry`.

### RamdDriver

| variable | in the code |
| --- | --- |
| `stage` | the statement of `ramd_init`, `align_disk_size`, `setup_ramd_device`, `deallocate_dev_resources` or `ramd_exit` that is next; `live` between the two |
| `ramd_size`, `pow` | the parameter, then the size; `default_pow` |
| `ptr`, `heap` | the pointers in `struct ramd` that are set, and the objects that exist |
| `data` | the memory of the disk, cell by cell |
| `listed`, `openers`, `holders` | whether the kernel offers the disk; the driver's count; those who have it open |
| `rq`, `task`, `page` | a user's request; `rmq_handler`'s locals for it; what has been copied |

A cell is what `memcpy` moves in a step: `Copy` moves one, so that the segments of
two requests, served at a time, interleave cell by cell. The width of an unsigned
long is `Word`, and `ulong_pow`, the scaling to MB and the doubling of the alignment
are computed modulo it. `Free` gives back what a pointer names if the pointer is set,
and ends in `oops` if the object is not there: the error pointer of a queue that
could not be made is such a one.

The kernel is external. What the driver needs of it is in the guards of `MayOpen`
(the module has an owner that the kernel counts), `Submit` (no request goes past the
capacity), `Rmmod` (nobody has the device open) and in `ScanOpens`: `add_disk` opens
the disk to look for partitions before `atomic_set` is reached.

### Timeouts

`validate_timeout` is an operator that yields the set of the ints that may come
out, one, but where an int overflows. No run has it: TLC's own integers have 32
bits, and no state of the system depends on more than 10 and -1.

### The abstract specifications

`JailSessions` gives an address a session: none, joining, connected. One joins at
a time; the process of an address runs only within its session; a session that is
rejected or left has no process; a server closes only when nothing is left; only
a crash lets processes outlive their sessions. `ClientRegistry` implements it
under the mapping at its end: an address is joining while the prompt thread is
between the check and the insertion, connected while it is in the map.

Each server of `Restarts` implements `JailSessions` too, with its own map and its own
children, whatever the other servers do (`EachServerKeepsSessions`): its sessions
are what it is adding and what is in its map, and its processes those it forked.

`BlockDevice` lets a disk of blank cells appear, a user ask for adjoining cells, the
cells be moved one after the other, and the request end when all of them have been;
the disk disappears only when there are no requests. `RamdDriver` implements it,
with `data` as the disk, `page` as what has been moved.

`Admission` lets a client ask, be decided about once, and learn only what was
decided. `Handshake` implements it, with `verdict` mapped to granted or denied.


## 3. The runs

| run | module, bounds | states | properties |
| --- | --- | --- | --- |
| `registry_safety` | 2 addresses, 3 pids; symmetric | 86 000 | `TypeOK`, `LiveClientHasJail`, `NoOrphan`, `ExitLeavesNothing`, `MapStableWhileSwept`, `LiveClientsDropAlone`, `ImplementsSessions` |
| `registry_liveness` | 2 addresses, 2 pids | 67 000 | `GoneClientsAreForgotten`, `GoneClientsAreSwept`, `AddReturns`, `DestructorTerminates`, `MutexReleased` |
| `registry_recycled` | 2 addresses, 2 pids | stops | `KillsOnlyTheDropped` (violated) |
| `registry_exec` | 2 addresses, 2 pids | stops | `CheckedChildRunsShell` (violated) |
| `handshake_safety` | 3 clients, 2 of one address; 5 descriptors; backlog 1 | 282 000 | `TypeOK`, `QueueMatchesFiles`, `OpenFilesAreInUse`, `OneClientPerAddress`, `ImplementsAdmission`, `DecidedOnce` |
| `handshake_liveness` | 2 clients of one address, 4 descriptors, accepts in the window | 4 000 | `RequestsAreQueued`, `DecidedClientsLearn` |
| `handshake_deaf` | 3 clients, 2 descriptors, accepts in the window | stops | `ConnectionsAreAccepted` (violated) |
| `handshake_crossed` | 3 clients, 5 descriptors, accepts in the window | stops | `RefusedOnlyIfDenied` (violated) |
| `handshake_decline_all` | 2 clients, 4 descriptors | stops | `DeclinedClientsExit` (violated) |
| `restarts` | 2 servers, 3 clients, 2 of one address; symmetric in the servers | 310 000 | `TypeOK`, `BoundServerKnowsClients`, `OneClientPerJail`, `JailsAreOwned`, `RunningClientsKeepJails`, `EachServerKeepsSessions` |
| `ramd` | 2 users, disks of 2 and 8 cells, 2 to a sector, words of 16 values | 148 000 | `TypeOK`, `UsesLiveMemory`, `FreedOnce`, `RequestsFit`, `OpenersNotOvercounted`, `AlignsToPowerOfTwo`, `CallsReturn`, `RequestsEnd`, `ImplementsDevice` |
| `ramd_align` | as above, a size of 10 of 16 | stops | `CallsReturn` (violated) |

Why the bounds are enough:

* Two addresses are an entry and another one: a loop over the map that has a next
  entry, a drop of one beside one that stays, a join beside a session. Three pids
  are two clients and somebody else's process, or a client, the next client of
  the same address, and the pid that is used again.
* Three clients, two of one address, are a duplicate and a third that is queued,
  accepted or forked across it. Five descriptors hold all three connections and
  a pipe, so nothing is refused for lack of them; four hold both connections of
  two clients and a pipe. So `RequestsAreQueued` is about a server that has descriptors
  left; what happens when it has none, `handshake_deaf` shows, with two that three
  clients are enough to use up (section 6).
  Every client connects once, which bounds the counters without any constraint.
* Two servers are one that crashes and one that is started after it, or both at
  a time. A client is let in once at most; two of one address are the client that
  a crash has left running and the same user's next attempt, the third is
  somebody else. A third server would meet nothing but what the second meets.
* `ramd` tries a size below the smallest, one that is not a power of two (3 MB, 6
  cells, become 8), the default, which is not scaled, and one that the width cuts
  (9 MB, 18 cells, are 2). Requests cover the last sector in segments that are no
  whole sector, and the last two in a segment for each, so that two users' requests
  overlap, end at the capacity and are cut differently. `ramd` has sizes up to the
  largest power of two of a word, `ramd_align` one above it, and this is the line
  between the loop's ending and not. `TwoToIsPower` compares the powers that the model
  defines by recursion with those of TLC.
* Symmetry is used only where no liveness property is checked; addresses, pids and
  servers are only compared.

Deadlock is checked in every run. When the server has ended, `Ended` lets the
system stop; that the prompt has ended, in `Restarts` that of every server, is the
only reason why it may stop. A module can always be loaded again, unless the kernel
has been lost (`Oops`).


## 4. Fairness

`ClientRegistry`: weak fairness of the prompt thread's own steps, of the sweeper
and of each child: the scheduler runs them. No fairness of what the operator
decides, of processes that die, of the kernel's choice of pids. Strong fairness
where a thread waits for the mutex (`Insert`, `DropCheckSize`, `DropAll` of the
destructor, `SweepLock`): the other takes the mutex again and again, but the
sweeper sleeps 30 seconds between two passes and the prompt waits for the operator
without the mutex, so neither can be missed for ever.

`Handshake`: weak fairness of the receiver, of opening the pipe, of the return
from enjailing, and of a client's reading of its answer, which is a blocking
`read`. None of the operator's choices, and none of the client's connecting or
sending: a client may stay silent for ever, and then the poll times out. The
fairness of `EnjailReturns` is the claim that the wait on the pipe ends, which
`AddReturns` shows for the registry.

`RamdDriver`: weak fairness of `insmod` and `rmmod` once they have been called
(`Driver` outside of `unloaded` and `live`), of the kernel's search for partitions, and
of the serving of each user's request: processes and the queue's workers are
scheduled. None of loading, unloading, opening, releasing or submitting.

`Restarts` has no fairness; it is about safety only.


## 5. What is proved

### The registry

The theorems hold for any sets of addresses and pids, whatever the kernel does with
the pids. The only assumption is `RegistryAssumption`: the two markers for "no
address" and "no pid" are none. Finiteness is not assumed.

| theorem | says |
| --- | --- |
| `TypeCorrect` | `Spec => []TypeOK` |
| `JailsKept` | `Spec => []LiveClientHasJail`: no code path takes the jail of a client that runs |
| `ClientsFound` | `Spec => []NoOrphan`: unless the server crashed, who runs is registered or being added |
| `CleanExit` | `Spec => []ExitLeavesNothing` |
| `MapStable` | `Spec => MapStableWhileSwept` |
| `DropsAlone` | `Spec => LiveClientsDropAlone`: dropping a client that lives ends its process and no other |
| `MutexProgress` | `Spec => []LoopBounded /\ LoopAdvances`: who holds the mutex comes nearer to letting go of it |
| `DestructorEnds` | `Spec`, `MutexReleased` and fairness imply `DestructorTerminates` |
| `AddEnds` | `Spec`, `MutexReleased` and fairness imply `AddReturns` |
| `GoneSwept` | `Spec`, `MutexReleased` and fairness imply `GoneClientsAreSwept` |
| `GoneForgotten` | `Spec` and `MutexReleased` imply `GoneClientsAreForgotten` |
| `Refinement` | `Spec => ImplementsSessions` |

None of the safety properties is inductive. That the sweeper takes no living
client's jail needs to know that whoever lives is in the map under its own
address (`NoOrphan`), so that the entry that is swept is that of the address
concerned, and that the client being added is not in the map (`JoinInv`). That
`NoOrphan` survives the failed check of a child needs to know that a child that has
not reported success does not live by then (`PipeInv`, `SetupInv`). That the loops
over the map meet only entries that are there needs the lock (`LockInv`), and that
an exit is clean needs the destructor to have visited every entry (`ClosingInv`).
`IInv` in `ClientRegistryProofs` is the conjunction; `InitIInv` and `StepIInv` show
that it holds initially and is kept by each action; each theorem is then a
consequence.

`KillsOnlyTheDropped` is false (`registry_recycled`): an entry may name a stranger once its
client has gone. `DropsAlone` says how far the code may be trusted: as long as a client
lives, nobody else can have its pid, its entry names it (`NoOrphan`), and no other
entry of the map does, so that the `SIGKILL` ends this client and nobody else.

The liveness theorems, and the fact on the mutex that they rest on, are explained
below, with those of the other modules.

`ClientRegistryRefinement` shows, action by action, which step of `JailSessions` a
step of the registry is, or that it is a stutter: `Fork` is `Start`, `Insert` is
`Admit`, a process that ends is `Die` or nothing, and so on. It uses the same
invariant in both states of the step.

### The handshake

The theorems hold for any set of clients and their addresses, any set of
descriptors and any length of the backlog, all possibly infinite
(`HandshakeAssumption` says only that descriptors and the length are natural
numbers, that every client has an address, and that the two markers in the
descriptor table are no clients).

| theorem | assumes | says |
| --- | --- | --- |
| `HandshakeTypeCorrect` | | `Spec => []TypeOK` |
| `OnePerAddress` | | `Spec => []OneClientPerAddress` |
| `DecidedOnceOnly` | | `Spec => DecidedOnce` |
| `DescriptorsMatch` | `~AcceptsInWindow` | `Spec => []QueueMatchesFiles` |
| `DescriptorsUsed` | `~AcceptsInWindow` | `Spec => []OpenFilesAreInUse` |
| `AdmissionKept` | `~AcceptsInWindow` | `Spec => ImplementsAdmission` |
| `RefusedIfDenied` | `~AcceptsInWindow` | `Spec => []RefusedOnlyIfDenied` |
| `AnswersWait` | `~AcceptsInWindow` | `Spec => []AnswerWaits`: no answer is lost on the way |
| `DecidedLearn` | `~AcceptsInWindow` | `Spec` and the clients' fairness imply `DecidedClientsLearn` |

`handshake_crossed` shows that the assumption is needed, in particular for
`RefusedIfDenied`: the run has a counterexample to the same property without it. The
first three do without it: they do not rest on what a descriptor stands for.

`PlaceInv` is what the first three need. A connection about which nothing is
decided is in exactly one place: in the backlog, with the receiver or in the queue
(`BacklogInv`, `ReceiverInv`, `QueueInv`, `SightInv`). So whoever decides about the
head of the queue, the whole queue or the connection in hand decides for the first
time; and the client that the prompt thread lets in was compared with the map
after the last change that could have added its address (`AddressInv`).

`FileInv` adds the descriptor table. That a queued number stands for its
connection (`MatchInv`) survives another thread's closing only because every
connection has one number (`FilesInv`) and what the prompt thread and the receiver
hold is open and theirs (`HeldInv`). The second close of the pipe is harmless only if
its number is still free (`HeldInv` again): this is where `~AcceptsInWindow` enters,
in the step for `Accept`. `EndOfConnection` is the lemma that makes the refinement
work: a client that sees the end of its connection without an answer has been
decided about, since until then it is in the backlog or its number is open.

`HeardInv` is a third part: who is in the queue or in hand has sent its request,
because the receiver reads it before it queues anybody, and so waits for the answer
by the time there is one. With it, `AnswerWaits` says for every client that was
accepted or declined that the answer is in its socket and that it has ended or
is reading: what `DecidedLearn` needs is the client's own fairness only, none of the
server's.

### Servers that are started again

The theorems of `RestartsProofs` hold for any set of servers, any set of clients
and any addresses. `RestartsAssumption` says only that every client has an address
and that the markers for none are none.

| theorem | says |
| --- | --- |
| `RestartsTypeCorrect` | `Spec => []TypeOK` |
| `ClientsKnown` | `Spec => []BoundServerKnowsClients` |
| `NoJailShared` | `Spec => []OneClientPerJail` |
| `NoJailForgotten` | `Spec => []JailsAreOwned` |
| `JailsSpared` | `Spec => RunningClientsKeepJails` |
| `SessionsKept` | `Spec => EachServerKeepsSessions` |

The argument turns on the port. A server that has it is the only one (`OneBound`),
and when it got it no child of anybody ran (the guard of `Bind`, by `PlaceInv`: the
child of a client holds the socket of the server the client asked). From there on
every child is forked by it (`PhaseInv`: who adds clients has the port) and stays
in its map as long as it runs. So whoever it takes a jail from is its own, and is
killed or gone. That clients of one address cannot share a jail is `AddressInv` for
its own map, and its knowing all that run for the rest. `OwnedInv` follows a jail
from its making to the map through each step of adding a client and each of its
failures. `AskedInv` is needed by the refinement only: a server that closes without
having had the port has no processes.

### The driver

`RamdProofs` and `RamdRefinement` hold for any users, any extents, any widths of the
two integer types and any minimal size. `RamdAssumption` says that the sizes are
naturals, that parameters fit the word, that segments cut a request into pieces, and
that the word has a power of two values, more than the smallest disk, with an
exponent that an unsigned int can hold: an unsigned long, the smallest size and
`default_pow` of the code.

| theorem | says |
| --- | --- |
| `RamdTypeCorrect` | `Spec => []TypeOK` |
| `LiveMemory` | `Spec => []UsesLiveMemory` |
| `AllFreedOnce` | `Spec => []FreedOnce` |
| `RequestsAlwaysFit` | `Spec => []RequestsFit` |
| `OpenersBounded` | `Spec => []OpenersNotOvercounted` |
| `AlignsLeast` | `Spec => AlignsToPowerOfTwo` |
| `AlignEnds` | `Spec => []AlignBounded /\ AlignCounts`: for a size up to the largest power of two of a word, each round of the loop brings its end nearer |
| `AlignForever` | `Spec /\ <>TooBig => ~CallsReturn`: for any larger size it has none |
| `Returns` | `Spec`, fairness and the end of that loop imply `CallsReturn` |
| `RequestsProgress` | `Spec => []RequestBounded /\ RequestAdvances`: a request comes nearer to its end |
| `DeviceImplemented` | `Spec => ImplementsDevice` |

`ObjectsInv` says, for each statement of loading and unloading, which objects and
pointers there are; it is what makes every failure path free all of it and nothing
twice. `HoldersInv` says that whoever has the device open or waits for a request
keeps the module from going away. `TaskInv` relates the locals of `rmq_handler`: the
offset is the beginning of the request plus the bytes counted so far, which is
where the iterator is. Together with the capacity, which is the size in sectors
rounded down (`CapacityFits`), this keeps every segment within the memory and makes
every request end complete. The refinement adds that `page` is as long as what has
been counted and copied, so that the next step of `memcpy` is the next cell of the
abstract request. `OpenersBounded` needs an invariant of its own, `CountInv`, and the
library's facts on finite sets.

The alignment is about numbers, and needs induction over them. The provers cannot
instantiate the library's induction rule, whose parameter is a predicate, but they can
use its consequences for sets: a set of naturals that is not empty has a least
element (`LeastNatural`), so one that has 0 and the next of each of its members has
all (`SetInduction`), and a function defined by recursion is what it is defined to
be (`Recursion`, `TwoToDef`, `UlongPowDef`). From these, powers of two grow
(`TwoToGrows`), and `ulong_pow(2, n)`, computed with products cut at each step, is the
power as long as it fits a word, and 0 from there on (`UlongPow`, `PowerFits`). So a
power that is cut is never mistaken for a small one: `AlignsLeast` holds for any size
that leaves the loop, and a size above the largest power never does (`AlignForever`,
which proves for every width what `ramd_align` shows for one).

`RequestsProgress` counts the steps a request has before it: two for each of its
cells that is not yet moved, and those of its beginning (`Remaining`). There are
some as long as there is a request, one of them can be taken, each takes at least
one off, and steps of others neither add one nor touch the request.

### What must happen

The prover has no rule for `ENABLED`, so `WF_vars(A)` and `SF_vars(A)` cannot be used in
a proof as they stand. The liveness theorems take them with the guard spelled out:
`PromptFair`, for instance, is `[](<>~PromptCan \/ <><<PromptThread>>_vars)`, where
`PromptCan` is when a step of the prompt thread can be taken, read off the guards of
its actions. That these conditions are the right ones is not proved; the runs check the
same properties with `WF_` and `SF_`. Each theorem takes only the fairness it needs,
so that they also say whose turn a property depends on: `GoneSwept` only on the
sweeper's getting the mutex, `GoneForgotten` on nobody's, `AddEnds` on the prompt thread and on each child,
`DecidedLearn` on the client alone.

| theorem | fairness of |
| --- | --- |
| `DestructorEnds` | the prompt thread (weak), `DropAll` of the destructor (strong) |
| `AddEnds` | the same, `Insert` (strong), each child (weak) |
| `GoneSwept` | `SweepLock` (strong) |
| `GoneForgotten` | none: a display that lets go of the mutex has come to every entry |
| `DecidedLearn` | `ReadAnswer` of each client (weak) |
| `Returns` | the driver once it is called (weak), the kernel's scan (weak) |

Four of them have `MutexReleased` as a hypothesis: the mutex is free again and
again. `registry_liveness` checks it. It cannot be concluded here, because the loops
that hold the mutex take as many steps as there are entries, and an induction
over temporal formulas is beyond the prover. What there is to be proved of it without
such an induction is `MutexProgress`: the map is finite, the thread that holds the
mutex can always go on, each of its steps takes an entry off what its loop has before
it, has found the one gone that it takes off next, or lets go of the mutex, and nobody
else's step puts one there. In the same way
`Returns` has the end of the alignment as its hypothesis, of which `AlignEnds` is the
part without induction, and `RequestsProgress` is that part of `RequestsEnd`.

The theorems with a hypothesis are not empty: `MutexReleased` and the fairness
hold together in `registry_liveness`, the end of the alignment in `ramd`, and
`~AcceptsInWindow` in `handshake_safety`.

### The timeouts

`WaitsAreBounded`: for every int but the least, the conversion overflows nothing and
gives a wait of at most 30000 seconds; only -1 waits for ever. `WaitsAsAsked`: up to
the limit the wait is the one asked for, and its negative gives the same.
`LongWaitsWrap`: beyond the limit it starts again, so that 30001 seconds are two and
60000 none. `LeastIntOverflows`: the least int survives its negation, passes under
the limit and overflows, so that any int may come out.

### What is model-checked only

* `MutexReleased`, `RequestsEnd`, and that the loop of the alignment ends, which is in
  `CallsReturn`: each follows from what is proved (`MutexProgress`, `RequestsProgress`,
  `AlignEnds`) by an induction over temporal formulas, which the prover does not have;
* `RequestsAreQueued`: a connection waits for as many others as there are before it, so
  that this needs the same induction;
* that the guards spelled out in the liveness theorems are those of `ENABLED`, and
  `DecidedClientsLearn` where connections are accepted in the window;
* `AlignsToPowerOfTwo`, `CallsReturn` and the rest of the liveness properties are both
  checked and proved, the latter under the hypotheses above.

No module declares a RECURSIVE operator: `TwoTo` and `ulong_pow` are recursive functions.


## 6. Where the code and what is said of it disagree

Each of these is a run that TLC ends with a counterexample.

* `registry_recycled`: "drops all jailed clients" (line 361), but what is killed is a
  number (line 370). In the run a child reports success and dies, its pid is free at
  once (SIGCHLD is ignored) and is given to another process before the check of
  line 276: the check passes, the stranger is registered and killed. Line 346 does
  the same, and so do both when the client dies after it has been registered, since
  its entry stays; line 84 does when the pid is used again after line 70.
* `registry_exec`: the check "will fail if execve in child process failed" (line
  275) does not: the child has reported success before `execl`, and a child whose
  `execl` failed is alive. A first child that has reported and died before SIGCHLD is
  ignored (line 269) passes it too, as a zombie.
* `handshake_deaf`: the server "constantly accepting new connection attempts"
  (`README.md:65`) stops when it has used up its descriptors. It forgets a connection
  whose request cannot be read (`Server.cpp:157-164`), and that of a refused duplicate
  (lines 301-305), without closing it: the two exceptions that `OpenFilesAreInUse` names.
  In the run two clients go before their requests are read; the third waits for ever
  although the server uses none of its descriptors. Since a failed accept is
  kept in 16 bits (`Protocol.hpp:31`), the loop does not even notice.
* `handshake_crossed`: the destructor of the pipe closes a number twice, and the
  second time it may be a client's connection; that client is turned away
  without anybody having declined it.
* `handshake_decline_all`: "decline all" sends no answer and relies on closing; a
  child that was forked meanwhile holds a copy, and the client waits.
* `ramd_align`: "the possible overflow itself doesn't seem harmful" (`ramd.c:81-82`),
  but for a size above 2^63 bytes the power overflows to 0, stays there, and
  `align_disk_size` never returns. A large number of MB gets there too (line 254).

These were met while modelling and have no run:

* The sweeper removes the jail of a client that has gone but not its entry, so that
  its address is refused as "already connected" (line 301) until the operator displays
  or drops clients; `GoneClientsAreForgotten` says that a display then does forget it. The
  entry of a first child that died before line 269 is never forgotten by a display:
  it is a zombie, which `kill(pid, 0)` takes for alive.
* "Amount of virtual drive users at any point of time" (`ramd.c:39`): the count is set
  to 0 after `add_disk`, so that who opened the disk before is missed and the count
  goes below 0 when he releases it. `OpenersNotOvercounted` is the half that holds.
* `ramd_major` is unsigned, so that the failure of `register_blkdev` (`ramd.c:249`) is
  never noticed; the error pointer of a queue that could not be made is taken for
  a queue when everything is given back (`ramd.c:276`), the exception that
  `FreedOnce` names.
* "max timeout = 30 seconds" (`Protocol.hpp:20`) is a limit of 30000 seconds.
* A client that was told YEP and whose child came too early, or failed, waits in
  netcat for ever; nothing tells it. A client that asks while only a child of a
  crashed server holds the port is never accepted, and waits as well.
* A server that is told to exit before it finds the port taken erases the jails of
  the other server's running clients: the one exception that
  `RunningClientsKeepJails` names.


## 7. What is not modelled

Abstracted in the modules above: uid, gid, exposed binaries and ports of a client
(no decision depends on them); the text of the menu; the files inside a jail.
The sweeper and the drops call `close` on the number of the client's *port* (lines
345, 369, 409); netcat ports are at least 1024 (`Protocol.cpp:91`) and the default
limit on descriptors is 1024, so this closes nothing and is left out. The window
between `~Server` and the end of the process, in which detached threads may still
use the object, is undefined behaviour and left out. In `Handshake` the start of the
listener (`init_server`) has worked; `Restarts` has its failure.

* The bitmap of `PipeWrapper`: every caller closes the end it does not use before it
  reads or writes, so that `validate_requested_fd` never refuses.
* What a child whose `execl` failed does in the menu of `Server::run`: it would be a
  second server with copies of the map, the queue and the mutexes, one of which may
  be locked for ever. That it gets there is `registry_exec`.
* In `Restarts`: pids that are reused, `execl` that fails (both in `ClientRegistry`), and
  servers on different ports over one jail path. Those erase each other's jails
  whenever one of them exits, and nothing in the code is meant to prevent it.
* A composition of the descriptors of `Handshake` with the threads of
  `ClientRegistry` in one state space: `Restarts` composes their operations, and the two
  meet in the abstract `JailSessions` only.
* `dump_ldd_output`, `parse_so_dependencies`, the command line, the menu's text and the
  exception class: text, and ways to throw, which the modules have.
* The kernel's side of the block layer beyond what section 2 says, `ramd_ioctl`, which
  refuses everything, and the log messages of the driver.
