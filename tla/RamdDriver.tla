----------------------------- MODULE RamdDriver -----------------------------
(***************************************************************************)
(* The RAM disk driver, driver/ramd.c: loading the module, with a failure  *)
(* at each allocation, the size of the disk, those who open and release    *)
(* the device, the requests they make of it, and unloading.                *)
(*                                                                         *)
(* The unit of memory is a cell, what memcpy moves in one step; the disk   *)
(* is a function on the cells 0..ramd_size-1.  An unsigned long has Word   *)
(* values.  The kernel is modelled by what the driver needs of it: it      *)
(* counts the users of a module, opens a new disk to look for partitions   *)
(* (what it reads is like the requests of others, and left to them), keeps *)
(* requests within the capacity and may serve several at a time.           *)
(***************************************************************************)
EXTENDS Integers, Sequences, FiniteSets

CONSTANTS
  Users,        \* processes that use the device
  Kernel,       \* the kernel, which reads the partitions of a new disk
  Blank,        \* a cell of zeroed memory
  Word,         \* how many values an unsigned long has
  Uint,         \* how many values an unsigned has
  GB,           \* the default size, which is not scaled
  MB,           \* 1024 * 1024: the factor that scales any other size
  MinPow,       \* the smallest disk has 2^MinPow cells
  SectorSize,   \* cells in a sector
  Params,       \* values of the parameter ramd_size that are tried
  Extents       \* places on a disk that are tried: first sector, number of
                \* sectors, and for each cell where its segment ends

Openers == Users \cup {Kernel}

(* 2 ^ n.                                                                  *)
TwoTo[n \in Nat] == IF n = 0 THEN 1 ELSE 2 * TwoTo[n - 1]

Dirs == {"READ", "WRITE"}

ASSUME RamdAssumption ==
  /\ Kernel \notin Users
  /\ Uint \in Nat /\ MinPow \in Nat
  /\ \E bits \in MinPow+1..Uint : Word = TwoTo[bits]
  /\ MB \in Nat /\ GB \in Nat
  /\ SectorSize \in Nat \ {0}
  /\ Params \subseteq 0..Word-1
  /\ \A e \in Extents :
       /\ e.pos \in Nat /\ e.nr \in Nat \ {0}
       /\ \A c \in 0..e.nr * SectorSize - 1 :
            e.ends[c] \in c+1..e.nr * SectorSize

VARIABLES
  stage,      \* where ramd_init or ramd_exit is; "live" between the two
  ramd_size,  \* the module parameter, then the size in cells
  pow,        \* default_pow of align_disk_size
  ptr,        \* the pointers of struct ramd, and ramd_dev, that are set
  heap,       \* the kernel objects that exist
  data,       \* the contents of the disk's memory
  listed,     \* whether the kernel offers the disk
  openers,    \* the driver's count of users
  holders,    \* those who have the device open, which the kernel counts
  rq,         \* the request of a user
  task,       \* where rmq_handler is with it, and its locals
  page        \* what has been copied to or from the pages of the request

module == <<stage, ramd_size, pow>>
memory == <<ptr, heap>>
users  == <<openers, holders>>
io     == <<rq, task, page>>
vars   == <<module, memory, data, listed, users, io>>

Objects == {"ramd_dev", "data", "rq_queue", "tags", "gd"}

NoRequest == [dir |-> "none"]
Resting   == [at |-> "idle", iter |-> 0, offset |-> 0, nbytes |-> 0,
              copied |-> 0]

Init ==
  /\ stage = "unloaded" /\ ramd_size = GB /\ pow = MinPow
  /\ ptr = {} /\ heap = {} /\ data = << >>
  /\ listed = FALSE
  /\ openers = 0 /\ holders = {}
  /\ rq = [u \in Users |-> NoRequest]
  /\ task = [u \in Users |-> Resting]
  /\ page = [u \in Users |-> << >>]

-----------------------------------------------------------------------------
(* Loading: ramd_init, align_disk_size, setup_ramd_device.                 *)

(* A product that does not fit is cut to the width of an unsigned long.    *)
ulong_pow(base, exponent) ==
  LET result[i \in Nat] == IF i = 0 THEN 1 ELSE (result[i - 1] * base) % Word
  IN  result[exponent]

Scaled(p) == IF p # GB THEN (p * MB) % Word ELSE p

(* register_blkdev may fail; its negative result is stored in an unsigned  *)
(* and never found to be <= 0, so that loading goes on.                    *)
Insmod ==
  /\ stage = "unloaded"
  /\ \E p \in Params : ramd_size' = Scaled(p)
  /\ stage' = "align" /\ pow' = MinPow
  /\ UNCHANGED <<memory, data, listed, users, io>>

(* Mutant: also goes on from a power of two that is just right.            *)
AlignBeyond ==
  /\ stage = "align"
  /\ ramd_size >= ulong_pow(2, pow)
  /\ pow' = (pow + 1) % Uint
  /\ UNCHANGED <<stage, ramd_size, memory, data, listed, users, io>>

(* Mutant: the loop does not count.                                        *)
AlignStuck ==
  /\ stage = "align"
  /\ ramd_size > ulong_pow(2, pow)
  /\ UNCHANGED vars

(* One round of the loop that looks for a power of two.                    *)
Align ==
  /\ stage = "align"
  /\ ramd_size > ulong_pow(2, pow)
  /\ pow' = (pow + 1) % Uint
  /\ UNCHANGED <<stage, ramd_size, memory, data, listed, users, io>>

Aligned ==
  /\ stage = "align"
  /\ ramd_size <= ulong_pow(2, pow)
  /\ ramd_size' = ulong_pow(2, pow)
  /\ stage' = "kzalloc" /\ pow' = MinPow
  /\ UNCHANGED <<memory, data, listed, users, io>>

(* Mutant: the memory is counted in sectors.                               *)
AllocateSectors(from, to, objects) ==
  /\ stage = from
  /\ stage' = to
  /\ ptr' = ptr \cup objects /\ heap' = heap \cup objects
  /\ data' = IF "data" \in objects
             THEN [c \in 0..(ramd_size \div SectorSize)-1 |-> Blank] ELSE data
  /\ UNCHANGED <<ramd_size, pow, listed, users, io>>

(* An allocation succeeds, or what there is already is given back.         *)
Allocate(from, to, objects) ==
  /\ stage = from
  /\ stage' = to
  /\ ptr' = ptr \cup objects /\ heap' = heap \cup objects
  /\ data' = IF "data" \in objects THEN [c \in 0..ramd_size-1 |-> Blank]
                                   ELSE data
  /\ UNCHANGED <<ramd_size, pow, listed, users, io>>

(* blk_mq_init_sq_queue reports by an error pointer, which is stored.      *)
AllocationFails(from) ==
  /\ stage = from
  /\ stage' = "vfree"
  /\ ptr' = IF from = "init_queue" THEN ptr \cup {"rq_queue"} ELSE ptr
  /\ UNCHANGED <<ramd_size, pow, heap, data, listed, users, io>>

Setup ==
  \/ Allocate("kzalloc", "vzalloc", {"ramd_dev"})
  \/ Allocate("vzalloc", "init_queue", {"data"})
  \/ Allocate("init_queue", "alloc_disk", {"rq_queue", "tags"})
  \/ Allocate("alloc_disk", "add_disk", {"gd"})
  \/ \E from \in {"kzalloc", "vzalloc", "init_queue", "alloc_disk"} :
       AllocationFails(from)

(* set_capacity counts in sectors.                                         *)
Capacity == ramd_size \div SectorSize

(* add_disk offers the disk, and returns when the kernel has looked for    *)
(* partitions.  Others may open the disk meanwhile.                        *)
AddDisk ==
  /\ stage = "add_disk"
  /\ listed' = TRUE
  /\ stage' = "scan"
  /\ UNCHANGED <<ramd_size, pow, memory, data, users, io>>

InitOpeners ==
  /\ stage = "scanned"
  /\ openers' = 0
  /\ stage' = "live"
  /\ UNCHANGED <<ramd_size, pow, memory, data, listed, holders, io>>

-----------------------------------------------------------------------------
(* Opening and releasing.                                                  *)

Loading   == {"align", "kzalloc", "vzalloc", "init_queue", "alloc_disk",
              "add_disk", "scan", "scanning", "scanned"}
Unloading == {"vfree", "del_gendisk", "cleanup_queue", "free_tags",
              "put_disk", "vfree_again", "kfree", "unregister"}

(* Mutant: the operations have no owner that the kernel could count.       *)
MayOpenUnowned == listed

(* The kernel opens a disk that is offered unless the module that owns its *)
(* operations is going away.                                               *)
MayOpen == listed /\ stage \notin Unloading

Open(u) ==
  /\ MayOpen
  /\ u \notin holders
  /\ holders' = holders \cup {u}
  /\ openers' = openers + 1
  /\ UNCHANGED <<ramd_size, pow, memory, data, listed, io>>

(* Mutant: the count is not taken back.                                    *)
ReleaseUncounted(u) ==
  /\ u \in holders
  /\ holders' = holders \ {u}
  /\ UNCHANGED <<ramd_size, pow, memory, data, listed, openers, io>>

Release(u) ==
  /\ u \in holders
  /\ holders' = holders \ {u}
  /\ openers' = openers - 1
  /\ UNCHANGED <<ramd_size, pow, memory, data, listed, io>>

UserOpens(u)    == Open(u) /\ UNCHANGED stage
UserReleases(u) == rq[u] = NoRequest /\ Release(u) /\ UNCHANGED stage
ScanOpens       == stage = "scan" /\ Open(Kernel) /\ stage' = "scanning"
ScanReleases    == stage = "scanning" /\ Release(Kernel) /\ stage' = "scanned"

-----------------------------------------------------------------------------
(* Serving a request: rmq_handler, process_current_request.                *)

First(r) == r.extent.pos * SectorSize
Total(r) == r.extent.nr * SectorSize

(* The kernel lets no request go past the capacity it was told of.         *)
Submit(u) ==
  /\ u \in holders
  /\ rq[u] = NoRequest
  /\ \E e \in Extents, d \in Dirs :
       /\ e.pos + e.nr <= Capacity
       /\ rq' = [rq EXCEPT ![u] = [dir |-> d, extent |-> e]]
  /\ task' = [task EXCEPT ![u].at = "queued"]
  /\ UNCHANGED <<module, memory, data, listed, users, page>>

Dispatch(u) ==
  /\ task[u].at = "queued"
  /\ task' = [task EXCEPT ![u].at = "next", ![u].offset = First(rq[u])]
  /\ UNCHANGED <<module, memory, data, listed, users, rq, page>>

(* bv_len of the segment that begins where the iterator is.                *)
DataLen(u) == rq[u].extent.ends[task[u].iter] - task[u].iter

(* Mutant: the last cell is taken to be out of range.                      *)
InRangeStrict(u) == task[u].offset + DataLen(u) < ramd_size

InRange(u) == task[u].offset + DataLen(u) <= ramd_size

NextSegment(u) ==
  /\ task[u].at = "next"
  /\ task[u].iter < Total(rq[u])
  /\ task' = [task EXCEPT ![u].at = IF InRange(u) THEN "copy" ELSE "io_fail"]
  /\ UNCHANGED <<module, memory, data, listed, users, rq, page>>

(* Mutant: each segment goes to the same place.                            *)
AdvancedInPlace(t, data_len) ==
  [at |-> "next", iter |-> t.iter + data_len, offset |-> t.offset,
   nbytes |-> t.nbytes + data_len, copied |-> 0]

Advanced(t, data_len) ==
  [at |-> "next", iter |-> t.iter + data_len, offset |-> t.offset + data_len,
   nbytes |-> t.nbytes + data_len, copied |-> 0]

(* A step of memcpy; the pages of a writing user hold its name.  The last  *)
(* step ends the round: the offset goes on and the segment is counted.     *)
Copy(u) ==
  LET c == task[u].offset + task[u].copied
      last == task[u].copied + 1 = DataLen(u)
  IN  /\ task[u].at = "copy"
      /\ IF rq[u].dir = "WRITE"
         THEN /\ data' = [data EXCEPT ![c] = u]
              /\ page' = [page EXCEPT ![u] = Append(@, u)]
         ELSE /\ page' = [page EXCEPT ![u] = Append(@, data[c])]
              /\ UNCHANGED data
      /\ task' = [task EXCEPT ![u] =
                    IF last THEN Advanced(task[u], DataLen(u))
                            ELSE [task[u] EXCEPT !.copied = @ + 1]]
      /\ UNCHANGED <<module, memory, listed, users, rq>>

(* Mutant: the kernel is not told that the request has ended.              *)
EndRequestUnnoticed(u) ==
  /\ task[u].at = "next" /\ task[u].iter = Total(rq[u])
  /\ task' = [task EXCEPT ![u] = Resting]
  /\ UNCHANGED <<module, memory, data, listed, users, rq, page>>

(* blk_update_request says whether there is more to do than was done;      *)
(* rmq_handler takes that for a bug.                                       *)
EndRequest(u) ==
  /\ \/ task[u].at = "next" /\ task[u].iter = Total(rq[u])
     \/ task[u].at = "io_fail"
  /\ IF task[u].nbytes < Total(rq[u])
     THEN /\ task' = [task EXCEPT ![u].at = "BUG"]
          /\ UNCHANGED <<rq, page>>
     ELSE /\ task' = [task EXCEPT ![u] = Resting]
          /\ rq' = [rq EXCEPT ![u] = NoRequest]
          /\ page' = [page EXCEPT ![u] = << >>]
  /\ UNCHANGED <<module, memory, data, listed, users>>

Serve(u) ==
  Dispatch(u) \/ NextSegment(u) \/ Copy(u) \/ EndRequest(u)

-----------------------------------------------------------------------------
(* Giving everything back: deallocate_dev_resources, ramd_exit.            *)

(* Nobody may have the device open when its module is removed.             *)
Rmmod ==
  /\ stage = "live"
  /\ holders = {}
  /\ stage' = "vfree"
  /\ UNCHANGED <<ramd_size, pow, memory, data, listed, users, io>>

(* Mutant: the pointer to what has been given back stays.                  *)
FreeKeepsPointer(from, to, object) ==
  /\ stage = from
  /\ IF object \notin ptr
     THEN stage' = to /\ UNCHANGED <<memory, data, openers>>
     ELSE IF object \notin heap
     THEN stage' = "oops" /\ UNCHANGED <<memory, data, openers>>
     ELSE /\ stage' = to
          /\ heap' = heap \ {object}
          /\ data' = IF object = "data" THEN << >> ELSE data
          /\ UNCHANGED <<ptr, openers>>
  /\ UNCHANGED <<ramd_size, pow, listed, holders, io>>

(* What a pointer names is given back if the pointer is set; the kernel    *)
(* does not survive the release of something that is not there.            *)
Free(from, to, object) ==
  /\ stage = from
  /\ IF object \notin ptr
     THEN stage' = to /\ UNCHANGED <<memory, data, openers>>
     ELSE IF object \notin heap
     THEN stage' = "oops" /\ UNCHANGED <<memory, data, openers>>
     ELSE /\ stage' = to
          /\ ptr' = ptr \ {object}
          /\ heap' = heap \ {object}
          /\ data' = IF object = "data" THEN << >> ELSE data
          /\ openers' = IF object = "ramd_dev" THEN 0 ELSE openers
  /\ UNCHANGED <<ramd_size, pow, listed, holders, io>>

DelGendisk ==
  /\ stage = "del_gendisk"
  /\ listed' = (listed /\ "gd" \notin ptr)
  /\ stage' = "cleanup_queue"
  /\ UNCHANGED <<ramd_size, pow, memory, data, users, io>>

Unregister ==
  /\ stage = "unregister"
  /\ stage' = "unloaded" /\ ramd_size' = GB
  /\ UNCHANGED <<pow, memory, data, listed, users, io>>

Deallocate ==
  \/ Free("vfree", "del_gendisk", "data")
  \/ DelGendisk
  \/ Free("cleanup_queue", "free_tags", "rq_queue")
  \/ Free("free_tags", "put_disk", "tags")
  \/ Free("put_disk", "vfree_again", "gd")
  \/ Free("vfree_again", "kfree", "data")
  \/ Free("kfree", "unregister", "ramd_dev")

-----------------------------------------------------------------------------

Driver == Insmod \/ Align \/ Aligned \/ Setup \/ AddDisk \/ InitOpeners
          \/ Rmmod \/ Deallocate \/ Unregister

User(u) == UserOpens(u) \/ Submit(u) \/ UserReleases(u)

(* The kernel has lost the module for good.                                *)
Oops == stage = "oops" /\ UNCHANGED vars

Next ==
  \/ Driver
  \/ ScanOpens \/ ScanReleases
  \/ \E u \in Users : User(u) \/ Serve(u)
  \/ Oops

Spec == Init /\ [][Next]_vars

(* insmod and rmmod go on once they have been called, the kernel comes to  *)
(* the end of its search for partitions and runs the queue.                *)
FairSpec ==
  /\ Spec
  /\ WF_vars(Driver /\ stage \notin {"unloaded", "live"})
  /\ WF_vars(ScanOpens \/ ScanReleases)
  /\ \A u \in Users : WF_vars(Serve(u))

-----------------------------------------------------------------------------
(* Properties.                                                             *)

Tasks == [at : {"idle", "queued", "next", "copy", "io_fail", "BUG"},
          iter : Nat, offset : Nat, nbytes : Nat, copied : Nat]

TypeOK ==
  /\ stage \in {"unloaded", "live", "oops"} \cup Loading \cup Unloading
  /\ ramd_size \in Nat /\ pow \in 0..Uint-1
  /\ ptr \subseteq Objects /\ heap \subseteq Objects
  /\ data = << >> \/ data \in [0..ramd_size-1 -> Users \cup {Blank}]
  /\ listed \in BOOLEAN
  /\ openers \in Int /\ holders \subseteq Openers
  /\ rq \in [Users -> {NoRequest} \cup [dir : Dirs, extent : Extents]]
  /\ task \in [Users -> Tasks]
  /\ page \in [Users -> Seq(Users \cup {Blank})]

(* Whoever has the device open, or waits for a request of it, finds all of *)
(* it there: struct ramd, its memory, its queue and its disk.  The memory  *)
(* is freed before the disk is deleted (ramd.c:269-281).                   *)
UsesLiveMemory ==
  holders # {} \/ (\E u \in Users : rq[u] # NoRequest) => heap = Objects

(* What was allocated is given back once, and all of it, whichever step of *)
(* loading failed (ramd.c:259-262, 267-295).  The one exception is a       *)
(* request queue that could not be made: its error pointer is taken for a  *)
(* queue (line 276).                                                       *)
FreedOnce ==
  /\ stage = "unloaded" => heap = {} /\ ~listed
  /\ stage = "oops" => "rq_queue" \in ptr \ heap

(* A request within the capacity the kernel was told of is within the      *)
(* memory, segment by segment, and is served to its end, so that the BUG   *)
(* of ramd.c:183 is not reached.                                           *)
RequestsFit == \A u \in Users : task[u].at \notin {"io_fail", "BUG"}

Powers == {TwoTo[n] : n \in MinPow..Uint}

(* The size of the disk is the least power of two, from the minimum on,    *)
(* that is not below the size asked for (ramd.c:70-79).                    *)
AlignsToPowerOfTwo ==
  [][stage = "align" /\ stage' = "kzalloc" =>
       /\ ramd_size' \in Powers
       /\ ramd_size <= ramd_size'
       /\ \A p \in Powers : ramd_size <= p => ramd_size' <= p]_vars

(* The count of openers is never above the number of those who have the    *)
(* device open.  It may be below: add_disk offers the device before the    *)
(* count is set to 0, so that who opens it in between is not counted, and  *)
(* the count goes below 0 when he releases it (ramd.c:238-239, against     *)
(* 39-41, "amount of virtual drive users at any point of time").           *)
OpenersNotOvercounted == stage = "live" => openers <= Cardinality(holders)

(* insmod and rmmod return.  ramd.c:81-82, "unsigned integer overflow is   *)
(* possible for huge numbers (>2^64) but the possible overflow itself      *)
(* doesn't seem harmful anyway in this case".                              *)
CallsReturn ==
  stage \in Loading \cup Unloading ~> stage \in {"live", "unloaded", "oops"}

(* Every request ends, whatever others are served at the same time         *)
(* (ramd.c:173-191).                                                       *)
RequestsEnd ==
  \A u \in Users : rq[u] # NoRequest ~> rq[u] = NoRequest

-----------------------------------------------------------------------------

request ==
  [u \in Users |->
     IF rq[u] = NoRequest THEN [dir |-> "none", first |-> 0, last |-> 0]
     ELSE [dir |-> rq[u].dir, first |-> First(rq[u]),
           last |-> First(rq[u]) + Total(rq[u])]]

Device == INSTANCE BlockDevice WITH
            Cells <- 0..Word-1, disk <- data, moved <- page

(* The driver is the block device it is meant to be: each request moves    *)
(* exactly its cells, to and from where it says, although requests come in *)
(* segments and overlap, and the memory goes only when nobody uses it      *)
(* (ramd.c:132-191, 267-274).                                              *)
ImplementsDevice == Device!Spec

=============================================================================
