--------------------------- MODULE RamdRefinement ---------------------------
(***************************************************************************)
(* The proof that RamdDriver implements BlockDevice: allocating the memory *)
(* makes the disk appear, a step of memcpy moves a cell, the end of a      *)
(* request completes it, freeing the memory makes the disk disappear, and  *)
(* every other step is a stutter.                                          *)
(***************************************************************************)
EXTENDS RamdProofs

NoneRequested == [dir |-> "none", first |-> 0, last |-> 0]

(* The request of a user as the device sees it.                            *)
LEMMA RequestOf ==
  ASSUME NEW u \in Users
  PROVE  /\ rq[u] = NoRequest => request[u] = NoneRequested
         /\ rq[u] # NoRequest =>
              /\ request[u] = [dir |-> rq[u].dir, first |-> First(rq[u]),
                               last |-> First(rq[u]) + Total(rq[u])]
              /\ request[u].dir = rq[u].dir
              /\ request[u].first = First(rq[u])
              /\ request[u].last = First(rq[u]) + Total(rq[u])
<1>1. /\ rq[u] = NoRequest => request[u] = NoneRequested
      /\ rq[u] # NoRequest =>
           request[u] = [dir |-> rq[u].dir, first |-> First(rq[u]),
                         last |-> First(rq[u]) + Total(rq[u])]
  BY DEF request, NoneRequested
<1>2. ASSUME NEW d, NEW f, NEW l,
             request[u] = [dir |-> d, first |-> f, last |-> l]
      PROVE  request[u].dir = d /\ request[u].first = f /\ request[u].last = l
  BY <1>2
<1> QED BY <1>1, <1>2

(* At first there is no disk and no request.                               *)
LEMMA InitDevice == Init => Device!Init
<1> SUFFICES ASSUME Init PROVE Device!Init
  OBVIOUS
<1>1. request = [u \in Users |-> NoneRequested]
  BY DEF Init, request, NoneRequested
<1> QED BY <1>1 DEF Init, Device!Init, Device!NoRequest, NoneRequested

(* A step that leaves the memory and the requests alone is a stutter.      *)
LEMMA DeviceStutters ==
  ASSUME UNCHANGED <<data, rq, page>>
  PROVE  UNCHANGED Device!vars
BY DEF Device!vars, request

(* Of the steps of loading, the allocation of the memory is seen.          *)
LEMMA SetupRefines ==
  ASSUME IInv, Setup
  PROVE  [Device!Next]_(Device!vars)
<1>1. UNCHANGED <<ramd_size, rq, page>> /\ request' = request
  BY DEF Setup, Allocate, AllocationFails, io, request
<1>2. CASE Allocate("vzalloc", "init_queue", {"data"})
  <2>1. /\ data = << >> /\ ramd_size \in Nat /\ ramd_size < Word
        /\ Word \in Nat
    BY <1>2, Width DEF IInv, TypeOK, DataInv, ObjectsInv, Allocate
  <2>2. data' = [c \in 0..ramd_size-1 |-> Blank]
    BY <1>2 DEF Allocate
  <2>3. 0..ramd_size-1 \in SUBSET (0..Word-1)
    BY <2>1
  <2>4. Device!Appear
    BY <1>1, <2>1, <2>2, <2>3 DEF Device!Appear
  <2> QED BY <2>4 DEF Device!Next
<1>3. CASE data' = data
  BY <1>1, <1>3, DeviceStutters
<1> QED BY <1>2, <1>3 DEF Setup, Allocate, AllocationFails

(* Of the steps of unloading, the release of the memory is seen.           *)
LEMMA DeallocateRefines ==
  ASSUME IInv, Deallocate
  PROVE  [Device!Next]_(Device!vars)
<1>1. stage \in Unloading /\ UNCHANGED io /\ (data' = data \/ data' = << >>)
  BY DEF Deallocate, Free, DelGendisk, Unloading
<1>2. \A u \in Users : rq[u] = NoRequest
  BY <1>1, NobodyThere DEF Unloading, Up
<1>3. \A u \in Users : request[u] = NoneRequested
  BY <1>2, RequestOf
<1>4. request' = request /\ page' = page
  BY <1>1 DEF io, request
<1>5. CASE data' = data
  BY <1>1, <1>5, DeviceStutters DEF io
<1>6. CASE data' = << >>
  BY <1>3, <1>4, <1>6
  DEF Device!Disappear, Device!Next, Device!NoRequest, NoneRequested
<1> QED BY <1>1, <1>5, <1>6

(* A request asks for cells that are on the disk.                          *)
LEMMA SubmitRefines ==
  ASSUME IInv, NEW u \in Users, Submit(u)
  PROVE  Device!Submit(u)
<1>1. PICK e \in Extents, d \in Dirs :
        /\ e.pos + e.nr <= Capacity
        /\ rq' = [rq EXCEPT ![u] = [dir |-> d, extent |-> e]]
  BY DEF Submit
<1>2. /\ u \in holders /\ rq[u] = NoRequest
      /\ UNCHANGED <<data, page>>
  BY DEF Submit
<1> DEFINE r == [dir |-> d, extent |-> e]
           first == First(r)
           total == Total(r)
<1>3. /\ rq' = [rq EXCEPT ![u] = r] /\ r # NoRequest /\ rq'[u] = r
      /\ r.dir = d /\ d \in {"READ", "WRITE"}
  BY <1>1 DEF IInv, TypeOK, NoRequest, Dirs
<1>4. /\ e.pos \in Nat /\ e.nr \in Nat \ {0} /\ ramd_size \in Nat
      /\ SectorSize \in Nat \ {0}
  BY RamdAssumption DEF IInv, TypeOK
<1>5. /\ first \in Nat /\ total \in Nat
      /\ first + total <= ramd_size
  BY <1>1, <1>4, CapacityFits DEF First, Total, Capacity
<1>6. total > 0
  <2>1. \A a, b \in Nat \ {0} : a * b > 0
    OBVIOUS
  <2> QED BY <1>4, <2>1 DEF Total
<1>7. DOMAIN data = 0..ramd_size-1
  BY <1>2, UnderWay
<1>8. request' = [request EXCEPT ![u] =
                    [dir |-> d, first |-> first, last |-> first + total]]
  BY <1>3 DEF request, IInv, TypeOK
<1>9. request[u] = NoneRequested
  BY <1>2, RequestOf
<1> HIDE DEF first, total
<1>10. /\ first \in DOMAIN data /\ first + total - 1 \in DOMAIN data
       /\ first <= first + total - 1
       /\ (first + total - 1) + 1 = first + total
  BY <1>4, <1>5, <1>6, <1>7
<1>11. \E end \in DOMAIN data :
         /\ first <= end
         /\ request' = [request EXCEPT ![u] =
                          [dir |-> d, first |-> first, last |-> end + 1]]
  BY <1>8, <1>10
<1> QED
  BY <1>2, <1>3, <1>9, <1>10, <1>11
  DEF Device!Submit, Device!NoRequest, NoneRequested

(* A step of memcpy moves the request's next cell, not another.            *)
LEMMA CopyRefines ==
  ASSUME IInv, NEW u \in Users, Copy(u)
  PROVE  Device!Move(u)
<1> DEFINE c == task[u].offset + task[u].copied
<1>1. /\ rq[u] # NoRequest /\ rq[u].dir \in Dirs
      /\ First(rq[u]) \in Nat /\ Total(rq[u]) \in Nat
      /\ Len(page[u]) \in Nat /\ Len(page[u]) < Total(rq[u])
      /\ c = First(rq[u]) + Len(page[u])
      /\ c \in 0..ramd_size-1
  BY CopyStep DEF IInv, TypeOK
<1>2. /\ request[u].dir = rq[u].dir
      /\ request[u].first = First(rq[u])
      /\ request[u].last = First(rq[u]) + Total(rq[u])
  BY <1>1, RequestOf
<1>3. request' = request
  BY DEF Copy, request
<1>4. data \in [0..ramd_size-1 -> Users \cup {Blank}]
  BY <1>1, UnderWay
<1>7. /\ c = request[u].first + Len(page[u])
      /\ c < request[u].last
      /\ request[u].dir = rq[u].dir
  BY <1>1, <1>2
<1> HIDE DEF c
<1>5. CASE rq[u].dir = "WRITE"
  <2>1. /\ data' = [data EXCEPT ![c] = u]
        /\ page' = [page EXCEPT ![u] = Append(page[u], u)]
    BY <1>5 DEF Copy, c
  <2> QED BY <1>3, <1>5, <1>7, <2>1 DEF Device!Move
<1>6. CASE rq[u].dir # "WRITE"
  <2>1. /\ data' = data
        /\ page' = [page EXCEPT ![u] = Append(page[u], data[c])]
    BY <1>6 DEF Copy, c
  <2>2. data' = [data EXCEPT ![c] = data[c]]
    BY <1>4, <2>1
  <2> QED BY <1>3, <1>6, <1>7, <2>1, <2>2 DEF Device!Move
<1> QED BY <1>5, <1>6

(* A request ends when all its cells have been moved.                      *)
LEMMA EndRefines ==
  ASSUME IInv, NEW u \in Users, EndRequest(u)
  PROVE  Device!Complete(u)
<1>1. /\ rq[u] \in [dir : Dirs, extent : Extents] /\ rq[u] # NoRequest
      /\ Len(page[u]) = Total(rq[u])
      /\ rq' = [rq EXCEPT ![u] = NoRequest]
      /\ page' = [page EXCEPT ![u] = << >>]
      /\ data' = data
  BY EndStep DEF EndRequest
<1>2. First(rq[u]) \in Nat /\ Total(rq[u]) \in Nat
  BY <1>1, ExtentTypes
<1>3. request[u] = [dir |-> rq[u].dir, first |-> First(rq[u]),
                    last |-> First(rq[u]) + Total(rq[u])]
  BY <1>1, RequestOf
<1>4. /\ request[u] # NoneRequested
      /\ Len(page[u]) = request[u].last - request[u].first
  <2>1. rq[u].dir # "none"
    BY <1>1 DEF Dirs
  <2>2. request[u] # NoneRequested
    BY <1>3, <2>1 DEF NoneRequested
  <2>3. \A a, b \in Nat : b = (a + b) - a
    OBVIOUS
  <2>4. /\ request[u].first = First(rq[u])
        /\ request[u].last = First(rq[u]) + Total(rq[u])
    BY <1>1, RequestOf
  <2> QED BY <1>1, <1>2, <2>2, <2>3, <2>4
<1>5. request' = [request EXCEPT ![u] = NoneRequested]
  BY <1>1 DEF request, NoneRequested, IInv, TypeOK
<1> QED
  BY <1>1, <1>4, <1>5 DEF Device!Complete, Device!NoRequest, NoneRequested

(* Every step is a step of the device or a stutter.                        *)
LEMMA StepDevice ==
  ASSUME IInv, [Next]_vars
  PROVE  [Device!Next]_(Device!vars)
<1>1. CASE Insmod \/ Align \/ Aligned \/ AddDisk \/ InitOpeners \/ Rmmod
           \/ Unregister \/ ScanOpens \/ ScanReleases
  <2>1. UNCHANGED data /\ UNCHANGED io
    BY <1>1
    DEF Insmod, Align, Aligned, AddDisk, InitOpeners, Rmmod, Unregister,
        ScanOpens, ScanReleases, Open, Release
  <2> QED BY <2>1, DeviceStutters DEF io
<1>2. CASE Setup
  BY <1>2, SetupRefines
<1>3. CASE Deallocate
  BY <1>3, DeallocateRefines
<1>4. ASSUME NEW u \in Users, User(u) \/ Serve(u)
      PROVE  [Device!Next]_(Device!vars)
  <2>1. CASE UserOpens(u) \/ UserReleases(u) \/ Dispatch(u) \/ NextSegment(u)
    BY <2>1, DeviceStutters
    DEF UserOpens, UserReleases, Open, Release, Dispatch, NextSegment, io
  <2>2. CASE Submit(u)
    BY <2>2, SubmitRefines DEF Device!Next
  <2>3. CASE Copy(u)
    BY <2>3, CopyRefines DEF Device!Next
  <2>4. CASE EndRequest(u)
    BY <2>4, EndRefines DEF Device!Next
  <2> QED BY <1>4, <2>1, <2>2, <2>3, <2>4 DEF User, Serve
<1>5. CASE Oops \/ UNCHANGED vars
  BY <1>5, DeviceStutters DEF Oops, vars, io
<1> QED BY <1>1, <1>2, <1>3, <1>4, <1>5 DEF Next, Driver

(* The driver implements the block device: requests that overlap, in       *)
(* segments, each move their own cells, and the memory is there as long as *)
(* anybody uses it (ramd.c:132-191, 267-281).                              *)
THEOREM DeviceImplemented == Spec => ImplementsDevice
<1>1. Init => Device!Init
  BY InitDevice
<1>2. IInv /\ [Next]_vars => [Device!Next]_(Device!vars)
  BY StepDevice
<1> QED
  BY <1>1, <1>2, Invariant, PTL DEF Spec, ImplementsDevice, Device!Spec

=============================================================================
