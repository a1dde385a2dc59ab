---------------------------- MODULE BlockDevice -----------------------------
(***************************************************************************)
(* What the RAM disk promises to those who use it, without memory to       *)
(* allocate, segments, offsets or a module to load.  A disk of cells       *)
(* appears with nothing written on it.  A user's request covers adjoining  *)
(* cells of the disk and moves their contents one after the other, so that *)
(* the requests of two users may overlap; it ends only when all of them    *)
(* have been moved, and the disk never goes away under a request.          *)
(***************************************************************************)
EXTENDS Integers, Sequences

CONSTANTS
  Users,    \* those who use the disk; a user writes its own name
  Cells,    \* the cells a disk may have
  Blank     \* what a cell holds at first

VARIABLES
  disk,     \* what each cell holds; no cells while there is no disk
  request,  \* the request of each user: cells first to last-1
  moved     \* the contents it has moved so far

vars == <<disk, request, moved>>

NoRequest == [dir |-> "none", first |-> 0, last |-> 0]

Init ==
  /\ disk = << >>
  /\ request = [u \in Users |-> NoRequest]
  /\ moved = [u \in Users |-> << >>]

-----------------------------------------------------------------------------

Appear ==
  /\ disk = << >>
  /\ \E cells \in SUBSET Cells : disk' = [c \in cells |-> Blank]
  /\ UNCHANGED <<request, moved>>

Disappear ==
  /\ \A u \in Users : request[u] = NoRequest
  /\ disk' = << >>
  /\ UNCHANGED <<request, moved>>

Submit(u) ==
  /\ request[u] = NoRequest
  /\ \E dir \in {"READ", "WRITE"}, first, end \in DOMAIN disk :
       /\ first <= end
       /\ request' = [request EXCEPT ![u] =
                        [dir |-> dir, first |-> first, last |-> end + 1]]
  /\ UNCHANGED <<disk, moved>>

Move(u) ==
  LET c == request[u].first + Len(moved[u])
      content == IF request[u].dir = "WRITE" THEN u ELSE disk[c]
  IN  /\ c < request[u].last
      /\ moved' = [moved EXCEPT ![u] = Append(@, content)]
      /\ disk' = [disk EXCEPT ![c] = content]
      /\ UNCHANGED request

Complete(u) ==
  /\ request[u] # NoRequest
  /\ Len(moved[u]) = request[u].last - request[u].first
  /\ request' = [request EXCEPT ![u] = NoRequest]
  /\ moved' = [moved EXCEPT ![u] = << >>]
  /\ UNCHANGED disk

Next ==
  \/ Appear
  \/ Disappear
  \/ \E u \in Users : Submit(u) \/ Move(u) \/ Complete(u)

Spec == Init /\ [][Next]_vars

=============================================================================
