----------------------------- MODULE RamdProofs -----------------------------
(***************************************************************************)
(* Theorems about RamdDriver, for any number of users, any width of the    *)
(* machine's integers, any size of a sector and any requests: nobody uses  *)
(* memory that is not there, what was allocated is given back once, every  *)
(* request fits and comes nearer to its end, the disk has the size that is *)
(* meant, and insmod and rmmod return unless that size is too large.       *)
(***************************************************************************)
EXTENDS RamdDriver, FiniteSetTheorems, WellFoundedInduction, TLAPS

(* The stages in which the disk is there for others.                       *)
Up == {"scan", "scanning", "scanned", "live"}

Reserved == Up \cup {"add_disk"}

(* Those in which nothing is allocated yet, or all is given back.          *)
Bare == {"unloaded", "align", "kzalloc", "unregister"}

(* What may exist before each step of deallocate_dev_resources.            *)
Left ==
  [s \in Unloading |->
     CASE s = "vfree" -> Objects
       [] s \in {"del_gendisk", "cleanup_queue"} -> Objects \ {"data"}
       [] s = "free_tags" -> Objects \ {"data", "rq_queue"}
       [] s = "put_disk" -> {"gd", "ramd_dev"}
       [] s \in {"vfree_again", "kfree"} -> {"ramd_dev"}
       [] s = "unregister" -> {}]

(* While loading, pointers and objects agree and grow step by step; while  *)
(* unloading they shrink, and only the queue's pointer may name nothing.   *)
ObjectsInv ==
  /\ stage \in Bare => heap = {} /\ ptr = {}
  /\ stage = "vzalloc" => heap = {"ramd_dev"} /\ ptr = heap
  /\ stage = "init_queue" => heap = {"ramd_dev", "data"} /\ ptr = heap
  /\ stage = "alloc_disk" => heap = Objects \ {"gd"} /\ ptr = heap
  /\ stage \in Reserved => heap = Objects /\ ptr = heap
  /\ stage \in Unloading =>
       heap \subseteq ptr /\ ptr \ heap \subseteq {"rq_queue"}
         /\ ptr \subseteq Left[stage]
  /\ stage = "oops" => "rq_queue" \in ptr \ heap /\ ~listed

(* The disk is offered only once it is complete, and until it is deleted.  *)
ListedInv ==
  listed => /\ stage \in Up \cup {"vfree", "del_gendisk"}
            /\ "gd" \in ptr

(* The memory of the disk has its size, which fits an unsigned long.       *)
DataInv ==
  /\ "data" \notin heap => data = << >>
  /\ "data" \in heap => /\ data \in [0..ramd_size-1 -> Users \cup {Blank}]
                        /\ ramd_size < Word
  /\ stage \in {"kzalloc", "vzalloc"} => ramd_size < Word

(* Only who has the device open makes requests, and only while it is up.   *)
HoldersInv ==
  /\ holders # {} => stage \in Up
  /\ \A u \in Users : rq[u] # NoRequest => u \in holders

(* How far a request has got: the iterator, the offset and the count of    *)
(* bytes go together, and stay within the memory.                          *)
Serving(u) ==
  /\ First(rq[u]) + Total(rq[u]) <= ramd_size
  /\ task[u].iter <= Total(rq[u])
  /\ task[u].nbytes = task[u].iter
  /\ task[u].at \in {"next", "copy"} =>
       task[u].offset = First(rq[u]) + task[u].iter
  /\ task[u].at # "copy" => task[u].copied = 0
  /\ task[u].at = "queued" => task[u].iter = 0
  /\ task[u].at = "copy" => /\ task[u].iter < Total(rq[u])
                            /\ task[u].copied < DataLen(u)
  /\ Len(page[u]) = task[u].iter + task[u].copied

TaskInv ==
  \A u \in Users :
    /\ rq[u] = NoRequest => task[u] = Resting /\ page[u] = << >>
    /\ rq[u] # NoRequest => /\ task[u].at \in {"queued", "next", "copy"}
                            /\ Serving(u)

(* The inductive invariant.                                                *)
IInv ==
  /\ TypeOK
  /\ ObjectsInv
  /\ ListedInv
  /\ DataInv
  /\ HoldersInv
  /\ TaskInv

-----------------------------------------------------------------------------
(* Arithmetic.                                                             *)

(* A request within the capacity is within the memory.                     *)
LEMMA CapacityFits ==
  ASSUME NEW size \in Nat, NEW pos \in Nat, NEW nr \in Nat,
         pos + nr <= size \div SectorSize
  PROVE  /\ pos * SectorSize \in Nat /\ nr * SectorSize \in Nat
         /\ pos * SectorSize + nr * SectorSize <= size
<1> DEFINE q == size \div SectorSize
<1>1. SectorSize \in Nat \ {0}
  BY RamdAssumption
<1>2. q \in Int /\ q * SectorSize <= size
  BY <1>1
<1>3. pos + nr <= q
  OBVIOUS
<1> HIDE DEF q
<1>4. q \in Nat
  BY <1>2, <1>3
<1>5. /\ \A a, b, k \in Nat : a <= b => a * k <= b * k
      /\ \A k \in Nat : (pos + nr) * k = pos * k + nr * k
      /\ \A k \in Nat : pos * k \in Nat /\ nr * k \in Nat
  OBVIOUS
<1>6. (pos + nr) * SectorSize <= q * SectorSize
  BY <1>1, <1>3, <1>4, <1>5
<1> QED BY <1>1, <1>2, <1>5, <1>6

(* Every set of natural numbers that is not empty has a least element.     *)
LEMMA LeastNatural ==
  ASSUME NEW T, T \subseteq Nat, T # {}
  PROVE  \E m \in T : \A n \in T : m <= n
<1> DEFINE less == {pair \in Nat \X Nat : pair[1] < pair[2]}
<1>1. IsWellFoundedOn(less, Nat)
  BY NatLessThanWellFounded DEF OpToRel
<1>2. \A m, n \in Nat : n < m => <<n, m>> \in less
  OBVIOUS
<1> HIDE DEF less
<1>3. \E m \in T : \A n \in T : ~ (<<n, m>> \in less)
  BY <1>1, WFMin, Zenon
<1>4. PICK m \in T : \A n \in T : ~ (<<n, m>> \in less)
  BY <1>3
<1>5. ASSUME NEW n \in T PROVE m <= n
  <2>1. m \in Nat /\ n \in Nat /\ ~ (n < m)
    BY <1>2, <1>4
  <2> QED BY <2>1
<1> QED BY <1>5

(* Induction over a set of numbers.                                        *)
LEMMA SetInduction ==
  ASSUME NEW T, T \subseteq Nat, 0 \in T, \A n \in T : n + 1 \in T
  PROVE  T = Nat
<1> SUFFICES ASSUME Nat \ T # {} PROVE FALSE
  OBVIOUS
<1>1. PICK m \in Nat \ T : \A n \in Nat \ T : m <= n
  BY LeastNatural
<1>2. m - 1 \in T /\ m = (m - 1) + 1
  BY <1>1
<1> QED BY <1>1, <1>2

(* What has been computed of a recursion over 0..n that begins with first. *)
Computed(g, n, first, next) ==
  g[0] = first /\ \A i \in 1..n : g[i] = next[g[i - 1]]

(* A recursion over the numbers defines a function: what has been computed *)
(* up to n exists for each n, any two such agree, and together they make   *)
(* the function.                                                           *)
LEMMA Recursion ==
  ASSUME NEW S, NEW first \in S, NEW next \in [S -> S]
  PROVE  \E f \in [Nat -> S] :
           f = [i \in Nat |-> IF i = 0 THEN first ELSE next[f[i - 1]]]
<1> DEFINE Part(n) == {g \in [0..n -> S] : Computed(g, n, first, next)}
<1>1. \A n \in Nat : Part(n) # {}
  <2> DEFINE T == {n \in Nat : Part(n) # {}}
  <2>1. 0 \in T
    <3>1. [i \in 0..0 |-> first] \in Part(0)
      BY DEF Computed
    <3> QED BY <3>1
  <2>2. ASSUME NEW n \in T PROVE n + 1 \in T
    <3>1. PICK g \in Part(n) : TRUE
      BY <2>2
    <3> DEFINE h == [i \in 0..n+1 |-> IF i = n + 1 THEN next[g[n]] ELSE g[i]]
    <3>2. n \in Nat /\ g \in [0..n -> S] /\ Computed(g, n, first, next)
      BY <3>1
    <3>3. h \in [0..n+1 -> S]
      BY <3>2
    <3>4. Computed(h, n + 1, first, next)
      BY <3>2 DEF Computed
    <3> HIDE DEF h
    <3>5. h \in Part(n + 1) /\ n + 1 \in Nat
      BY <3>2, <3>3, <3>4
    <3> QED BY <3>5
  <2>3. T \subseteq Nat
    OBVIOUS
  <2> HIDE DEF T
  <2>4. T = Nat
    BY <2>1, <2>2, <2>3, SetInduction
  <2> QED BY <2>4 DEF T
<1>2. ASSUME NEW m \in Nat, NEW n \in Nat, NEW g \in Part(m), NEW h \in Part(n)
      PROVE  \A i \in Nat : i <= m /\ i <= n => g[i] = h[i]
  <2> DEFINE T == {i \in Nat : i <= m /\ i <= n => g[i] = h[i]}
  <2>1. 0 \in T
    BY DEF Computed
  <2>2. ASSUME NEW i \in T PROVE i + 1 \in T
    <3> SUFFICES ASSUME i + 1 <= m, i + 1 <= n PROVE g[i + 1] = h[i + 1]
      OBVIOUS
    <3>1. g[i + 1] = next[g[i]] /\ h[i + 1] = next[h[i]]
      <4>1. i + 1 \in 1..m /\ i + 1 \in 1..n /\ (i + 1) - 1 = i
        OBVIOUS
      <4> QED BY <4>1 DEF Computed
    <3> QED BY <3>1
  <2>3. T \subseteq Nat
    OBVIOUS
  <2> HIDE DEF T
  <2>4. T = Nat
    BY <2>1, <2>2, <2>3, SetInduction
  <2> QED BY <2>4 DEF T
<1> DEFINE f == [n \in Nat |-> (CHOOSE g \in Part(n) : TRUE)[n]]
<1>3. ASSUME NEW n \in Nat
      PROVE  f[n] \in S /\ f[n] = IF n = 0 THEN first ELSE next[f[n - 1]]
  <2> DEFINE g == CHOOSE p \in Part(n) : TRUE
  <2>1. g \in Part(n) /\ f[n] = g[n]
    BY <1>1
  <2>2. g \in [0..n -> S] /\ Computed(g, n, first, next)
    BY <2>1
  <2>3. CASE n = 0
    BY <2>1, <2>2, <2>3 DEF Computed
  <2>4. CASE n # 0
    <3> DEFINE h == CHOOSE p \in Part(n - 1) : TRUE
    <3>1. n - 1 \in Nat /\ n \in 1..n /\ n - 1 <= n
      BY <2>4
    <3>2. h \in Part(n - 1) /\ f[n - 1] = h[n - 1]
      BY <1>1, <3>1
    <3> HIDE DEF f, g, h
    <3>3. g[n - 1] = h[n - 1]
      BY <1>2, <2>1, <3>1, <3>2
    <3>4. g[n] = next[g[n - 1]]
      BY <2>2, <3>1 DEF Computed
    <3>5. g[n] \in S
      BY <2>2, <3>1
    <3> QED BY <2>1, <2>4, <3>2, <3>3, <3>4, <3>5
  <2> QED BY <2>3, <2>4
<1>4. f \in [Nat -> S]
  <2>1. \A n \in Nat : f[n] \in S
    BY <1>3
  <2> QED BY <2>1
<1>5. f = [i \in Nat |-> IF i = 0 THEN first ELSE next[f[i - 1]]]
  <2>1. \A n \in Nat : f[n] = IF n = 0 THEN first ELSE next[f[n - 1]]
    BY <1>3
  <2>2. DOMAIN f = Nat
    OBVIOUS
  <2> HIDE DEF f
  <2> QED BY <1>4, <2>1
<1> HIDE DEF f
<1> QED BY <1>4, <1>5

(* TwoTo is the function that its recursion describes.                     *)
LEMMA TwoToDef ==
  /\ TwoTo \in [Nat -> Nat]
  /\ TwoTo[0] = 1
  /\ \A n \in Nat : TwoTo[n + 1] = 2 * TwoTo[n]
<1> DEFINE next == [x \in Nat |-> 2 * x]
           IsTwoTo(f) == f = [i \in Nat |-> IF i = 0 THEN 1 ELSE 2 * f[i - 1]]
<1>1. next \in [Nat -> Nat] /\ \A x \in Nat : next[x] = 2 * x
  OBVIOUS
<1>2. PICK f \in [Nat -> Nat] :
        f = [i \in Nat |-> IF i = 0 THEN 1 ELSE next[f[i - 1]]]
  <2> HIDE DEF next
  <2>1. 1 \in Nat /\ next \in [Nat -> Nat]
    BY <1>1
  <2>2. \A S : \A first \in S, s \in [S -> S] :
          \E f \in [Nat -> S] :
            f = [i \in Nat |-> IF i = 0 THEN first ELSE s[f[i - 1]]]
    BY Recursion
  <2>3. \A first \in Nat, s \in [Nat -> Nat] :
          \E f \in [Nat -> Nat] :
            f = [i \in Nat |-> IF i = 0 THEN first ELSE s[f[i - 1]]]
    BY <2>2, Zenon
  <2> QED BY <2>1, <2>3, Zenon
<1>3. \A i \in Nat : i # 0 => next[f[i - 1]] = 2 * f[i - 1]
  <2> HIDE DEF next
  <2>1. \A i \in Nat : i # 0 => i - 1 \in Nat
    OBVIOUS
  <2>2. \A i \in Nat : f[i] \in Nat
    OBVIOUS
  <2> QED BY <1>1, <2>1, <2>2
<1> HIDE DEF next
<1>4. IsTwoTo(f)
  BY <1>2, <1>3
<1>5. TwoTo = CHOOSE g : IsTwoTo(g)
  BY DEF TwoTo
<1> HIDE DEF IsTwoTo
<1>6. IsTwoTo(TwoTo)
  BY <1>4, <1>5
<1> USE DEF IsTwoTo
<1>7. /\ TwoTo[0] = 1
      /\ \A n \in Nat : TwoTo[n + 1] = 2 * TwoTo[n]
  BY <1>6
<1>8. TwoTo \in [Nat -> Nat]
  <2> DEFINE T == {n \in Nat : TwoTo[n] \in Nat}
  <2>1. 0 \in T /\ \A n \in T : n + 1 \in T
    BY <1>7
  <2> HIDE DEF T
  <2>2. T = Nat
    BY <2>1, SetInduction DEF T
  <2>3. \A n \in Nat : TwoTo[n] \in Nat
    BY <2>2 DEF T
  <2> QED BY <1>6, <2>3
<1> QED BY <1>7, <1>8

(* A greater exponent at least doubles the power.                          *)
LEMMA TwoToGrows ==
  \A m, n \in Nat : m < n => 2 * TwoTo[m] <= TwoTo[n]
<1>1. TwoTo \in [Nat -> Nat] /\ \A n \in Nat : TwoTo[n + 1] = 2 * TwoTo[n]
  BY TwoToDef
<1> SUFFICES ASSUME NEW m \in Nat
             PROVE  \A n \in Nat : m < n => 2 * TwoTo[m] <= TwoTo[n]
  OBVIOUS
<1> DEFINE T == {n \in Nat : m < n => 2 * TwoTo[m] <= TwoTo[n]}
<1>2. 0 \in T
  OBVIOUS
<1>3. ASSUME NEW n \in T PROVE n + 1 \in T
  <2>1. /\ TwoTo[n + 1] = 2 * TwoTo[n] /\ TwoTo[n] \in Nat
        /\ TwoTo[m] \in Nat
        /\ m < n => 2 * TwoTo[m] <= TwoTo[n]
    BY <1>1
  <2> QED BY <2>1
<1> HIDE DEF T
<1>4. T = Nat
  BY <1>2, <1>3, SetInduction DEF T
<1> QED BY <1>4 DEF T

(* An unsigned long has Word = 2 ^ bits values, more than the smallest     *)
(* disk has cells; an unsigned can count the bits.                         *)
LEMMA Width ==
  /\ Word \in Nat \ {0} /\ Uint \in Nat \ {0} /\ MinPow \in 0..Uint-1
  /\ TwoTo \in [Nat -> Nat]
  /\ \E bits \in Nat :
       MinPow < bits /\ bits <= Uint /\ Word = TwoTo[bits]
<1>1. PICK bits \in MinPow+1..Uint : Word = TwoTo[bits]
  BY RamdAssumption
<1>2. Uint \in Nat /\ MinPow \in Nat
  BY RamdAssumption
<1>3. bits \in Nat /\ 0 < bits /\ MinPow < bits /\ bits <= Uint
  BY <1>2
<1>4. TwoTo[0] = 1 /\ TwoTo \in [Nat -> Nat] /\ 2 * TwoTo[0] <= TwoTo[bits]
  BY <1>3, TwoToDef, TwoToGrows
<1>5. Word \in Nat \ {0} /\ Uint \in Nat \ {0} /\ MinPow \in 0..Uint-1
  BY <1>1, <1>2, <1>3, <1>4
<1> QED BY <1>1, <1>3, <1>4, <1>5

(* The rounds of the loop of ulong_pow (ramd.c:83-93).                     *)
LEMMA UlongPowDef ==
  /\ ulong_pow(2, 0) = 1
  /\ \A n \in Nat : ulong_pow(2, n + 1) = (ulong_pow(2, n) * 2) % Word
<1> DEFINE next == [x \in Nat |-> (x * 2) % Word]
           IsPow(f) ==
             f = [i \in Nat |-> IF i = 0 THEN 1 ELSE (f[i - 1] * 2) % Word]
           power == CHOOSE f : IsPow(f)
<1>1. next \in [Nat -> Nat] /\ \A x \in Nat : next[x] = (x * 2) % Word
  <2>1. Word \in Nat \ {0}
    BY Width
  <2> QED BY <2>1
<1>2. PICK f \in [Nat -> Nat] :
        f = [i \in Nat |-> IF i = 0 THEN 1 ELSE next[f[i - 1]]]
  <2> HIDE DEF next
  <2>1. 1 \in Nat /\ next \in [Nat -> Nat]
    BY <1>1
  <2>2. \A first \in Nat, s \in [Nat -> Nat] :
          \E g \in [Nat -> Nat] :
            g = [i \in Nat |-> IF i = 0 THEN first ELSE s[g[i - 1]]]
    BY Recursion, Zenon
  <2> QED BY <2>1, <2>2, Zenon
<1>3. \A i \in Nat : i # 0 => next[f[i - 1]] = (f[i - 1] * 2) % Word
  <2> HIDE DEF next
  <2>1. \A i \in Nat : i # 0 => i - 1 \in Nat
    OBVIOUS
  <2>2. \A i \in Nat : f[i] \in Nat
    OBVIOUS
  <2> QED BY <1>1, <2>1, <2>2
<1> HIDE DEF next
<1>4. IsPow(f)
  BY <1>2, <1>3
<1>5. \A n : ulong_pow(2, n) = power[n]
  BY DEF ulong_pow
<1> HIDE DEF IsPow
<1>6. IsPow(power)
  BY <1>4
<1> USE DEF IsPow
<1> HIDE DEF power
<1>7. /\ power[0] = 1
      /\ \A n \in Nat : power[n + 1] = (power[n] * 2) % Word
  BY <1>6
<1> QED BY <1>5, <1>7

(* As long as it fits, ulong_pow is the power of two; then it is 0.        *)
LEMMA UlongPow ==
  ASSUME NEW bits \in Nat, Word = TwoTo[bits], NEW n \in Nat
  PROVE  /\ n < bits => /\ ulong_pow(2, n) = TwoTo[n]
                        /\ 2 * TwoTo[n] <= Word
         /\ n >= bits /\ bits > 0 => ulong_pow(2, n) = 0
<1>1. /\ TwoTo \in [Nat -> Nat] /\ TwoTo[0] = 1
      /\ \A k \in Nat : TwoTo[k + 1] = 2 * TwoTo[k]
      /\ \A k \in Nat : k < bits => 2 * TwoTo[k] <= Word
  BY TwoToDef, TwoToGrows
<1>2. Word \in Nat \ {0}
  BY Width
<1>3. /\ \A x \in Nat : x < Word => x % Word = x
      /\ Word % Word = 0
  BY <1>2
<1> DEFINE T == {k \in Nat : /\ k < bits => ulong_pow(2, k) = TwoTo[k]
                             /\ k >= bits /\ bits > 0 => ulong_pow(2, k) = 0}
<1>4. 0 \in T
  BY <1>1, UlongPowDef
<1>5. ASSUME NEW k \in T PROVE k + 1 \in T
  <2>1. /\ ulong_pow(2, k + 1) = (ulong_pow(2, k) * 2) % Word
        /\ TwoTo[k] \in Nat /\ TwoTo[k + 1] = 2 * TwoTo[k]
    BY <1>1, UlongPowDef
  <2>2. CASE k + 1 < bits
    <3>1. 2 * TwoTo[k] < Word
      BY <1>1, <1>2, <2>1, <2>2
    <3> QED BY <1>3, <2>1, <2>2, <3>1
  <2>3. CASE k + 1 = bits
    BY <1>3, <2>1, <2>3
  <2>4. CASE k >= bits
    BY <1>2, <1>3, <2>1, <2>4
  <2> QED BY <2>2, <2>3, <2>4
<1> HIDE DEF T
<1>6. T = Nat
  BY <1>4, <1>5, SetInduction DEF T
<1> QED BY <1>1, <1>6 DEF T

(* What align_disk_size computes fits an unsigned long.                    *)
LEMMA PowerFits == \A n \in Nat : ulong_pow(2, n) \in 0..Word-1
<1>1. PICK bits \in Nat : MinPow < bits /\ Word = TwoTo[bits]
  BY Width
<1>2. bits > 0 /\ Word \in Nat \ {0}
  BY <1>1, Width
<1> SUFFICES ASSUME NEW n \in Nat PROVE ulong_pow(2, n) \in 0..Word-1
  OBVIOUS
<1>3. CASE n < bits
  <2>1. /\ ulong_pow(2, n) = TwoTo[n] /\ 2 * TwoTo[n] <= Word
        /\ TwoTo[n] \in Nat
    BY <1>1, <1>2, <1>3, UlongPow, TwoToDef
  <2> QED BY <1>2, <2>1
<1>4. CASE n >= bits
  BY <1>1, <1>2, <1>4, UlongPow
<1> QED BY <1>2, <1>3, <1>4

(* The size asked for, cut to the width of an unsigned long, is a number.  *)
LEMMA ScaledType == \A p \in Params : Scaled(p) \in Nat
BY RamdAssumption, Width DEF Scaled

(* Where a request begins and how long it is.                              *)
LEMMA ExtentTypes ==
  ASSUME NEW r \in [dir : Dirs, extent : Extents]
  PROVE  /\ First(r) \in Nat /\ Total(r) \in Nat
         /\ \A n \in Nat : n < Total(r) => r.extent.ends[n] \in n+1..Total(r)
<1>1. /\ SectorSize \in Nat
      /\ r.extent.pos \in Nat /\ r.extent.nr \in Nat
      /\ \A c \in 0..r.extent.nr * SectorSize - 1 :
           r.extent.ends[c] \in c+1..r.extent.nr * SectorSize
  BY RamdAssumption
<1>2. \A a, b \in Nat : a * b \in Nat
  OBVIOUS
<1>3. r.extent.pos * SectorSize \in Nat /\ r.extent.nr * SectorSize \in Nat
  BY <1>1, <1>2
<1> QED BY <1>1, <1>3 DEF First, Total

-----------------------------------------------------------------------------
(* The invariant is inductive.                                             *)

(* The invariant holds before the module is first loaded.                  *)
LEMMA InitIInv == Init => IInv
<1> SUFFICES ASSUME Init PROVE IInv
  OBVIOUS
<1>1. Resting \in Tasks /\ << >> \in Seq(Users \cup {Blank})
  BY DEF Resting, Tasks
<1>2. TypeOK
  <2>1. /\ ramd_size \in Nat /\ pow \in 0..Uint-1
        /\ rq \in [Users -> {NoRequest} \cup [dir : Dirs, extent : Extents]]
        /\ task \in [Users -> Tasks]
    BY <1>1, RamdAssumption DEF Init
  <2>2. page \in [Users -> Seq(Users \cup {Blank})]
    BY <1>1 DEF Init
  <2>3. /\ stage \in {"unloaded", "live", "oops"} \cup Loading \cup Unloading
        /\ ptr \subseteq Objects /\ heap \subseteq Objects
        /\ data = << >>
        /\ openers \in Int /\ holders \subseteq Openers
    BY DEF Init
  <2>4. listed \in BOOLEAN
    BY DEF Init
  <2> QED BY <2>1, <2>2, <2>3, <2>4 DEF TypeOK
<1>3. ObjectsInv /\ ListedInv /\ DataInv
  BY DEF Init, ObjectsInv, ListedInv, DataInv, Bare, Reserved, Up, Unloading
<1>4. HoldersInv /\ TaskInv
  BY DEF Init, HoldersInv, TaskInv
<1> QED BY <1>2, <1>3, <1>4 DEF IInv

(* What TaskInv speaks of does not change.                                 *)
LEMMA TaskUnchanged ==
  ASSUME TaskInv, UNCHANGED io, UNCHANGED ramd_size
  PROVE  TaskInv'
BY DEF TaskInv, Serving, DataLen, io

(* Nobody has the device open or makes a request while it is not up.       *)
LEMMA NobodyThere ==
  ASSUME IInv, stage \notin Up
  PROVE  holders = {} /\ \A u \in Users : rq[u] = NoRequest
BY DEF IInv, HoldersInv

(* Without requests there is nothing that TaskInv asks of the memory.      *)
LEMMA TaskVacuous ==
  ASSUME TaskInv, UNCHANGED io, \A u \in Users : rq[u] = NoRequest
  PROVE  TaskInv'
BY DEF TaskInv, io

(* insmod and the loop of align_disk_size.                                 *)
LEMMA LoadIInv ==
  ASSUME IInv, Insmod \/ Align \/ Aligned
  PROVE  IInv'
<1> USE DEF IInv
<1>1. stage \in Bare /\ stage \notin Up
  BY DEF Insmod, Align, Aligned, Bare, Up
<1>2. heap = {} /\ ptr = {} /\ ~listed /\ data = << >>
  BY <1>1 DEF ObjectsInv, ListedInv, DataInv, Bare, Up
<1>3. holders = {} /\ \A u \in Users : rq[u] = NoRequest
  BY <1>1, NobodyThere
<1>4. UNCHANGED <<memory, data, listed, users, io>>
  BY DEF Insmod, Align, Aligned
<1>5. TaskInv'
  BY <1>3, <1>4, TaskVacuous
<1>6. /\ stage' \in {"align", "kzalloc"}
      /\ ramd_size' \in Nat /\ pow' \in 0..Uint-1
      /\ (stage' = "kzalloc" => ramd_size' < Word)
  <2>1. CASE Insmod
    BY <2>1, ScaledType, Width DEF Insmod
  <2>2. CASE Align
    BY <2>2, Width DEF Align, TypeOK
  <2>3. CASE Aligned
    BY <2>3, PowerFits, Width DEF Aligned, TypeOK
  <2> QED BY <2>1, <2>2, <2>3
<1>7. TypeOK'
  BY <1>2, <1>4, <1>6 DEF TypeOK, Loading, memory, users, io
<1>8. ObjectsInv' /\ ListedInv' /\ DataInv' /\ HoldersInv'
  BY <1>2, <1>3, <1>4, <1>6
  DEF ObjectsInv, ListedInv, DataInv, HoldersInv, Bare, Up, Reserved,
      Unloading, memory, users, io
<1> QED BY <1>5, <1>7, <1>8

(* The allocations, and their failures.                                    *)
LEMMA AllocateIInv ==
  ASSUME IInv, Setup
  PROVE  IInv'
<1> USE DEF IInv
<1>1. stage \in {"kzalloc", "vzalloc", "init_queue", "alloc_disk"}
  BY DEF Setup, Allocate, AllocationFails
<1>2. ~listed
  BY <1>1 DEF ListedInv, Up
<1>3. holders = {} /\ \A u \in Users : rq[u] = NoRequest
  BY <1>1, NobodyThere DEF Up
<1>4. UNCHANGED <<ramd_size, pow, listed, users, io>>
  BY DEF Setup, Allocate, AllocationFails
<1>5. TaskInv'
  BY <1>3, <1>4, TaskVacuous
<1>6. HoldersInv'
  BY <1>3, <1>4 DEF HoldersInv, users, io
<1>7. ListedInv'
  BY <1>2, <1>4 DEF ListedInv
<1>8. TypeOK' /\ ObjectsInv' /\ DataInv'
  <2> USE <1>4 DEF TypeOK, ObjectsInv, DataInv, Bare, Up, Reserved, Objects,
                   users, io
  <2>1. CASE Allocate("kzalloc", "vzalloc", {"ramd_dev"})
    BY <2>1 DEF Allocate, Loading, Unloading
  <2>2. CASE Allocate("vzalloc", "init_queue", {"data"})
    BY <2>2 DEF Allocate, Loading, Unloading
  <2>3. CASE Allocate("init_queue", "alloc_disk", {"rq_queue", "tags"})
    BY <2>3 DEF Allocate, Loading, Unloading
  <2>4. CASE Allocate("alloc_disk", "add_disk", {"gd"})
    BY <2>4 DEF Allocate, Loading, Unloading
  <2>5. CASE \E from \in {"kzalloc", "vzalloc", "init_queue", "alloc_disk"} :
               AllocationFails(from)
    BY <2>5, <1>2 DEF AllocationFails, Loading, Unloading, Left
  <2> QED BY <2>1, <2>2, <2>3, <2>4, <2>5 DEF Setup
<1> QED BY <1>5, <1>6, <1>7, <1>8

(* Offering the disk, the end of loading, removal.                         *)
LEMMA DiskIInv ==
  ASSUME IInv, AddDisk \/ InitOpeners \/ Rmmod \/ DelGendisk \/ Unregister
  PROVE  IInv'
<1> USE DEF IInv
<1>1. CASE AddDisk \/ InitOpeners \/ Rmmod
  <2>1. /\ UNCHANGED <<ramd_size, pow, memory, data, holders, io>>
        /\ stage \in Reserved /\ openers' \in Int
        /\ \/ stage' \in Up
           \/ stage' = "vfree" /\ holders = {} /\ stage = "live"
        /\ stage' # "vfree" => stage # "live"
        /\ listed' \in BOOLEAN
    <3>1. CASE AddDisk
      BY <3>1 DEF AddDisk, Reserved, Up, TypeOK, users
    <3>2. CASE InitOpeners
      BY <3>2 DEF InitOpeners, Reserved, Up, TypeOK, users
    <3>3. CASE Rmmod
      BY <3>3 DEF Rmmod, Reserved, Up, TypeOK, users
    <3> QED BY <1>1, <3>1, <3>2, <3>3
  <2>2. TaskInv'
    BY <2>1, TaskUnchanged
  <2>3. TypeOK'
    BY <2>1 DEF TypeOK, Up, Loading, Unloading, memory, io
  <2>4. ObjectsInv'
    BY <2>1 DEF ObjectsInv, Bare, Up, Reserved, Unloading, Left, memory
  <2>5. ListedInv' /\ DataInv' /\ HoldersInv'
    BY <2>1
    DEF ListedInv, DataInv, HoldersInv, ObjectsInv, Up, Reserved, Objects,
        memory, io
  <2> QED BY <2>2, <2>3, <2>4, <2>5
<1>2. CASE DelGendisk \/ Unregister
  <2>1. /\ stage \in {"del_gendisk", "unregister"}
        /\ stage = "del_gendisk" =>
             stage' = "cleanup_queue" /\ ramd_size' = ramd_size
        /\ stage = "unregister" => stage' = "unloaded" /\ ramd_size' = GB
        /\ UNCHANGED <<pow, memory, data, users, io>>
        /\ ~listed' /\ listed' \in BOOLEAN
    <3>1. CASE DelGendisk
      BY <3>1 DEF DelGendisk, ListedInv, users
    <3>2. CASE Unregister
      BY <3>2 DEF Unregister, ListedInv, TypeOK, Up, users
    <3> QED BY <1>2, <3>1, <3>2
  <2>2. holders = {} /\ \A u \in Users : rq[u] = NoRequest
    BY <2>1, NobodyThere DEF Up
  <2>3. TaskInv'
    BY <2>1, <2>2, TaskVacuous
  <2>4. data = << >>
    BY <2>1 DEF ObjectsInv, DataInv, Unloading, Bare, Left
  <2>5. TypeOK'
    BY <2>1, <2>4, RamdAssumption
    DEF TypeOK, Loading, Unloading, memory, users, io
  <2>6. ObjectsInv'
    BY <2>1 DEF ObjectsInv, Bare, Up, Reserved, Unloading, Left, memory
  <2>7. ListedInv' /\ DataInv' /\ HoldersInv'
    BY <2>1, <2>2, <2>4, <2>6
    DEF ListedInv, DataInv, HoldersInv, ObjectsInv, Bare, Unloading, Left,
        users, io, memory
  <2> QED BY <2>3, <2>5, <2>6, <2>7
<1> QED BY <1>1, <1>2

(* Giving back object by object.                                           *)
LEMMA DeallocateIInv ==
  ASSUME IInv, Deallocate
  PROVE  IInv'
<1> USE DEF IInv
<1>1. CASE DelGendisk
  BY <1>1, DiskIInv
<1>2. ASSUME NEW from \in Unloading, NEW to \in Unloading,
             NEW o \in Objects, Free(from, to, o)
      PROVE  /\ holders = {} /\ \A u \in Users : rq[u] = NoRequest
             /\ stage = from /\ stage' \in {to, "oops"}
             /\ UNCHANGED <<ramd_size, pow, listed, holders, io>>
             /\ openers' \in Int
             /\ stage' = "oops" =>
                  /\ UNCHANGED <<memory, data>>
                  /\ o = "rq_queue" /\ "rq_queue" \in ptr \ heap
             /\ stage' = to => ptr' = ptr \ {o} /\ heap' = heap \ {o}
             /\ data' = data \/ data' = << >>
             /\ o = "data" /\ stage' = to => data' = << >>
             /\ o # "data" => data' = data
             /\ TaskInv' /\ HoldersInv'
  <2>1. holders = {} /\ \A u \in Users : rq[u] = NoRequest
    BY <1>2, NobodyThere DEF Free, Unloading, Up
  <2>2. /\ stage = from /\ stage' \in {to, "oops"}
        /\ UNCHANGED <<ramd_size, pow, listed, holders, io>>
        /\ openers' \in Int
    BY <1>2 DEF Free, TypeOK
  <2>3. stage' = "oops" =>
          /\ UNCHANGED <<memory, data>>
          /\ o = "rq_queue" /\ "rq_queue" \in ptr \ heap
    BY <1>2 DEF Free, Unloading, ObjectsInv
  <2>4. stage' = to => ptr' = ptr \ {o} /\ heap' = heap \ {o}
    BY <1>2 DEF Free, Unloading, ObjectsInv, memory
  <2>5. /\ data' = data \/ data' = << >>
        /\ o = "data" /\ stage' = to => data' = << >>
        /\ o # "data" => data' = data
    BY <1>2 DEF Free, ObjectsInv, DataInv, Unloading
  <2>6. TaskInv' /\ HoldersInv'
    BY <2>1, <2>2, TaskVacuous DEF HoldersInv, io
  <2> QED BY <2>1, <2>2, <2>3, <2>4, <2>5, <2>6
<1>3. ASSUME NEW from \in Unloading, NEW to \in Unloading,
             NEW o \in Objects, Free(from, to, o),
             Left[from] \ {o} \subseteq Left[to],
             from # "unregister", to # "vfree",
             from = "vfree" => to = "del_gendisk",
             from # "del_gendisk",
             to = "unregister" => Left[from] = {o},
             o = "data" \/ "data" \notin Left[from]
      PROVE  IInv'
  <2> USE <1>2, <1>3
  <2>1. TypeOK'
    BY DEF TypeOK, Loading, Unloading, memory, io
  <2>2. from # "vfree" => ~listed /\ ~listed'
    BY DEF ListedInv, Up, Unloading
  <2>6. stage' = "oops" => from # "vfree"
    BY DEF Left, Objects, Unloading
  <2>7. from = "vfree" => stage' = "del_gendisk" /\ ptr' = ptr \ {"data"}
    BY <2>6 DEF Left, Objects, Unloading
  <2>3. ListedInv'
    BY <2>2, <2>7 DEF ListedInv, Up
  <2>5. ObjectsInv'
    <3>1. CASE stage' = "oops"
      BY <3>1, <2>2, <2>6
      DEF ObjectsInv, Bare, Reserved, Up, Unloading, memory
    <3>2. CASE stage' = to
      <4>1. /\ heap \subseteq ptr /\ ptr \ heap \subseteq {"rq_queue"}
            /\ ptr \subseteq Left[from]
        BY DEF ObjectsInv
      <4>2. /\ heap' \subseteq ptr' /\ ptr' \ heap' \subseteq {"rq_queue"}
            /\ ptr' \subseteq Left[to]
            /\ to = "unregister" => ptr' = {} /\ heap' = {}
        BY <3>2, <4>1
      <4> QED BY <3>2, <4>2 DEF ObjectsInv, Bare, Reserved, Up, Unloading
    <3> QED BY <3>1, <3>2
  <2>4. DataInv'
    BY DEF DataInv, ObjectsInv, Unloading, memory
  <2> QED BY <2>1, <2>3, <2>4, <2>5
<1>4. CASE Free("vfree", "del_gendisk", "data")
  BY <1>4, <1>3 DEF Unloading, Left, Objects
<1>5. CASE Free("cleanup_queue", "free_tags", "rq_queue")
  BY <1>5, <1>3 DEF Unloading, Left, Objects
<1>6. CASE Free("free_tags", "put_disk", "tags")
  BY <1>6, <1>3 DEF Unloading, Left, Objects
<1>7. CASE Free("put_disk", "vfree_again", "gd")
  BY <1>7, <1>3 DEF Unloading, Left, Objects
<1>8. CASE Free("vfree_again", "kfree", "data")
  BY <1>8, <1>3 DEF Unloading, Left, Objects
<1>9. CASE Free("kfree", "unregister", "ramd_dev")
  BY <1>9, <1>3 DEF Unloading, Left, Objects
<1> QED
  BY <1>1, <1>4, <1>5, <1>6, <1>7, <1>8, <1>9 DEF Deallocate

(* Opening and releasing, by users and by the search for partitions.       *)
LEMMA OpenIInv ==
  ASSUME IInv,
         \/ ScanOpens \/ ScanReleases
         \/ \E u \in Users : UserOpens(u) \/ UserReleases(u)
  PROVE  IInv'
<1> USE DEF IInv
<1>1. PICK u \in Openers :
        /\ \/ Open(u) /\ stage' \in {stage, "scanning"}
           \/ /\ Release(u) /\ (u \in Users => rq[u] = NoRequest)
              /\ stage' \in {stage, "scanned"}
        /\ stage' # stage => stage \in {"scan", "scanning"}
  BY RamdAssumption
  DEF ScanOpens, ScanReleases, UserOpens, UserReleases, Openers
<1>2. /\ UNCHANGED <<ramd_size, pow, memory, data, listed, io>>
      /\ holders' \subseteq Openers /\ openers' \in Int
      /\ stage \in Up /\ stage' \in Up
      /\ \A v \in Users : v \in holders /\ rq[v] # NoRequest => v \in holders'
  <2>1. CASE Open(u)
    BY <1>1, <2>1 DEF Open, MayOpen, ListedInv, TypeOK, Up, Unloading
  <2>2. CASE Release(u)
    BY <1>1, <2>2 DEF Open, Release, HoldersInv, TypeOK, Up
  <2> QED BY <1>1, <2>1, <2>2
<1>3. TaskInv'
  BY <1>2, TaskUnchanged
<1>4. TypeOK'
  BY <1>2 DEF TypeOK, Loading, Up, memory, io
<1>5. ObjectsInv'
  BY <1>2 DEF ObjectsInv, Bare, Up, Reserved, Unloading, memory
<1>6. ListedInv' /\ DataInv' /\ HoldersInv'
  BY <1>2
  DEF ListedInv, DataInv, HoldersInv, ObjectsInv, Up, Reserved, Objects,
      memory, io
<1> QED BY <1>3, <1>4, <1>5, <1>6

(* A step that serves a request of one user leaves the rest alone.         *)
LEMMA ServingStep ==
  ASSUME IInv, NEW u \in Users,
         UNCHANGED <<module, memory, listed, users>>,
         rq' \in [Users -> {NoRequest} \cup [dir : Dirs, extent : Extents]],
         task' \in [Users -> Tasks],
         page' \in [Users -> Seq(Users \cup {Blank})],
         "data" \in heap,
         data' \in [0..ramd_size-1 -> Users \cup {Blank}],
         \A v \in Users \ {u} :
           rq'[v] = rq[v] /\ task'[v] = task[v] /\ page'[v] = page[v],
         rq'[u] # NoRequest => u \in holders,
         rq'[u] = NoRequest => task'[u] = Resting /\ page'[u] = << >>,
         rq'[u] # NoRequest =>
           task'[u].at \in {"queued", "next", "copy"} /\ Serving(u)'
  PROVE  IInv'
<1> USE DEF IInv
<1>1. UNCHANGED <<stage, ramd_size, pow, ptr, heap, listed, openers, holders>>
  BY DEF module, memory, users
<1>2. TypeOK'
  BY <1>1 DEF TypeOK
<1>3. ObjectsInv'
  BY <1>1 DEF ObjectsInv
<1>4. ListedInv'
  BY <1>1 DEF ListedInv
<1>5. DataInv'
  BY <1>1 DEF DataInv
<1>6. HoldersInv'
  BY <1>1 DEF HoldersInv
<1>7. ASSUME NEW v \in Users \ {u}
      PROVE  Serving(v)' <=> Serving(v)
  BY <1>1, <1>7 DEF Serving, DataLen
<1>8. TaskInv'
  BY <1>7 DEF TaskInv
<1> QED BY <1>2, <1>3, <1>4, <1>5, <1>6, <1>8

(* What a request under way relies on.                                     *)
LEMMA UnderWay ==
  ASSUME IInv, NEW u \in Users, u \in holders \/ rq[u] # NoRequest
  PROVE  /\ "data" \in heap /\ heap = Objects
         /\ data \in [0..ramd_size-1 -> Users \cup {Blank}]
         /\ u \in holders /\ stage \in Up
BY DEF IInv, ObjectsInv, HoldersInv, DataInv, Reserved, Up, Objects

(* A new request is within the memory.                                     *)
LEMMA SubmitIInv ==
  ASSUME IInv, NEW u \in Users, Submit(u)
  PROVE  IInv'
<1> USE DEF IInv
<1>1. PICK e \in Extents, d \in Dirs :
        /\ e.pos + e.nr <= Capacity
        /\ rq' = [rq EXCEPT ![u] = [dir |-> d, extent |-> e]]
  BY DEF Submit
<1>2. /\ u \in holders /\ rq[u] = NoRequest
      /\ task' = [task EXCEPT ![u].at = "queued"]
      /\ UNCHANGED <<module, memory, data, listed, users, page>>
  BY DEF Submit
<1>3. task[u] = Resting /\ page[u] = << >>
  BY <1>2 DEF TaskInv
<1>4. /\ rq'[u] = [dir |-> d, extent |-> e]
      /\ rq'[u] \in [dir : Dirs, extent : Extents]
      /\ rq'[u] # NoRequest
  BY <1>1 DEF TypeOK, NoRequest
<1>5. task'[u] = [Resting EXCEPT !.at = "queued"] /\ page'[u] = << >>
  BY <1>2, <1>3 DEF TypeOK
<1>6. e.pos \in Nat /\ e.nr \in Nat /\ ramd_size \in Nat
  BY RamdAssumption DEF TypeOK
<1>7. First(rq[u])' + Total(rq[u])' <= ramd_size
  BY <1>1, <1>4, <1>6, CapacityFits DEF First, Total, Capacity
<1>8. Total(rq[u])' \in Nat
  BY <1>4, ExtentTypes
<1>9. Serving(u)'
  BY <1>2, <1>5, <1>7, <1>8 DEF Serving, Resting, module
<1>10. task' \in [Users -> Tasks]
  BY <1>2, <1>3, <1>5 DEF TypeOK, Tasks, Resting
<1>11. /\ "data" \in heap
       /\ data' \in [0..ramd_size-1 -> Users \cup {Blank}]
  BY <1>2, UnderWay
<1> QED
  BY <1>1, <1>2, <1>4, <1>5, <1>9, <1>10, <1>11, ServingStep
  DEF TypeOK, Resting

(* The segment that begins where the iterator is has cells of the request. *)
LEMMA SegmentLength ==
  ASSUME IInv, NEW u \in Users, rq[u] # NoRequest,
         task[u].iter < Total(rq[u])
  PROVE  /\ DataLen(u) \in Nat \ {0}
         /\ task[u].iter + DataLen(u) <= Total(rq[u])
<1>1. task[u].iter \in Nat /\ rq[u] \in [dir : Dirs, extent : Extents]
  BY DEF IInv, TypeOK, Tasks
<1>2. Total(rq[u]) \in Nat
      /\ rq[u].extent.ends[task[u].iter] \in task[u].iter+1..Total(rq[u])
  BY <1>1, ExtentTypes
<1> QED BY <1>1, <1>2 DEF DataLen

(* A segment that is left is within the memory.                            *)
LEMMA SegmentFits ==
  ASSUME IInv, NEW u \in Users, rq[u] # NoRequest,
         task[u].at = "next", task[u].iter < Total(rq[u])
  PROVE  InRange(u)
<1>1. task[u] \in Tasks /\ rq[u] \in [dir : Dirs, extent : Extents]
  BY DEF IInv, TypeOK
<1>2. First(rq[u]) \in Nat /\ Total(rq[u]) \in Nat /\ ramd_size \in Nat
  BY <1>1, ExtentTypes DEF IInv, TypeOK
<1>3. /\ task[u].offset = First(rq[u]) + task[u].iter
      /\ First(rq[u]) + Total(rq[u]) <= ramd_size
  BY DEF IInv, TaskInv, Serving
<1>4. /\ DataLen(u) \in Nat
      /\ task[u].iter + DataLen(u) <= Total(rq[u])
  BY SegmentLength
<1> QED BY <1>1, <1>2, <1>3, <1>4 DEF InRange, Tasks

(* Beginning a request and a segment of it: the segment is in range.       *)
LEMMA DispatchIInv ==
  ASSUME IInv, NEW u \in Users, Dispatch(u) \/ NextSegment(u)
  PROVE  IInv'
<1> USE DEF IInv
<1>1. /\ rq[u] # NoRequest /\ task[u] \in Tasks
      /\ task[u].at \in {"queued", "next"}
  BY DEF Dispatch, NextSegment, TaskInv, Resting, TypeOK
<1>2. rq[u] \in [dir : Dirs, extent : Extents]
  BY <1>1 DEF TypeOK
<1>3. First(rq[u]) \in Nat /\ Total(rq[u]) \in Nat /\ ramd_size \in Nat
  BY <1>2, ExtentTypes DEF TypeOK
<1>4. UNCHANGED <<module, memory, data, listed, users, rq, page>>
  BY DEF Dispatch, NextSegment
<1>5. Serving(u)
  BY <1>1 DEF TaskInv
<1>6. /\ task' \in [Users -> Tasks]
      /\ \A v \in Users \ {u} : task'[v] = task[v]
      /\ task'[u].at \in {"queued", "next", "copy"} /\ Serving(u)'
  <2>1. CASE Dispatch(u)
    <3>1. task' = [task EXCEPT ![u] =
                     [task[u] EXCEPT !.at = "next", !.offset = First(rq[u])]]
      BY <2>1 DEF Dispatch, TypeOK
    <3>2. task[u].at = "queued" /\ task[u].iter = 0
      BY <2>1, <1>5 DEF Dispatch, Serving
    <3>3. /\ task'[u].at = "next" /\ task'[u].iter = task[u].iter
          /\ task'[u].offset = First(rq[u])
          /\ task'[u].nbytes = task[u].nbytes
          /\ task'[u].copied = task[u].copied
          /\ task'[u] \in Tasks
      BY <3>1, <1>1, <1>3 DEF TypeOK, Tasks
    <3>4. /\ task' \in [Users -> Tasks]
          /\ \A v \in Users \ {u} : task'[v] = task[v]
      BY <3>1, <3>3 DEF TypeOK
    <3>5. Serving(u)'
      BY <3>2, <3>3, <1>1, <1>3, <1>4, <1>5 DEF Serving, module
    <3> QED BY <3>3, <3>4, <3>5
  <2>2. CASE NextSegment(u)
    <3>1. task[u].at = "next" /\ task[u].iter < Total(rq[u])
      BY <2>2 DEF NextSegment
    <3>2. /\ DataLen(u) \in Nat \ {0}
          /\ task[u].iter + DataLen(u) <= Total(rq[u])
      BY <3>1, <1>1, SegmentLength
    <3>3. InRange(u)
      BY <3>1, <1>1, SegmentFits
    <3>4. task' = [task EXCEPT ![u] = [task[u] EXCEPT !.at = "copy"]]
      BY <2>2, <3>3 DEF NextSegment, TypeOK
    <3>5. DataLen(u)' = DataLen(u)
      BY <3>4, <1>1, <1>4 DEF DataLen, TypeOK, Tasks
    <3>6. /\ task'[u].at = "copy" /\ task'[u].iter = task[u].iter
          /\ task'[u].offset = task[u].offset
          /\ task'[u].nbytes = task[u].nbytes
          /\ task'[u].copied = task[u].copied
          /\ task'[u] \in Tasks
      BY <3>4, <1>1 DEF TypeOK, Tasks
    <3>7. /\ task' \in [Users -> Tasks]
          /\ \A v \in Users \ {u} : task'[v] = task[v]
      BY <3>4, <3>6 DEF TypeOK
    <3>8. Serving(u)'
      BY <3>1, <3>2, <3>5, <3>6, <1>1, <1>3, <1>4, <1>5 DEF Serving, module
    <3> QED BY <3>6, <3>7, <3>8
  <2> QED BY <2>1, <2>2
<1>7. /\ "data" \in heap
      /\ data' \in [0..ramd_size-1 -> Users \cup {Blank}]
      /\ u \in holders
  BY <1>1, <1>4, UnderWay
<1> QED BY <1>1, <1>4, <1>6, <1>7, ServingStep DEF TypeOK

(* A step of memcpy takes one cell of the request, within the memory.      *)
LEMMA CopyStep ==
  ASSUME IInv, NEW u \in Users, Copy(u)
  PROVE  /\ rq[u] \in [dir : Dirs, extent : Extents] /\ rq[u] # NoRequest
         /\ task[u] \in Tasks /\ Serving(u)
         /\ First(rq[u]) \in Nat /\ Total(rq[u]) \in Nat
         /\ DataLen(u) \in Nat \ {0}
         /\ task[u].iter + DataLen(u) <= Total(rq[u])
         /\ Len(page[u]) < Total(rq[u])
         /\ task[u].offset + task[u].copied = First(rq[u]) + Len(page[u])
         /\ task[u].offset + task[u].copied \in 0..ramd_size-1
<1> USE DEF IInv
<1>1. task[u].at = "copy"
  BY DEF Copy
<1>2. rq[u] # NoRequest /\ task[u] \in Tasks
  BY <1>1 DEF TaskInv, Resting, TypeOK
<1>3. rq[u] \in [dir : Dirs, extent : Extents]
  BY <1>2 DEF TypeOK
<1>4. First(rq[u]) \in Nat /\ Total(rq[u]) \in Nat /\ ramd_size \in Nat
  BY <1>3, ExtentTypes DEF TypeOK
<1>5. Serving(u)
  BY <1>2 DEF TaskInv
<1>6. /\ DataLen(u) \in Nat \ {0}
      /\ task[u].iter + DataLen(u) <= Total(rq[u])
  BY <1>1, <1>2, <1>5, SegmentLength DEF Serving
<1>7. Len(page[u]) \in Nat
  BY DEF TypeOK
<1>8. /\ task[u].iter \in Nat /\ task[u].copied \in Nat
      /\ task[u].offset = First(rq[u]) + task[u].iter
      /\ task[u].copied < DataLen(u)
      /\ Len(page[u]) = task[u].iter + task[u].copied
      /\ First(rq[u]) + Total(rq[u]) <= ramd_size
  BY <1>1, <1>2, <1>5 DEF Serving, Tasks
<1>9. /\ Len(page[u]) < Total(rq[u])
      /\ task[u].offset + task[u].copied = First(rq[u]) + Len(page[u])
      /\ task[u].offset + task[u].copied \in 0..ramd_size-1
  <2> DEFINE i == task[u].iter
             k == task[u].copied
             n == DataLen(u)
             first == First(rq[u])
             total == Total(rq[u])
  <2>1. /\ i \in Nat /\ k \in Nat /\ n \in Nat
        /\ first \in Nat /\ total \in Nat /\ ramd_size \in Nat
        /\ k < n /\ i + n <= total /\ first + total <= ramd_size
        /\ task[u].offset = first + i /\ Len(page[u]) = i + k
    BY <1>4, <1>6, <1>8
  <2> HIDE DEF i, k, n, first, total
  <2>2. i + k < total /\ (first + i) + k = first + (i + k)
        /\ (first + i) + k \in 0..ramd_size-1
    BY <2>1
  <2> QED BY <2>1, <2>2 DEF i, k, n, first, total
<1> QED BY <1>2, <1>3, <1>4, <1>5, <1>6, <1>9

(* A step of memcpy keeps the iterator, the offset and the count together. *)
LEMMA CopyIInv ==
  ASSUME IInv, NEW u \in Users, Copy(u)
  PROVE  IInv'
<1> USE DEF IInv
<1> DEFINE c == task[u].offset + task[u].copied
           content == IF rq[u].dir = "WRITE" THEN u ELSE data[c]
           last == task[u].copied + 1 = DataLen(u)
<1>1. /\ rq[u] \in [dir : Dirs, extent : Extents] /\ rq[u] # NoRequest
      /\ task[u] \in Tasks /\ Serving(u) /\ task[u].at = "copy"
      /\ First(rq[u]) \in Nat /\ Total(rq[u]) \in Nat
      /\ DataLen(u) \in Nat \ {0}
      /\ task[u].iter + DataLen(u) <= Total(rq[u])
      /\ c \in 0..ramd_size-1
  BY CopyStep DEF Copy
<1>2. /\ "data" \in heap
      /\ data \in [0..ramd_size-1 -> Users \cup {Blank}]
      /\ u \in holders
  BY <1>1, UnderWay
<1>3. /\ page' = [page EXCEPT ![u] = Append(page[u], content)]
      /\ content \in Users \cup {Blank}
      /\ data' \in [0..ramd_size-1 -> Users \cup {Blank}]
      /\ UNCHANGED <<module, memory, listed, users, rq>>
  BY <1>1, <1>2 DEF Copy
<1>4. /\ page' \in [Users -> Seq(Users \cup {Blank})]
      /\ Len(page'[u]) = Len(page[u]) + 1
      /\ \A v \in Users \ {u} : page'[v] = page[v]
  BY <1>3 DEF TypeOK
<1>5. task' = [task EXCEPT ![u] =
                 IF last THEN Advanced(task[u], DataLen(u))
                 ELSE [task[u] EXCEPT !.copied = task[u].copied + 1]]
  BY DEF Copy
<1>6. /\ task[u].iter \in Nat /\ task[u].copied \in Nat
      /\ task[u].offset = First(rq[u]) + task[u].iter
      /\ task[u].nbytes = task[u].iter
      /\ task[u].copied < DataLen(u)
      /\ Len(page[u]) = task[u].iter + task[u].copied
      /\ First(rq[u]) + Total(rq[u]) <= ramd_size
      /\ task[u].iter < Total(rq[u])
  BY <1>1 DEF Serving, Tasks
<1>8. Len(page'[u]) = task[u].iter + (task[u].copied + 1)
  <2> DEFINE i == task[u].iter
             k == task[u].copied
             l == Len(page[u])
             m == Len(page'[u])
  <2>1. i \in Nat /\ k \in Nat /\ l = i + k /\ m = l + 1
    BY <1>4, <1>6
  <2> HIDE DEF i, k, l, m
  <2>2. m = i + (k + 1)
    BY <2>1
  <2> QED BY <2>2 DEF i, k, m
<1>7. /\ task' \in [Users -> Tasks]
      /\ \A v \in Users \ {u} : task'[v] = task[v]
      /\ task'[u].at \in {"next", "copy"}
      /\ Serving(u)'
  <2>1. CASE last
    <3>1. task'[u] = Advanced(task[u], DataLen(u))
      BY <1>5, <2>1 DEF TypeOK
    <3>2. Advanced(task[u], DataLen(u)) \in Tasks
      BY <1>1 DEF Advanced, Tasks
    <3>3. /\ task'[u].at = "next"
          /\ task'[u].iter = task[u].iter + DataLen(u)
          /\ task'[u].offset = task[u].offset + DataLen(u)
          /\ task'[u].nbytes = task[u].nbytes + DataLen(u)
          /\ task'[u].copied = 0
      BY <3>1 DEF Advanced
    <3>4. /\ task' \in [Users -> Tasks]
          /\ \A v \in Users \ {u} : task'[v] = task[v]
      BY <3>1, <3>2, <1>5 DEF TypeOK
    <3>5. Serving(u)'
      <4>1. /\ First(rq[u])' = First(rq[u]) /\ Total(rq[u])' = Total(rq[u])
            /\ ramd_size' = ramd_size
        BY <1>3 DEF module
      <4>2. Len(page'[u]) = task[u].iter + DataLen(u)
        BY <2>1, <1>8
      <4> QED BY <4>1, <4>2, <3>3, <1>1, <1>6 DEF Serving
    <3> QED BY <3>3, <3>4, <3>5
  <2>2. CASE ~last
    <3>1. task'[u] = [task[u] EXCEPT !.copied = task[u].copied + 1]
      BY <1>5, <2>2 DEF TypeOK
    <3>2. task'[u] \in Tasks
      BY <1>1, <3>1 DEF Tasks
    <3>3. DataLen(u)' = DataLen(u)
      BY <3>1, <1>1, <1>3 DEF DataLen, Tasks
    <3>4. /\ task'[u].at = "copy" /\ task'[u].iter = task[u].iter
          /\ task'[u].offset = task[u].offset
          /\ task'[u].nbytes = task[u].nbytes
          /\ task'[u].copied = task[u].copied + 1
      BY <3>1, <1>1 DEF Tasks
    <3>5. /\ task' \in [Users -> Tasks]
          /\ \A v \in Users \ {u} : task'[v] = task[v]
      BY <3>1, <3>2, <1>5 DEF TypeOK
    <3>6. Serving(u)'
      <4>1. /\ First(rq[u])' = First(rq[u]) /\ Total(rq[u])' = Total(rq[u])
            /\ ramd_size' = ramd_size
        BY <1>3 DEF module
      <4>2. task[u].copied + 1 < DataLen(u)
        BY <2>2, <1>1, <1>6
      <4> QED BY <4>1, <4>2, <3>3, <3>4, <1>1, <1>6, <1>8 DEF Serving
    <3> QED BY <3>4, <3>5, <3>6
  <2> QED BY <2>1, <2>2
<1> QED BY <1>1, <1>2, <1>3, <1>4, <1>7, ServingStep DEF TypeOK

(* A request that is ended has been served completely.                     *)
LEMMA EndStep ==
  ASSUME IInv, NEW u \in Users, EndRequest(u)
  PROVE  /\ rq[u] \in [dir : Dirs, extent : Extents] /\ rq[u] # NoRequest
         /\ Len(page[u]) = Total(rq[u])
         /\ task' = [task EXCEPT ![u] = Resting]
         /\ rq' = [rq EXCEPT ![u] = NoRequest]
         /\ page' = [page EXCEPT ![u] = << >>]
<1> USE DEF IInv
<1>1. rq[u] # NoRequest /\ task[u] \in Tasks
  BY DEF EndRequest, TaskInv, Resting, TypeOK
<1>2. task[u].at = "next" /\ task[u].iter = Total(rq[u]) /\ Serving(u)
  BY <1>1 DEF EndRequest, TaskInv
<1>3. rq[u] \in [dir : Dirs, extent : Extents]
  BY <1>1 DEF TypeOK
<1>4. Total(rq[u]) \in Nat
  BY <1>3, ExtentTypes
<1>5. ~(task[u].nbytes < Total(rq[u])) /\ Len(page[u]) = Total(rq[u])
  BY <1>2, <1>4 DEF Serving
<1> QED BY <1>1, <1>3, <1>5 DEF EndRequest

(* The end of a request leaves nothing of it.                              *)
LEMMA EndIInv ==
  ASSUME IInv, NEW u \in Users, EndRequest(u)
  PROVE  IInv'
<1> USE DEF IInv
<1>1. /\ rq[u] # NoRequest
      /\ task' = [task EXCEPT ![u] = Resting]
      /\ rq' = [rq EXCEPT ![u] = NoRequest]
      /\ page' = [page EXCEPT ![u] = << >>]
      /\ UNCHANGED <<module, memory, data, listed, users>>
  BY EndStep DEF EndRequest
<1>2. /\ "data" \in heap
      /\ data' \in [0..ramd_size-1 -> Users \cup {Blank}]
  BY <1>1, UnderWay
<1>3. Resting \in Tasks /\ << >> \in Seq(Users \cup {Blank})
  BY DEF Resting, Tasks
<1>4. /\ rq' \in [Users -> {NoRequest} \cup [dir : Dirs, extent : Extents]]
      /\ task' \in [Users -> Tasks]
      /\ page' \in [Users -> Seq(Users \cup {Blank})]
      /\ \A v \in Users \ {u} :
           rq'[v] = rq[v] /\ task'[v] = task[v] /\ page'[v] = page[v]
      /\ rq'[u] = NoRequest /\ task'[u] = Resting /\ page'[u] = << >>
  BY <1>1, <1>3 DEF TypeOK
<1> QED BY <1>1, <1>2, <1>4, ServingStep

(* A step that changes nothing.                                            *)
LEMMA StutterIInv ==
  ASSUME IInv, UNCHANGED vars
  PROVE  IInv'
<1>1. UNCHANGED <<stage, ramd_size, pow, ptr, heap, data, listed, openers,
                  holders, rq, task, page>>
  BY DEF vars, module, memory, users, io
<1>2. TaskInv'
  BY <1>1, TaskUnchanged DEF IInv, io
<1> QED
  BY <1>1, <1>2 DEF IInv, TypeOK, ObjectsInv, ListedInv, DataInv, HoldersInv

(* Every step keeps the invariant.                                         *)
LEMMA StepIInv ==
  ASSUME IInv, [Next]_vars
  PROVE  IInv'
<1>1. CASE Driver
  BY <1>1, LoadIInv, AllocateIInv, DiskIInv, DeallocateIInv DEF Driver
<1>2. CASE ScanOpens \/ ScanReleases
  BY <1>2, OpenIInv
<1>3. ASSUME NEW u \in Users, User(u) \/ Serve(u)
      PROVE  IInv'
  BY <1>3, OpenIInv, SubmitIInv, DispatchIInv, CopyIInv, EndIInv
  DEF User, Serve
<1>4. CASE Oops \/ UNCHANGED vars
  BY <1>4, StutterIInv DEF Oops
<1> QED BY <1>1, <1>2, <1>3, <1>4 DEF Next

(* The invariant always holds.                                             *)
THEOREM Invariant == Spec => []IInv
BY InitIInv, StepIInv, PTL DEF Spec

-----------------------------------------------------------------------------
(* What follows.                                                           *)

(* Every variable of the driver keeps its type.                            *)
THEOREM RamdTypeCorrect == Spec => []TypeOK
BY Invariant, PTL DEF IInv

(* Who has the device open or waits for a request finds the structure, the *)
(* memory, the queue and the disk of the driver (ramd.c:267-281).          *)
THEOREM LiveMemory == Spec => []UsesLiveMemory
<1>1. IInv => UsesLiveMemory
  BY DEF IInv, ObjectsInv, HoldersInv, UsesLiveMemory, Reserved, Up, Openers
<1> QED BY <1>1, Invariant, PTL

(* However loading ends, and when the module is removed, everything is     *)
(* given back once, but for a queue that was not made (ramd.c:267-295).    *)
THEOREM AllFreedOnce == Spec => []FreedOnce
<1>1. IInv => FreedOnce
  BY DEF IInv, ObjectsInv, ListedInv, FreedOnce, Bare, Up
<1> QED BY <1>1, Invariant, PTL

(* No segment of a request is refused and no request is ended before it    *)
(* has been served: the BUG of ramd.c:183 is not reached.                  *)
THEOREM RequestsAlwaysFit == Spec => []RequestsFit
<1>1. IInv => RequestsFit
  BY DEF IInv, TaskInv, RequestsFit, Resting
<1> QED BY <1>1, Invariant, PTL

-----------------------------------------------------------------------------
(* The count of openers.                                                   *)

CountInv == IsFiniteSet(holders) /\ OpenersNotOvercounted

(* Opening and releasing change the count and the holders alike; others    *)
(* change neither, but for the start of the count, and its end.            *)
LEMMA StepCount ==
  ASSUME IInv, CountInv, [Next]_vars
  PROVE  CountInv'
<1>1. /\ openers \in Int
      /\ IsFiniteSet(holders) /\ Cardinality(holders) \in Nat
      /\ stage = "live" => openers <= Cardinality(holders)
  BY FS_CardinalityType DEF IInv, TypeOK, CountInv, OpenersNotOvercounted
<1>2. ASSUME NEW u, Open(u), stage' = "live" => stage = "live"
      PROVE  CountInv'
  <2>1. /\ u \notin holders
        /\ holders' = holders \cup {u}
        /\ openers' = openers + 1
    BY <1>2 DEF Open
  <2>2. /\ IsFiniteSet(holders')
        /\ Cardinality(holders') = Cardinality(holders) + 1
    BY <1>1, <2>1, FS_AddElement
  <2> QED BY <1>1, <1>2, <2>1, <2>2 DEF CountInv, OpenersNotOvercounted
<1>3. ASSUME NEW u, Release(u), stage' = "live" => stage = "live"
      PROVE  CountInv'
  <2>1. /\ u \in holders
        /\ holders' = holders \ {u}
        /\ openers' = openers - 1
    BY <1>3 DEF Release
  <2>2. /\ IsFiniteSet(holders')
        /\ Cardinality(holders') = Cardinality(holders) - 1
    BY <1>1, <2>1, FS_RemoveElement
  <2> QED BY <1>1, <1>3, <2>1, <2>2 DEF CountInv, OpenersNotOvercounted
<1>4. ASSUME UNCHANGED holders,
             \/ stage' # "live"
             \/ stage = "live" /\ UNCHANGED openers
             \/ openers' = 0
      PROVE  CountInv'
  BY <1>1, <1>4 DEF CountInv, OpenersNotOvercounted
<1>5. CASE Driver
  <2>1. CASE InitOpeners
    BY <1>4, <2>1 DEF InitOpeners
  <2>2. CASE Insmod \/ Align \/ Aligned \/ Setup \/ AddDisk
    BY <1>4, <2>2
    DEF Insmod, Align, Aligned, Setup, Allocate, AllocationFails, AddDisk,
        users
  <2>3. CASE Rmmod \/ DelGendisk \/ Unregister
    BY <1>4, <2>3 DEF Rmmod, DelGendisk, Unregister, users
  <2>4. ASSUME NEW from, NEW to \in Unloading, NEW object,
               Free(from, to, object)
        PROVE  CountInv'
    BY <1>4, <2>4 DEF Free, Unloading
  <2> QED
    BY <1>5, <2>1, <2>2, <2>3, <2>4 DEF Driver, Deallocate, Unloading
<1>6. CASE ScanOpens \/ ScanReleases
  BY <1>2, <1>3, <1>6 DEF ScanOpens, ScanReleases
<1>7. ASSUME NEW u \in Users, User(u) \/ Serve(u)
      PROVE  CountInv'
  <2>1. CASE UserOpens(u) \/ UserReleases(u)
    BY <1>2, <1>3, <2>1 DEF UserOpens, UserReleases
  <2>2. CASE Submit(u) \/ Serve(u)
    <3>1. UNCHANGED <<module, users>>
      BY <2>2
      DEF Submit, Serve, Dispatch, NextSegment, Copy, EndRequest
    <3> QED BY <1>4, <3>1 DEF module, users
  <2> QED BY <1>7, <2>1, <2>2 DEF User
<1>8. CASE Oops \/ UNCHANGED vars
  BY <1>4, <1>8 DEF Oops, vars, module, users
<1> QED BY <1>5, <1>6, <1>7, <1>8 DEF Next

(* The driver never counts more users of the device than there are, though *)
(* it misses who opens it before the count starts (ramd.c:238-239).        *)
THEOREM OpenersBounded == Spec => []OpenersNotOvercounted
<1>1. Init => CountInv
  BY FS_EmptySet DEF Init, CountInv, OpenersNotOvercounted
<1>2. IInv /\ CountInv /\ [Next]_vars => CountInv'
  BY StepCount
<1>3. CountInv => OpenersNotOvercounted
  BY DEF CountInv
<1> QED BY <1>1, <1>2, <1>3, Invariant, PTL DEF Spec

-----------------------------------------------------------------------------
(* The size of the disk.                                                   *)

(* Each power of two that the loop has passed is too small.  An exponent   *)
(* below the minimum has wrapped: then all have been passed.               *)
AlignInv ==
  stage = "align" =>
    \A n \in MinPow..Uint-1 :
      n < pow \/ pow < MinPow => ulong_pow(2, n) < ramd_size

(* How the loop begins, goes on and ends.                                  *)
LEMMA AlignSteps ==
  ASSUME [Next]_vars
  PROVE  /\ stage' = "align" => Insmod \/ Align \/ UNCHANGED module
         /\ stage = "align" => Align \/ Aligned \/ UNCHANGED module
<1> USE DEF module
<1>1. CASE Driver
  BY <1>1 DEF Driver, Insmod, Align, Aligned, Setup, Allocate,
      AllocationFails, AddDisk, InitOpeners, Rmmod, Deallocate, Free,
      DelGendisk, Unregister
<1>2. CASE ScanOpens \/ ScanReleases
  BY <1>2 DEF ScanOpens, ScanReleases, Open, Release
<1>3. CASE \E u \in Users : User(u) \/ Serve(u)
  BY <1>3 DEF User, UserOpens, UserReleases, Open, Release, Submit, Serve,
      Dispatch, NextSegment, Copy, EndRequest
<1> QED BY <1>1, <1>2, <1>3 DEF Next, Oops, vars

(* A round passes the power it has looked at.                              *)
LEMMA StepAlignInv ==
  ASSUME TypeOK, AlignInv, [Next]_vars
  PROVE  AlignInv'
<1> SUFFICES ASSUME stage' = "align", NEW n \in MinPow..Uint-1,
                    n < pow' \/ pow' < MinPow
             PROVE  ulong_pow(2, n) < ramd_size'
  BY DEF AlignInv
<1>1. /\ Uint \in Nat /\ MinPow \in 0..Uint-1 /\ pow \in 0..Uint-1
      /\ n \in Nat
  BY Width DEF TypeOK
<1>2. CASE Insmod
  BY <1>1, <1>2 DEF Insmod
<1>3. CASE Align
  <2>1. /\ stage = "align" /\ pow' = (pow + 1) % Uint
        /\ ulong_pow(2, pow) < ramd_size /\ ramd_size' = ramd_size
    BY <1>3, <1>1, PowerFits DEF Align, TypeOK
  <2>2. pow' = IF pow + 1 = Uint THEN 0 ELSE pow + 1
    BY <1>1, <2>1
  <2>3. n = pow \/ n < pow \/ pow < MinPow
    BY <1>1, <2>2
  <2> QED BY <2>1, <2>3 DEF AlignInv
<1>4. CASE UNCHANGED module
  BY <1>4 DEF AlignInv, module
<1> QED BY <1>2, <1>3, <1>4, AlignSteps

(* When it leaves the loop, the driver has the least power of two, from    *)
(* the minimum on, that is not below the size asked for, whatever the      *)
(* parameter and however wide an unsigned long: the powers that do not fit *)
(* are never taken (ramd.c:70-79).                                         *)
THEOREM AlignsLeast == Spec => AlignsToPowerOfTwo
<1>1. Init => AlignInv
  BY DEF Init, AlignInv
<1>2. TypeOK /\ AlignInv /\ [Next]_vars => AlignInv'
  BY StepAlignInv
<1>3. ASSUME TypeOK, AlignInv, [Next]_vars
      PROVE  [stage = "align" /\ stage' = "kzalloc" =>
                /\ ramd_size' \in Powers
                /\ ramd_size <= ramd_size'
                /\ \A p \in Powers : ramd_size <= p => ramd_size' <= p]_vars
  <2> SUFFICES ASSUME stage = "align", stage' = "kzalloc"
               PROVE  /\ ramd_size' \in Powers
                      /\ ramd_size <= ramd_size'
                      /\ \A p \in Powers : ramd_size <= p => ramd_size' <= p
    OBVIOUS
  <2>1. /\ Aligned
        /\ ramd_size' = ulong_pow(2, pow) /\ ramd_size <= ramd_size'
    BY <1>3, AlignSteps DEF Align, Aligned, module
  <2>2. PICK bits \in Nat :
          MinPow < bits /\ bits <= Uint /\ Word = TwoTo[bits]
    BY Width
  <2>3. /\ Uint \in Nat /\ MinPow \in 0..Uint-1 /\ pow \in 0..Uint-1
        /\ ramd_size \in Nat /\ TwoTo \in [Nat -> Nat]
    BY <1>3, <2>2, Width DEF TypeOK
  <2>4. \A n \in Nat : n < bits => ulong_pow(2, n) = TwoTo[n]
    BY <2>2, <2>3, UlongPow
  <2>5. pow < bits
    <3>1. CASE pow >= bits
      <4>1. ulong_pow(2, pow) = 0
        BY <2>2, <2>3, <3>1, UlongPow
      <4>2. ulong_pow(2, MinPow) \in Nat
        BY <2>3, PowerFits
      <4>3. MinPow \in MinPow..Uint-1 /\ MinPow < pow
        BY <2>2, <2>3, <3>1
      <4>4. ulong_pow(2, MinPow) < ramd_size
        BY <1>3, <4>3 DEF AlignInv
      <4> QED BY <2>1, <2>3, <4>1, <4>2, <4>4
    <3> QED BY <2>3, <3>1
  <2>6. ramd_size' = TwoTo[pow]
    BY <2>1, <2>3, <2>4, <2>5
  <2>7. MinPow <= pow
    <3>1. CASE pow < MinPow
      <4>1. TwoTo[MinPow] < ramd_size
        <5>1. MinPow \in MinPow..Uint-1 /\ MinPow \in Nat /\ MinPow < bits
          BY <2>2, <2>3
        <5>2. ulong_pow(2, MinPow) < ramd_size
          BY <1>3, <3>1, <5>1 DEF AlignInv
        <5> QED BY <2>4, <5>1, <5>2
      <4>2. 2 * TwoTo[pow] <= TwoTo[MinPow]
        BY <2>3, <3>1, TwoToGrows
      <4> QED BY <2>1, <2>3, <2>6, <4>1, <4>2
    <3> QED BY <2>3, <3>1
  <2>8. ramd_size' \in Powers
    BY <2>3, <2>6, <2>7 DEF Powers
  <2>9. ASSUME NEW n \in MinPow..Uint, ramd_size <= TwoTo[n]
        PROVE  ramd_size' <= TwoTo[n]
    <3>1. CASE n < pow
      <4>1. TwoTo[n] < ramd_size
        BY <1>3, <2>3, <2>4, <2>5, <3>1 DEF AlignInv
      <4> QED BY <2>3, <2>9, <4>1
    <3>2. CASE n > pow
      <4>1. 2 * TwoTo[pow] <= TwoTo[n]
        BY <2>3, <3>2, TwoToGrows
      <4> QED BY <2>3, <2>6, <4>1
    <3> QED BY <2>3, <2>6, <3>1, <3>2
  <2> QED BY <2>1, <2>8, <2>9 DEF Powers
<1> QED
  BY <1>1, <1>2, <1>3, RamdTypeCorrect, PTL DEF Spec, AlignsToPowerOfTwo

(* A size of at most half of what an unsigned long can hold: its exponent  *)
(* stays where twice the power still fits.                                 *)
AlignBounded ==
  stage = "align" /\ 2 * ramd_size <= Word =>
    MinPow <= pow /\ 2 * TwoTo[pow] <= Word

(* And it never goes back.                                                 *)
AlignCounts ==
  [][stage = "align" /\ stage' = "align" /\ 2 * ramd_size <= Word =>
       pow' \in {pow, pow + 1}]_vars

(* A round of the loop for such a size.                                    *)
LEMMA AlignRound ==
  ASSUME TypeOK, AlignBounded, Align, 2 * ramd_size <= Word
  PROVE  pow' = pow + 1 /\ MinPow <= pow' /\ 2 * TwoTo[pow'] <= Word
<1>1. PICK bits \in Nat :
        MinPow < bits /\ bits <= Uint /\ Word = TwoTo[bits]
  BY Width
<1>2. /\ Uint \in Nat /\ MinPow \in 0..Uint-1 /\ pow \in 0..Uint-1
      /\ ramd_size \in Nat /\ TwoTo \in [Nat -> Nat]
  BY <1>1, Width DEF TypeOK
<1>3. /\ pow' = (pow + 1) % Uint
      /\ ramd_size' = ramd_size /\ ramd_size > ulong_pow(2, pow)
      /\ MinPow <= pow /\ 2 * TwoTo[pow] <= Word
  BY DEF Align, AlignBounded
<1>4. pow < bits
  <2>1. CASE pow >= bits
    <3>1. TwoTo[bits] \in Nat \ {0} /\ TwoTo[pow] \in Nat
      BY <1>1, <1>2, Width
    <3>2. bits = pow \/ 2 * TwoTo[bits] <= TwoTo[pow]
      BY <1>2, <2>1, TwoToGrows
    <3> QED BY <1>1, <1>3, <3>1, <3>2
  <2> QED BY <1>2, <2>1
<1>5. ulong_pow(2, pow) = TwoTo[pow] /\ TwoTo[pow] < ramd_size
  BY <1>1, <1>2, <1>3, <1>4, UlongPow
<1>6. pow + 1 < bits
  <2>1. CASE pow + 1 = bits
    <3>1. TwoTo[bits] = 2 * TwoTo[pow]
      BY <1>2, <2>1, TwoToDef
    <3> QED BY <1>1, <1>2, <1>3, <1>5, <3>1
  <2> QED BY <1>2, <1>4, <2>1
<1>7. pow' = pow + 1
  BY <1>1, <1>2, <1>3, <1>6
<1>8. 2 * TwoTo[pow + 1] <= Word /\ MinPow <= pow + 1
  BY <1>1, <1>2, <1>3, <1>6, TwoToGrows
<1> QED BY <1>7, <1>8

(* For such a size the loop ends after less rounds than an unsigned long   *)
(* has bits: each raises the exponent, which has a bound (ramd.c:74-77).   *)
THEOREM AlignEnds == Spec => []AlignBounded /\ AlignCounts
<1>1. Init => AlignBounded
  BY DEF Init, AlignBounded
<1>2. ASSUME TypeOK, AlignBounded, [Next]_vars PROVE AlignBounded'
  <2> SUFFICES ASSUME stage' = "align", 2 * ramd_size' <= Word
               PROVE  (MinPow <= pow /\ 2 * TwoTo[pow] <= Word)'
    BY DEF AlignBounded
  <2>1. CASE Insmod
    <3>1. MinPow \in Nat /\ 2 * TwoTo[MinPow] <= Word
      BY Width, TwoToGrows
    <3> QED BY <2>1, <3>1 DEF Insmod
  <2>2. CASE Align
    BY <1>2, <2>2, AlignRound DEF Align
  <2>3. CASE UNCHANGED module
    BY <1>2, <2>3 DEF AlignBounded, module
  <2> QED BY <1>2, <2>1, <2>2, <2>3, AlignSteps
<1>3. ASSUME TypeOK, AlignBounded, [Next]_vars
      PROVE  [stage = "align" /\ stage' = "align" /\ 2 * ramd_size <= Word =>
                pow' \in {pow, pow + 1}]_vars
  BY <1>3, AlignSteps, AlignRound DEF Aligned, module
<1> QED
  BY <1>1, <1>2, <1>3, RamdTypeCorrect, PTL DEF Spec, AlignCounts

(* A size of more than half of what an unsigned long can hold.             *)
TooBig == stage = "align" /\ 2 * ramd_size > Word

(* For such a size no power of two is both large enough and within the     *)
(* width; once the exponent is past it the power is 0, and the loop goes   *)
(* on for ever.  So whoever asks for such a size never gets an answer from *)
(* insmod, however wide the machine's integers (ramd.c:74-77, 81-82).      *)
THEOREM AlignForever == Spec /\ <>TooBig => ~CallsReturn
<1>1. ASSUME TypeOK, TooBig, [Next]_vars PROVE TooBig'
  <2>1. PICK bits \in Nat :
          MinPow < bits /\ bits <= Uint /\ Word = TwoTo[bits]
    BY Width
  <2>2. /\ Uint \in Nat /\ pow \in Nat /\ bits > 0
        /\ ramd_size \in Nat /\ TwoTo \in [Nat -> Nat] /\ Word \in Nat \ {0}
    BY <1>1, <2>1, Width DEF TypeOK
  <2>3. ulong_pow(2, pow) < ramd_size
    <3>1. CASE pow < bits
      BY <1>1, <2>1, <2>2, <3>1, UlongPow DEF TooBig
    <3>2. CASE pow >= bits
      BY <1>1, <2>1, <2>2, <3>2, UlongPow DEF TooBig
    <3> QED BY <2>2, <3>1, <3>2
  <2>4. ulong_pow(2, pow) \in Nat
    BY <2>2, PowerFits
  <2>5. Align \/ UNCHANGED module
    BY <1>1, <2>2, <2>3, <2>4, AlignSteps DEF TooBig, Aligned
  <2> QED BY <1>1, <2>5 DEF TooBig, Align, module
<1>2. /\ TooBig => stage \in Loading \cup Unloading
      /\ TooBig => ~ (stage \in {"live", "unloaded", "oops"})
  BY DEF TooBig, Loading
<1> QED
  BY <1>1, <1>2, RamdTypeCorrect, PTL DEF Spec, CallsReturn

-----------------------------------------------------------------------------
(* Whether insmod and rmmod return, given that the search for a power of   *)
(* two ends.                                                               *)

(* The scan finds a disk, which the kernel has open while it reads it.     *)
ScanInv ==
  /\ stage = "scan" => listed /\ Kernel \notin holders
  /\ stage = "scanning" => Kernel \in holders

LEMMA StepScanInv ==
  ASSUME IInv, ScanInv, [Next]_vars
  PROVE  ScanInv'
<1> USE DEF ScanInv, module, memory, users, io
<1>1. stage \notin Up => holders = {}
  BY DEF IInv, HoldersInv
<1>2. CASE Insmod \/ Align \/ Aligned \/ InitOpeners \/ Rmmod \/ Unregister
  BY <1>2 DEF Insmod, Align, Aligned, InitOpeners, Rmmod, Unregister
<1>3. CASE AddDisk
  BY <1>1, <1>3 DEF AddDisk, Up
<1>4. CASE Setup
  BY <1>4 DEF Setup, Allocate, AllocationFails
<1>5. CASE Deallocate
  BY <1>5 DEF Deallocate, DelGendisk, Free
<1>6. CASE ScanOpens \/ ScanReleases
  BY <1>6 DEF ScanOpens, ScanReleases, Open, Release
<1>7. ASSUME NEW u \in Users, User(u) \/ Serve(u)
      PROVE  ScanInv'
  BY <1>7, RamdAssumption
     DEF User, UserOpens, Open, Submit, UserReleases, Release, Serve,
         Dispatch, NextSegment, Copy, EndRequest
<1>8. CASE Oops \/ UNCHANGED vars
  BY <1>8 DEF Oops, vars
<1> QED
  BY <1>2, <1>3, <1>4, <1>5, <1>6, <1>7, <1>8 DEF Next, Driver

(* The stages of insmod and rmmod, in their order, between which nothing   *)
(* but the failure of an allocation jumps.                                 *)
Following ==
  [s \in (Loading \cup Unloading) \ {"align"} |->
     CASE s = "kzalloc"       -> {"vzalloc", "vfree"}
       [] s = "vzalloc"       -> {"init_queue", "vfree"}
       [] s = "init_queue"    -> {"alloc_disk", "vfree"}
       [] s = "alloc_disk"    -> {"add_disk", "vfree"}
       [] s = "add_disk"      -> {"scan"}
       [] s = "scan"          -> {"scanning"}
       [] s = "scanning"      -> {"scanned"}
       [] s = "scanned"       -> {"live"}
       [] s = "vfree"         -> {"del_gendisk", "oops"}
       [] s = "del_gendisk"   -> {"cleanup_queue"}
       [] s = "cleanup_queue" -> {"free_tags", "oops"}
       [] s = "free_tags"     -> {"put_disk", "oops"}
       [] s = "put_disk"      -> {"vfree_again", "oops"}
       [] s = "vfree_again"   -> {"kfree", "oops"}
       [] s = "kfree"         -> {"unregister", "oops"}
       [] s = "unregister"    -> {"unloaded"}]

(* No step goes anywhere else, and each of the driver goes on.             *)
LEMMA StageSteps ==
  ASSUME [Next]_vars, NEW s \in DOMAIN Following, stage = s
  PROVE  /\ stage' \in {s} \cup Following[s]
         /\ s \notin {"scan", "scanning"} /\ Driver => stage' \in Following[s]
         /\ s \in {"scan", "scanning"} /\ (ScanOpens \/ ScanReleases) =>
              stage' \in Following[s]
<1> USE DEF Following, Loading, Unloading, module, memory, users, io
<1>1. Driver => s \notin {"scan", "scanning"} /\ stage' \in Following[s]
  <2>1. CASE Insmod \/ Align \/ Aligned \/ AddDisk \/ InitOpeners \/ Rmmod
             \/ Unregister
    BY <2>1 DEF Insmod, Align, Aligned, AddDisk, InitOpeners, Rmmod, Unregister
  <2>2. CASE Setup
    BY <2>2 DEF Setup, Allocate, AllocationFails
  <2>3. CASE Deallocate
    BY <2>3 DEF Deallocate, DelGendisk, Free
  <2> QED BY <2>1, <2>2, <2>3 DEF Driver
<1>2. ScanOpens \/ ScanReleases => stage' \in Following[s]
  BY DEF ScanOpens, ScanReleases
<1>3. CASE \E u \in Users : User(u) \/ Serve(u)
  BY <1>1, <1>2, <1>3
     DEF User, UserOpens, Submit, UserReleases, Serve, Dispatch, NextSegment,
         Copy, EndRequest
<1>4. CASE Oops \/ UNCHANGED vars
  BY <1>1, <1>2, <1>4 DEF Oops, vars
<1> QED BY <1>1, <1>2, <1>3, <1>4 DEF Next

(* Weak fairness of the driver and of the scan, their guards spelled out.  *)
DriverCan == stage \in DOMAIN Following \ {"scan", "scanning"}
DriverFair == [](<>~DriverCan \/ <><<Driver>>_vars)

ScanCan == \/ stage = "scan" /\ MayOpen /\ Kernel \notin holders
           \/ stage = "scanning" /\ Kernel \in holders
ScanFair == [](<>~ScanCan \/ <><<ScanOpens \/ ScanReleases>>_vars)

(* Every stage but the loop's is left for the one that follows.            *)
LEMMA StageLeft ==
  ASSUME NEW s \in DOMAIN Following
  PROVE  Spec /\ DriverFair /\ ScanFair =>
           (stage = s ~> stage \in Following[s])
<1> DEFINE Here == stage = s
           There == stage \in Following[s]
<1>1. [Next]_vars /\ Here => Here' \/ There'
  BY StageSteps
<1>2. CASE s \notin {"scan", "scanning"}
  <2>1. Here => DriverCan
    BY <1>2 DEF DriverCan
  <2>2. [Next]_vars /\ Here /\ <<Driver>>_vars => There'
    BY <1>2, StageSteps
  <2> QED BY <1>1, <2>1, <2>2, PTL DEF Spec, DriverFair
<1>3. CASE s \in {"scan", "scanning"}
  <2>1. IInv /\ ScanInv /\ Here => ScanCan
    BY <1>3 DEF ScanInv, ScanCan, MayOpen, Unloading
  <2>2. [Next]_vars /\ Here /\ <<ScanOpens \/ ScanReleases>>_vars => There'
    BY <1>3, StageSteps
  <2>3. Init => ScanInv
    BY DEF Init, ScanInv
  <2>4. IInv /\ ScanInv /\ [Next]_vars => ScanInv'
    BY StepScanInv
  <2> QED
    BY <1>1, <2>1, <2>2, <2>3, <2>4, Invariant, PTL DEF Spec, ScanFair
<1> QED BY <1>2, <1>3

(* So insmod and rmmod return, whichever allocation fails and whatever     *)
(* users do meanwhile, if the driver and the kernel's scan go on and the   *)
(* search for a power of two ends, of which AlignEnds and AlignForever say *)
(* when it does (ramd.c:198-296).                                          *)
THEOREM Returns ==
  Spec /\ DriverFair /\ ScanFair /\ (stage = "align" ~> ~ (stage = "align"))
    => CallsReturn
<1> DEFINE Fair    == Spec /\ DriverFair /\ ScanFair
           At(s)   == stage = s
           Into(s) == stage \in Following[s]
           Passes(s) == Fair => (At(s) ~> Into(s))
           Over    == stage \in {"live", "unloaded", "oops"}
<1>1. \A s \in DOMAIN Following : Passes(s)
  BY StageLeft
<1>2. DOMAIN Following =
        {"unregister", "kfree", "vfree_again", "put_disk", "free_tags",
         "cleanup_queue", "del_gendisk", "vfree", "scanned", "scanning",
         "scan", "add_disk", "alloc_disk", "init_queue", "vzalloc", "kzalloc"}
  BY DEF Following, Loading, Unloading
<1> HIDE DEF Passes
<1>3. /\ Passes("unregister") /\ Passes("kfree") /\ Passes("vfree_again")
      /\ Passes("put_disk") /\ Passes("free_tags") /\ Passes("cleanup_queue")
      /\ Passes("del_gendisk") /\ Passes("vfree")
      /\ Passes("scanned") /\ Passes("scanning") /\ Passes("scan")
      /\ Passes("add_disk") /\ Passes("alloc_disk") /\ Passes("init_queue")
      /\ Passes("vzalloc") /\ Passes("kzalloc")
  BY <1>1, <1>2
<1>4. /\ Into("unregister") => Over
      /\ Into("kfree") => At("unregister") \/ Over
      /\ Into("vfree_again") => At("kfree") \/ Over
      /\ Into("put_disk") => At("vfree_again") \/ Over
      /\ Into("free_tags") => At("put_disk") \/ Over
      /\ Into("cleanup_queue") => At("free_tags") \/ Over
      /\ Into("del_gendisk") => At("cleanup_queue")
      /\ Into("vfree") => At("del_gendisk") \/ Over
  BY DEF Following, Loading, Unloading
<1>5. /\ Into("scanned") => Over
      /\ Into("scanning") => At("scanned")
      /\ Into("scan") => At("scanning")
      /\ Into("add_disk") => At("scan")
      /\ Into("alloc_disk") => At("add_disk") \/ At("vfree")
      /\ Into("init_queue") => At("alloc_disk") \/ At("vfree")
      /\ Into("vzalloc") => At("init_queue") \/ At("vfree")
      /\ Into("kzalloc") => At("vzalloc") \/ At("vfree")
  BY DEF Following, Loading, Unloading
<1> DEFINE Freeing == stage \in Unloading
           Making  == stage \in Loading /\ ~At("align")
<1>6. Freeing => \/ At("unregister") \/ At("kfree") \/ At("vfree_again")
                 \/ At("put_disk") \/ At("free_tags") \/ At("cleanup_queue")
                 \/ At("del_gendisk") \/ At("vfree")
  BY DEF Unloading
<1>7. Making => \/ At("scanned") \/ At("scanning") \/ At("scan")
                \/ At("add_disk") \/ At("alloc_disk") \/ At("init_queue")
                \/ At("vzalloc") \/ At("kzalloc")
  BY DEF Loading
<1>8. /\ At("vfree") => Freeing
      /\ stage \in Loading \cup Unloading => At("align") \/ Making \/ Freeing
      /\ IInv => At("align") \/ Making \/ Freeing \/ Over
  BY DEF IInv, TypeOK, Loading, Unloading
<1> HIDE DEF Into, At
<1>9. Fair => (Freeing ~> Over)
  BY <1>3, <1>4, <1>6, PTL DEF Passes
<1>10. Fair => (Making ~> Over)
  BY <1>3, <1>5, <1>7, <1>8, <1>9, PTL DEF Passes
<1> QED
  BY <1>8, <1>9, <1>10, Invariant, PTL DEF CallsReturn, At

-----------------------------------------------------------------------------
(* Why every request ends: each step that serves it brings the end nearer, *)
(* none takes it back, and until the end there is such a step to take.     *)

(* The steps a request has before it: two for each of its cells, one to    *)
(* move it and at most one to begin a segment, and those of its beginning. *)
Toll == [at \in {"queued", "next", "copy"} |->
           CASE at = "queued" -> 2 [] at = "next" -> 1 [] at = "copy" -> 0]
Remaining(u) == 2 * (Total(rq[u]) - Len(page[u])) + Toll[task[u].at]

(* A request that is not at its end has steps before it, not more than it  *)
(* has begun with, and one of them can be taken.                           *)
RequestBounded ==
  \A u \in Users : rq[u] # NoRequest =>
    /\ Remaining(u) \in 1..2 * Total(rq[u]) + 2
    /\ \/ task[u].at \in {"queued", "copy"}
       \/ /\ task[u].at = "next" /\ task[u].iter <= Total(rq[u])
          /\ task[u].iter < Total(rq[u]) => InRange(u)

(* A step of its own takes at least one of them; others take none back.    *)
Advance ==
  \A u \in Users : rq[u] # NoRequest =>
    \/ rq'[u] = NoRequest
    \/ rq'[u] = rq[u] /\ Remaining(u)' < Remaining(u)
    \/ rq'[u] = rq[u] /\ Remaining(u)' = Remaining(u) /\ ~Serve(u)

RequestAdvances == [][Advance]_vars

(* What a request under way has before it.                                 *)
LEMMA RequestSize ==
  ASSUME IInv, NEW u \in Users, rq[u] # NoRequest
  PROVE  /\ rq[u] \in [dir : Dirs, extent : Extents]
         /\ task[u] \in Tasks /\ Serving(u)
         /\ task[u].at \in {"queued", "next", "copy"}
         /\ Total(rq[u]) \in Nat /\ Len(page[u]) \in Nat
         /\ Len(page[u]) <= Total(rq[u])
         /\ task[u].at = "queued" => Len(page[u]) = 0
         /\ task[u].at = "copy" => Len(page[u]) < Total(rq[u])
<1>1. /\ rq[u] \in [dir : Dirs, extent : Extents] /\ task[u] \in Tasks
      /\ Serving(u) /\ task[u].at \in {"queued", "next", "copy"}
      /\ Len(page[u]) \in Nat
  BY DEF IInv, TypeOK, TaskInv
<1>2. Total(rq[u]) \in Nat
  BY <1>1, ExtentTypes
<1>3. /\ task[u].iter \in Nat /\ task[u].copied \in Nat
      /\ task[u].iter <= Total(rq[u])
      /\ Len(page[u]) = task[u].iter + task[u].copied
      /\ task[u].at # "copy" => task[u].copied = 0
      /\ task[u].at = "queued" => task[u].iter = 0
  BY <1>1 DEF Serving, Tasks
<1>4. CASE task[u].at = "copy"
  <2>1. /\ task[u].iter < Total(rq[u]) /\ task[u].copied < DataLen(u)
    BY <1>1, <1>4 DEF Serving
  <2>2. /\ DataLen(u) \in Nat \ {0}
        /\ task[u].iter + DataLen(u) <= Total(rq[u])
    BY <2>1, SegmentLength
  <2>3. Len(page[u]) < Total(rq[u])
    BY <1>2, <1>3, <2>1, <2>2
  <2> QED BY <1>1, <1>2, <2>3, <1>4
<1>5. CASE task[u].at # "copy"
  <2> DEFINE iter == task[u].iter
             done == Len(page[u])
             all  == Total(rq[u])
  <2>1. /\ iter \in Nat /\ all \in Nat /\ iter <= all
        /\ done = iter + 0
        /\ task[u].at = "queued" => iter = 0
    BY <1>2, <1>3, <1>5
  <2> HIDE DEF iter, done, all
  <2>2. done <= all /\ (task[u].at = "queued" => done = 0)
    BY <2>1
  <2> QED BY <1>1, <1>2, <1>5, <2>2 DEF done, all
<1> QED BY <1>4, <1>5

(* A step that serves a request ends it or brings its end nearer.          *)
LEMMA ServeAdvances ==
  ASSUME IInv, NEW u \in Users, Serve(u)
  PROVE  \/ rq'[u] = NoRequest
         \/ rq'[u] = rq[u] /\ Remaining(u)' < Remaining(u)
<1>1. rq[u] # NoRequest
  BY DEF Serve, Dispatch, NextSegment, Copy, EndRequest, IInv, TaskInv,
         Resting
<1>2. /\ Total(rq[u]) \in Nat /\ Len(page[u]) \in Nat
      /\ Len(page[u]) <= Total(rq[u])
      /\ task \in [Users -> Tasks]
      /\ page \in [Users -> Seq(Users \cup {Blank})]
  BY <1>1, RequestSize DEF IInv, TypeOK
<1>3. CASE Dispatch(u)
  <2>1. /\ task[u].at = "queued" /\ task'[u].at = "next"
        /\ rq' = rq /\ page' = page
    BY <1>2, <1>3 DEF Dispatch, Tasks
  <2> QED BY <1>2, <2>1 DEF Remaining, Toll
<1>4. CASE NextSegment(u)
  <2>1. IInv'
    BY <1>4, DispatchIInv
  <2>2. /\ task[u].at = "next" /\ task'[u].at \in {"copy", "io_fail"}
        /\ rq' = rq /\ page' = page
    BY <1>2, <1>4 DEF NextSegment, Tasks
  <2>3. task'[u].at = "copy"
    BY <1>1, <2>1, <2>2 DEF IInv, TaskInv
  <2> QED BY <1>2, <2>2, <2>3 DEF Remaining, Toll
<1>5. CASE Copy(u)
  <2>1. /\ task[u].at = "copy" /\ task'[u].at \in {"copy", "next"}
        /\ rq' = rq
    BY <1>2, <1>5 DEF Copy, Advanced, Tasks
  <2>2. \E e : page' = [page EXCEPT ![u] = Append(@, e)]
    BY <1>5 DEF Copy
  <2>3. Len(page'[u]) = Len(page[u]) + 1
    BY <1>2, <2>2
  <2> QED BY <1>2, <2>1, <2>3 DEF Remaining, Toll
<1>6. CASE EndRequest(u)
  BY <1>6, EndStep DEF IInv, TypeOK
<1> QED BY <1>3, <1>4, <1>5, <1>6 DEF Serve

(* The steps of others leave it where it is.                               *)
LEMMA OthersWait ==
  ASSUME IInv, [Next]_vars, NEW u \in Users, rq[u] # NoRequest, ~Serve(u)
  PROVE  rq'[u] = rq[u] /\ task'[u] = task[u] /\ page'[u] = page[u]
<1> USE DEF module, memory, users, io
<1>1. /\ task \in [Users -> Tasks]
      /\ rq \in [Users -> {NoRequest} \cup [dir : Dirs, extent : Extents]]
      /\ page \in [Users -> Seq(Users \cup {Blank})]
  BY DEF IInv, TypeOK
<1>2. CASE Driver
  BY <1>2 DEF Driver, Insmod, Align, Aligned, Setup, Allocate,
     AllocationFails, AddDisk, InitOpeners, Rmmod, Deallocate, Free,
     DelGendisk, Unregister
<1>3. CASE ScanOpens \/ ScanReleases
  BY <1>3 DEF ScanOpens, ScanReleases, Open, Release
<1>4. ASSUME NEW v \in Users, User(v)
      PROVE  rq'[u] = rq[u] /\ task'[u] = task[u] /\ page'[u] = page[u]
  BY <1>1, <1>4 DEF User, UserOpens, Open, Submit, UserReleases, Release
<1>5. ASSUME NEW v \in Users, Serve(v)
      PROVE  rq'[u] = rq[u] /\ task'[u] = task[u] /\ page'[u] = page[u]
  BY <1>1, <1>5 DEF Serve, Dispatch, NextSegment, Copy, EndRequest
<1>6. CASE Oops \/ UNCHANGED vars
  BY <1>6 DEF Oops, vars
<1> QED BY <1>2, <1>3, <1>4, <1>5, <1>6 DEF Next

(* A request of a user comes nearer to its end whenever it is served, and  *)
(* can be served until then, whatever others do (ramd.c:132-191).          *)
THEOREM RequestsProgress == Spec => []RequestBounded /\ RequestAdvances
<1>1. ASSUME IInv PROVE RequestBounded
  <2> SUFFICES ASSUME NEW u \in Users, rq[u] # NoRequest
               PROVE  /\ Remaining(u) \in 1..2 * Total(rq[u]) + 2
                      /\ \/ task[u].at \in {"queued", "copy"}
                         \/ /\ task[u].at = "next"
                            /\ task[u].iter <= Total(rq[u])
                            /\ task[u].iter < Total(rq[u]) => InRange(u)
    BY DEF RequestBounded
  <2>1. Remaining(u) \in 1..2 * Total(rq[u]) + 2
    BY <1>1, RequestSize DEF Remaining, Toll
  <2>2. task[u].iter < Total(rq[u]) /\ task[u].at = "next" => InRange(u)
    BY <1>1, SegmentFits
  <2>3. task[u].iter <= Total(rq[u])
    BY <1>1, RequestSize DEF Serving
  <2> QED BY <1>1, <2>1, <2>2, <2>3, RequestSize
<1>2. ASSUME IInv, [Next]_vars
      PROVE  Advance
  <2>1. ASSUME NEW u \in Users, rq[u] # NoRequest
        PROVE  \/ rq'[u] = NoRequest
               \/ rq'[u] = rq[u] /\ Remaining(u)' < Remaining(u)
               \/ rq'[u] = rq[u] /\ Remaining(u)' = Remaining(u) /\ ~Serve(u)
    <3>1. CASE Serve(u)
      BY <1>2, <2>1, <3>1, ServeAdvances
    <3>2. CASE ~Serve(u)
      <4>1. rq'[u] = rq[u] /\ task'[u] = task[u] /\ page'[u] = page[u]
        BY <1>2, <2>1, <3>2, OthersWait
      <4>2. Remaining(u)' = Remaining(u)
        BY <4>1 DEF Remaining
      <4> QED BY <3>2, <4>1, <4>2
    <3> QED BY <3>1, <3>2
  <2> QED BY <2>1 DEF Advance
<1> QED
  BY <1>1, <1>2, Invariant, PTL DEF Spec, RequestAdvances

=============================================================================
