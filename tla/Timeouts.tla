------------------------------ MODULE Timeouts ------------------------------
(***************************************************************************)
(* Protocol::validate_timeout: the seconds that a caller is ready to wait, *)
(* an int of 32 bits, made into the milliseconds that poll takes.  It is   *)
(* given every int here; the callers in the repository pass 10 and -1.     *)
(*                                                                         *)
(* The numbers exceed those that TLC can compute with, and no system has   *)
(* states that depend on them, so that the module is only proved about.    *)
(***************************************************************************)

EXTENDS Integers, TLAPS

IntMax == 2147483647
IntMin == -2147483648
Int32  == {n \in Int : IntMin <= n /\ n <= IntMax}

timeout_limit == 30000

(* How an unsigned int that is assigned to an int is read.                 *)
Signed(n) == IF n > IntMax THEN n - 4294967296 ELSE n

(* Two's complement: ~t + 1u.                                              *)
Magnitude(t) == IF t < 0 THEN Signed((-t - 1) + 1) ELSE t

(* What is longer than the limit starts again from 2, but for multiples.   *)
WrapAround(t) ==
  LET rest == t % timeout_limit
  IN  IF t <= timeout_limit THEN t
      ELSE IF rest = 0 THEN 0 ELSE rest + 1

(* A product that no int holds is undefined, and may come out as any.      *)
Milliseconds(t) == IF t * 1000 \in Int32 THEN {t * 1000} ELSE Int32

(* What the timeout may become.                                            *)
validate_timeout(t) ==
  IF t \in {0, -1} THEN {t} ELSE Milliseconds(WrapAround(Magnitude(t)))

-----------------------------------------------------------------------------

LEMMA MagnitudeType ==
  ASSUME NEW t \in Int32, t # IntMin
  PROVE  Magnitude(t) \in Int32 /\ Magnitude(t) >= 0
BY DEF Magnitude, Signed, Int32, IntMin, IntMax

LEMMA WrapAroundType ==
  ASSUME NEW t \in Int32, t >= 0
  PROVE  WrapAround(t) \in 0 .. timeout_limit
<1>1. t % timeout_limit \in 0 .. timeout_limit - 1
  BY DEF timeout_limit, Int32
<1> QED BY <1>1 DEF WrapAround, timeout_limit, Int32

LEMMA MillisecondsDefined ==
  ASSUME NEW t \in 0 .. timeout_limit
  PROVE  Milliseconds(t) = {t * 1000}
BY DEF Milliseconds, Int32, IntMin, IntMax, timeout_limit

(* Whatever seconds are asked for, except the least int, the conversion    *)
(* neither overflows nor makes poll wait for ever where that was not asked *)
(* for (by -1), nor longer than the limit (Protocol.cpp:27-41).            *)
THEOREM WaitsAreBounded ==
  \A t \in Int32 \ {IntMin, -1} :
    \E s \in 0 .. timeout_limit : validate_timeout(t) = {s * 1000}
<1> SUFFICES ASSUME NEW t \in Int32, t # IntMin, t # -1
             PROVE  \E s \in 0 .. timeout_limit :
                      validate_timeout(t) = {s * 1000}
  OBVIOUS
<1>1. CASE t = 0
  BY <1>1 DEF validate_timeout, timeout_limit
<1>2. CASE t # 0
  <2> DEFINE w == WrapAround(Magnitude(t))
  <2>1. w \in 0 .. timeout_limit
    BY MagnitudeType, WrapAroundType
  <2>2. validate_timeout(t) = Milliseconds(w)
    BY <1>2 DEF validate_timeout
  <2> HIDE DEF w
  <2> QED BY <2>1, <2>2, MillisecondsDefined
<1> QED BY <1>1, <1>2

(* A wait of up to the limit is the one that was asked for, and so is one  *)
(* given as a negative number of seconds (Protocol.cpp:30-32, 40).         *)
THEOREM WaitsAsAsked ==
  \A t \in 1 .. timeout_limit :
    /\ validate_timeout(t) = {t * 1000}
    /\ t # 1 => validate_timeout(-t) = {t * 1000}
<1> SUFFICES ASSUME NEW t \in 1 .. timeout_limit
             PROVE  /\ validate_timeout(t) = {t * 1000}
                    /\ t # 1 => validate_timeout(-t) = {t * 1000}
  OBVIOUS
<1>1. Milliseconds(t) = {t * 1000}
  <2>1. t \in 0 .. timeout_limit
    BY DEF timeout_limit
  <2> QED BY <2>1, MillisecondsDefined
<1>2. Magnitude(t) = t /\ Magnitude(-t) = t
  BY DEF Magnitude, Signed, timeout_limit, IntMax
<1>3. WrapAround(t) = t
  BY DEF WrapAround, timeout_limit
<1>4. validate_timeout(t) = {t * 1000}
  BY <1>1, <1>2, <1>3 DEF validate_timeout, timeout_limit
<1>5. t # 1 => validate_timeout(-t) = {t * 1000}
  <2> SUFFICES ASSUME t # 1 PROVE validate_timeout(-t) = {t * 1000}
    OBVIOUS
  <2>1. -t \notin {0, -1}
    BY DEF timeout_limit
  <2> QED BY <1>1, <1>2, <1>3, <2>1 DEF validate_timeout
<1> QED BY <1>4, <1>5

(* Beyond the limit the wait does not get longer but starts again: one     *)
(* second more than the limit is two seconds, and its multiples are no     *)
(* wait at all (Protocol.cpp:34-38).                                       *)
THEOREM LongWaitsWrap ==
  \A k \in Nat \ {0} :
    timeout_limit * k + 1 \in Int32 =>
      /\ validate_timeout(timeout_limit * k + 1) = {2000}
      /\ k # 1 => validate_timeout(timeout_limit * k) = {0}
<1> SUFFICES ASSUME NEW k \in Nat \ {0}, 30000 * k + 1 \in Int32
             PROVE  /\ validate_timeout(30000 * k + 1) = {2000}
                    /\ k # 1 => validate_timeout(30000 * k) = {0}
  BY DEF timeout_limit
<1>1. /\ (30000 * k) % 30000 = 0
      /\ (30000 * k + 1) % 30000 = 1
  OBVIOUS
<1>2. /\ Magnitude(30000 * k) = 30000 * k
      /\ Magnitude(30000 * k + 1) = 30000 * k + 1
  BY DEF Magnitude
<1>3. /\ WrapAround(30000 * k + 1) = 2
      /\ k # 1 => WrapAround(30000 * k) = 0
  BY <1>1 DEF WrapAround, timeout_limit
<1>4. Milliseconds(2) = {2000} /\ Milliseconds(0) = {0}
  BY DEF Milliseconds, Int32, IntMin, IntMax
<1>5. validate_timeout(30000 * k + 1) = {2000}
  BY <1>2, <1>3, <1>4 DEF validate_timeout
<1>6. k # 1 => validate_timeout(30000 * k) = {0}
  BY <1>2, <1>3, <1>4 DEF validate_timeout
<1> QED BY <1>5, <1>6

(* The least int stays what it is when it is negated, passes under the     *)
(* limit and overflows: every outcome is possible (Protocol.cpp:31, 40).   *)
THEOREM LeastIntOverflows == validate_timeout(IntMin) = Int32
BY DEF validate_timeout, Milliseconds, WrapAround, Magnitude, Signed, Int32,
       IntMin, IntMax, timeout_limit

=============================================================================
