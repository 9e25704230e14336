--------------------------- MODULE BreakerProofs ----------------------------
(***************************************************************************)
(* What the flag of the circuit breaker says of the test calls, proved for *)
(* any number of threads and any number of failures that opens it.         *)
(***************************************************************************)
EXTENDS Breaker, FiniteSetTheorems, TLAPS

Tests == InFlight("probe") \ overtaken

(* The flag and the tests no other call's end came in the way of: one is   *)
(* out, or a Halt cut it off.                                              *)
FlagIsProbe ==
    /\ probing <=> (cut \/ Tests # {})
    /\ \A t, u \in Tests : t = u
    /\ cut => Tests = {}

(* Those that one did come in the way of are still out.                    *)
OvertakenAreOut == overtaken \subseteq InFlight("probe")

Inv == TypeOK /\ FlagIsProbe /\ OvertakenAreOut

LEMMA InitInv == Init => Inv
<1> SUFFICES ASSUME Init PROVE Inv
  OBVIOUS
<1>1. TypeOK
  <2>1. failures \in 0 .. FailuresToOpen
    BY BreakerAssumption DEF Init
  <2>2. post \in [Threads -> {"none", "call", "probe"}]
    BY DEF Init
  <2> QED BY <2>1, <2>2 DEF Init, TypeOK
<1>2. InFlight("probe") = {}
  BY DEF Init, InFlight
<1> QED BY <1>1, <1>2 DEF Init, Inv, FlagIsProbe, OvertakenAreOut, Tests

(* A call goes out; a test only if the flag is down.                       *)
LEMMA CallInv ==
  ASSUME Inv, NEW t \in Threads, Call(t)
  PROVE  Inv'
BY DEF Inv, TypeOK, FlagIsProbe, OvertakenAreOut, Tests, InFlight, Call, Send

LEMMA ProbeInv ==
  ASSUME Inv, NEW t \in Threads, Probe(t)
  PROVE  Inv'
BY DEF Inv, TypeOK, FlagIsProbe, OvertakenAreOut, Tests, InFlight, Probe, Send

(* A call ends: the flag is down, and any test still out is overtaken.     *)
LEMMA RecordInv ==
  ASSUME Inv, NEW t \in Threads, Record(t)
  PROVE  Inv'
<1> USE DEF Record, Over, EndProbe, Inv, TypeOK
<1>1. TypeOK'
  <2>1. PICK ok \in BOOLEAN : failures' = Failures(ok) /\ probing' = FALSE
                              /\ cooled' = (cooled /\ (ok \/ failures' < FailuresToOpen))
    OBVIOUS
  <2>2. failures' \in 0 .. FailuresToOpen
    BY <2>1, BreakerAssumption DEF Failures, Open
  <2>3. cooled' \in BOOLEAN /\ probing' \in BOOLEAN /\ cut' \in BOOLEAN /\ up' \in BOOLEAN
    BY <2>1
  <2>4. overtaken' \subseteq Threads /\ hit' \subseteq Threads
    BY DEF InFlight
  <2>5. post' \in [Threads -> {"none", "call", "probe"}]
    OBVIOUS
  <2> QED BY <2>2, <2>3, <2>4, <2>5
<1>2. InFlight("probe")' = InFlight("probe") \ {t}
  BY DEF InFlight
<1>3. Tests' = {} /\ OvertakenAreOut'
  BY <1>2 DEF Tests, OvertakenAreOut
<1>4. FlagIsProbe'
  BY <1>3 DEF FlagIsProbe
<1> QED BY <1>1, <1>3, <1>4

(* A Halt ends a call that nobody records.                                 *)
LEMMA HaltedInv ==
  ASSUME Inv, NEW t \in Threads, Halted(t)
  PROVE  Inv'
<1> USE DEF Halted, Over, Inv, TypeOK
<1>1. TypeOK'
  OBVIOUS
<1>2. InFlight("probe")' = InFlight("probe") \ {t}
  BY DEF InFlight
<1>3. Tests' = Tests \ {t} /\ OvertakenAreOut'
  BY <1>2 DEF Tests, OvertakenAreOut
<1>4. post[t] = "probe" <=> t \in InFlight("probe")
  BY DEF InFlight
<1>5. FlagIsProbe'
  BY <1>3, <1>4 DEF FlagIsProbe, Tests
<1> QED BY <1>1, <1>3, <1>5

(* Time passes, or the server turns.                                       *)
LEMMA WorldInv ==
  ASSUME Inv, Cool \/ Turn
  PROVE  Inv'
<1>1. TypeOK'
  BY DEF Inv, TypeOK, Cool, Turn
<1>2. FlagIsProbe' /\ OvertakenAreOut'
  BY DEF Inv, FlagIsProbe, OvertakenAreOut, Tests, InFlight, Cool, Turn
<1> QED BY <1>1, <1>2 DEF Inv

LEMMA NextInv == Inv /\ [Next]_vars => Inv'
<1> SUFFICES ASSUME Inv, [Next]_vars PROVE Inv'
  OBVIOUS
<1>1. CASE vars' = vars
  BY <1>1 DEF Inv, TypeOK, FlagIsProbe, OvertakenAreOut, Tests, InFlight, vars
<1> QED BY <1>1, CallInv, ProbeInv, RecordInv, HaltedInv, WorldInv DEF Next

(* The flag, the calls in flight and the failures counted agree.           *)
THEOREM BreakerInv == Spec => []Inv
BY InitInv, NextInv, PTL DEF Spec

(* The failures counted never pass the number that opens the breaker, and  *)
(* a thread has one call at most (allow, record).                          *)
THEOREM BreakerTypeOK == Spec => []TypeOK
<1>1. Inv => TypeOK
  BY DEF Inv
<1> QED BY <1>1, BreakerInv, PTL

(* At most one test call is out that no other call's end came in the way  *)
(* of, and probing says whether one is; a call from before the breaker     *)
(* opened may end at any time (allow, record).                             *)
THEOREM BreakerProbingIsProbe == Spec => []ProbingIsProbe
<1>1. ASSUME Inv PROVE ProbingIsProbe
  <2>1. CASE Tests = {}
    BY <1>1, <2>1, FS_EmptySet DEF Inv, FlagIsProbe, ProbingIsProbe, Tests
  <2>2. ASSUME NEW t \in Tests PROVE Cardinality(Tests) = 1
    <3>1. Tests = {t}
      BY <1>1 DEF Inv, FlagIsProbe
    <3> QED BY <3>1, FS_Singleton
  <2>3. CASE Tests # {}
    <3>1. Cardinality(Tests) = 1
      BY <2>2, <2>3
    <3> QED BY <1>1, <3>1 DEF Inv, FlagIsProbe, ProbingIsProbe, Tests
  <2> QED BY <2>1, <2>3
<1> QED BY <1>1, BreakerInv, PTL
=============================================================================
