------------------------ MODULE CircuitBreaker_proofs ------------------------
(***************************************************************************)
(* Proofs about CircuitBreaker, for any set of calls and any thresholds.   *)
(* The two transitions into OPEN rest on one fact: what the breaker counts *)
(* is what really happened, however late the results come in.              *)
(***************************************************************************)
EXTENDS CircuitBreaker, TLAPS

\* A count kept up to a bound stays in its range, and only the last step reaches it.
LEMMA UpToRange ==
    ASSUME NEW max \in Nat \ {0}, NEW n \in 0..max
    PROVE  /\ UpTo(n, max) \in 0..max
           /\ n < max => UpTo(n, max) = n + 1
           /\ n = max => UpTo(n, max) = max
BY DEF UpTo

\* Setting one call to a value of its range keeps the map of calls.
LEMMA CallsRange ==
    ASSUME calls \in [Calls -> {"idle", "CLOSED", "HALF_OPEN"}], NEW c \in Calls
    PROVE  \A v \in {"idle", "CLOSED", "HALF_OPEN"} :
               [calls EXCEPT ![c] = v] \in [Calls -> {"idle", "CLOSED", "HALF_OPEN"}]
OBVIOUS

\* The counts are honest: failureCount is at most the failures since the last
\* success, and halfOpenAttempts those of the half-open period, of which there is
\* always one left.
Honest ==
    /\ failureCount <= streak
    /\ (state = "HALF_OPEN") => (halfOpenAttempts <= relapses /\ halfOpenAttempts < HalfOpenMax)

IInv == TypeOK /\ Honest

\* A breaker, whatever becomes of its calls, stays within its types and its counts
\* stay honest.
LEMMA Invariant == Spec => []IInv
<1>1. Init => IInv
  BY BreakerAssumption DEF Init, IInv, TypeOK, Honest, States
<1>2. IInv /\ [Next]_vars => IInv'
  <2> SUFFICES ASSUME IInv, [Next]_vars PROVE IInv'
    OBVIOUS
  <2> USE BreakerAssumption DEF IInv, TypeOK, Honest, States
  <2>1. CASE Forget
    BY <2>1 DEF Forget
  <2>2. CASE Tick
    BY <2>2 DEF Tick, breaker
  <2>3. CASE Turn
    <3>1. healthy' \in BOOLEAN
      BY <2>3 DEF Turn
    <3> QED
      BY <2>3, <3>1 DEF Turn, breaker
  <2>4. ASSUME NEW c \in Calls, Enter(c) PROVE IInv'
    BY <2>4, CallsRange DEF Enter, breaker
  <2>5. ASSUME NEW c \in Calls, Probe(c) PROVE IInv'
    BY <2>5, CallsRange DEF Probe
  <2>6. ASSUME NEW c \in Calls, OnSuccess(c) PROVE IInv'
    BY <2>6, CallsRange DEF OnSuccess
  <2>7. ASSUME NEW c \in Calls, OnFailure(c) PROVE IInv'
    <3>1. calls' \in [Calls -> {"idle", "CLOSED", "HALF_OPEN"}]
      BY <2>7, CallsRange DEF OnFailure
    <3>2. failureCount' \in 0..Threshold /\ streak' \in 0..Threshold /\ failureCount' <= streak'
      BY <2>7 DEF OnFailure, UpTo
    <3>3. relapses' \in 0..HalfOpenMax
      BY <2>7 DEF OnFailure, UpTo
    <3>4. halfOpenAttempts' \in 0..HalfOpenMax /\ state' \in States
      BY <2>7 DEF OnFailure
    <3>5. (state' = "HALF_OPEN") => (halfOpenAttempts' <= relapses' /\ halfOpenAttempts' < HalfOpenMax)
      BY <2>7 DEF OnFailure, UpTo
    <3> QED
      BY <2>7, <3>1, <3>2, <3>3, <3>4, <3>5 DEF OnFailure
  <2>8. CASE UNCHANGED vars
    BY <2>8 DEF vars, breaker
  <2> QED
    BY <2>1, <2>2, <2>3, <2>4, <2>5, <2>6, <2>7, <2>8 DEF Next
<1> QED
  BY <1>1, <1>2, PTL DEF Spec

\* Type correctness of the breaker for any number of calls in flight, and any
\* thresholds and timeout.
THEOREM BreakerTypeCorrect == Spec => []TypeOK
BY Invariant, PTL DEF IInv

\* A closed breaker opens only on failureThreshold failures in a row, whatever
\* calls of earlier periods report late.
THEOREM OpensOnlyOnStreak == Spec => OpensOnStreak
<1>1. IInv /\ [Next]_vars => [state = "CLOSED" /\ state' = "OPEN" => streak' = Threshold]_vars
  <2> SUFFICES ASSUME IInv, Next, state = "CLOSED", state' = "OPEN"
               PROVE  streak' = Threshold
    OBVIOUS
  <2> USE BreakerAssumption DEF IInv, TypeOK, Honest
  <2>1. PICK c \in Calls : OnFailure(c)
    BY DEF Next, Forget, Tick, Turn, Enter, Probe, OnSuccess, breaker
  <2>2. failureCount' >= Threshold
    BY <2>1 DEF OnFailure
  <2>3. failureCount' <= streak' /\ streak' <= Threshold /\ failureCount' \in Nat /\ streak' \in Nat
    BY <2>1 DEF OnFailure, UpTo
  <2> QED
    BY <2>2, <2>3
<1> QED
  BY <1>1, Invariant, PTL DEF Spec, OpensOnStreak

\* A half-open breaker opens again only on halfOpenMaxAttempts failures of that
\* period: those of an earlier one are forgotten.
THEOREM ReopensOnlyOnRelapse == Spec => ReopensOnRelapse
<1>1. IInv /\ [Next]_vars => [state = "HALF_OPEN" /\ state' = "OPEN" => relapses' = HalfOpenMax]_vars
  <2> SUFFICES ASSUME IInv, Next, state = "HALF_OPEN", state' = "OPEN"
               PROVE  relapses' = HalfOpenMax
    OBVIOUS
  <2> USE BreakerAssumption DEF IInv, TypeOK, Honest
  <2>1. PICK c \in Calls : OnFailure(c)
    BY DEF Next, Forget, Tick, Turn, Enter, Probe, OnSuccess, breaker
  <2>2. halfOpenAttempts' >= HalfOpenMax /\ halfOpenAttempts' = halfOpenAttempts + 1
    BY <2>1 DEF OnFailure
  <2> QED
    BY <2>1, <2>2 DEF OnFailure, UpTo
<1> QED
  BY <1>1, Invariant, PTL DEF Spec, ReopensOnRelapse

=============================================================================
