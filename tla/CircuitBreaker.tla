---------------------------- MODULE CircuitBreaker ---------------------------
(***************************************************************************)
(* One entry of a per-container breaker map of one isolate, and the calls  *)
(* that go through it.  A call is two steps: execute() up to the await of  *)
(* fn(), and what its outcome does.  The failure count is kept up to the   *)
(* threshold and the time since the last failure up to the reset timeout:  *)
(* nothing the code compares them with is larger.                          *)
(***************************************************************************)
EXTENDS Integers

CONSTANTS
    Calls,       \* calls in flight at once
    Threshold,   \* failureThreshold
    HalfOpenMax, \* halfOpenMaxAttempts
    Reset        \* resetTimeoutMs, in ticks

ASSUME BreakerAssumption ==
    Threshold \in Nat \ {0} /\ HalfOpenMax \in Nat \ {0} /\ Reset \in Nat \ {0}

VARIABLES
    state, failureCount, halfOpenAttempts,
    since,    \* now - lastFailureTime
    calls,    \* "idle", or what the state was when the call was let through
    healthy,  \* whether the container answers now
    streak,   \* history: failures since the last success
    relapses  \* history: failures since the breaker went half-open

breaker == <<state, failureCount, halfOpenAttempts>>
vars == <<breaker, since, calls, healthy, streak, relapses>>

States == {"CLOSED", "OPEN", "HALF_OPEN"}

TypeOK ==
    /\ state \in States
    /\ failureCount \in 0..Threshold
    /\ halfOpenAttempts \in 0..HalfOpenMax
    /\ since \in 0..Reset
    /\ calls \in [Calls -> {"idle", "CLOSED", "HALF_OPEN"}]
    /\ healthy \in BOOLEAN
    /\ streak \in 0..Threshold
    /\ relapses \in 0..HalfOpenMax

Init ==
    /\ state = "CLOSED" /\ failureCount = 0 /\ halfOpenAttempts = 0
    /\ since = Reset
    /\ calls = [c \in Calls |-> "idle"]
    /\ healthy \in BOOLEAN
    /\ streak = 0 /\ relapses = 0

UpTo(n, max) == IF n < max THEN n + 1 ELSE max

-----------------------------------------------------------------------------
(* execute() *)

\* The call is let through.
Enter(c) ==
    /\ calls[c] = "idle" /\ state # "OPEN"
    /\ calls' = [calls EXCEPT ![c] = state]
    /\ UNCHANGED <<breaker, since, healthy, streak, relapses>>

\* (mutant: the attempts of the last half-open period are kept)
ProbeKeepsAttempts(c) ==
    /\ calls[c] = "idle" /\ state = "OPEN" /\ since >= Reset
    /\ state' = "HALF_OPEN"
    /\ calls' = [calls EXCEPT ![c] = "HALF_OPEN"]
    /\ relapses' = 0
    /\ UNCHANGED <<failureCount, halfOpenAttempts, since, healthy, streak>>

\* The first call after the timeout; before it, the call is refused and nothing
\* changes.
Probe(c) ==
    /\ calls[c] = "idle" /\ state = "OPEN" /\ since >= Reset
    /\ state' = "HALF_OPEN"
    /\ halfOpenAttempts' = 0
    /\ calls' = [calls EXCEPT ![c] = "HALF_OPEN"]
    /\ relapses' = 0
    /\ UNCHANGED <<failureCount, since, healthy, streak>>

\* (mutants: a success forgets no failures; it does not close a half-open breaker)
OnSuccessKeepsCount(c) ==
    /\ calls[c] # "idle" /\ healthy
    /\ state' = "CLOSED"
    /\ calls' = [calls EXCEPT ![c] = "idle"]
    /\ streak' = 0
    /\ UNCHANGED <<failureCount, halfOpenAttempts, since, healthy, relapses>>
OnSuccessKeepsState(c) ==
    /\ calls[c] # "idle" /\ healthy
    /\ failureCount' = 0
    /\ calls' = [calls EXCEPT ![c] = "idle"]
    /\ streak' = 0
    /\ UNCHANGED <<state, halfOpenAttempts, since, healthy, relapses>>

\* onSuccess(), whatever the state is by now
OnSuccess(c) ==
    /\ calls[c] # "idle" /\ healthy
    /\ failureCount' = 0
    /\ state' = "CLOSED"
    /\ calls' = [calls EXCEPT ![c] = "idle"]
    /\ streak' = 0
    /\ UNCHANGED <<halfOpenAttempts, since, healthy, relapses>>

\* (mutant: failures of the half-open period are only counted towards the threshold)
OnFailureNeverReopens(c) ==
    /\ calls[c] # "idle" /\ ~healthy
    /\ failureCount' = UpTo(failureCount, Threshold)
    /\ since' = 0
    /\ calls' = [calls EXCEPT ![c] = "idle"]
    /\ state' = IF state = "CLOSED" /\ failureCount' >= Threshold THEN "OPEN" ELSE state
    /\ streak' = UpTo(streak, Threshold)
    /\ relapses' = IF state = "HALF_OPEN" THEN UpTo(relapses, HalfOpenMax) ELSE relapses
    /\ UNCHANGED <<halfOpenAttempts, healthy>>

\* onFailure()
OnFailure(c) ==
    /\ calls[c] # "idle" /\ ~healthy
    /\ failureCount' = UpTo(failureCount, Threshold)
    /\ since' = 0
    /\ calls' = [calls EXCEPT ![c] = "idle"]
    /\ \/ /\ state = "HALF_OPEN"
          /\ halfOpenAttempts' = halfOpenAttempts + 1
          /\ state' = IF halfOpenAttempts' >= HalfOpenMax THEN "OPEN" ELSE state
       \/ /\ state # "HALF_OPEN"
          /\ state' = IF failureCount' >= Threshold THEN "OPEN" ELSE state
          /\ UNCHANGED halfOpenAttempts
    /\ streak' = UpTo(streak, Threshold)
    /\ relapses' = IF state = "HALF_OPEN" THEN UpTo(relapses, HalfOpenMax) ELSE relapses
    /\ UNCHANGED healthy

-----------------------------------------------------------------------------
(* Around it *)

\* The entry is dropped (TTL, LRU, a setup change, a new isolate) and the next
\* access makes a breaker; the calls in flight report to the one that is gone.
Forget ==
    /\ state' = "CLOSED" /\ failureCount' = 0 /\ halfOpenAttempts' = 0
    /\ since' = Reset
    /\ calls' = [c \in Calls |-> "idle"]
    /\ streak' = 0 /\ relapses' = 0
    /\ UNCHANGED healthy

Tick == since < Reset /\ since' = since + 1 /\ UNCHANGED <<breaker, calls, healthy, streak, relapses>>

\* The container starts or ceases to answer.
Turn == healthy' = ~healthy /\ UNCHANGED <<breaker, since, calls, streak, relapses>>

-----------------------------------------------------------------------------
Next ==
    \/ Forget \/ Tick \/ Turn
    \/ \E c \in Calls : Enter(c) \/ Probe(c) \/ OnSuccess(c) \/ OnFailure(c)

\* Time passes, a call ends, and callers keep asking (the status routes are polled).
Fairness ==
    /\ WF_vars(Tick)
    /\ \A c \in Calls : WF_vars(OnSuccess(c) \/ OnFailure(c))
    /\ WF_vars(\E c \in Calls : Enter(c) \/ Probe(c))

Spec == Init /\ [][Next]_vars
FairSpec == Spec /\ Fairness

-----------------------------------------------------------------------------
(* Properties *)

\* "CLOSED -> OPEN: After failureThreshold consecutive failures": whatever calls of
\* earlier periods end late, a breaker opens only on that many failures in a row.
OpensOnStreak ==
    [][state = "CLOSED" /\ state' = "OPEN" => streak' = Threshold]_vars

\* "HALF_OPEN -> OPEN: After halfOpenMaxAttempts failures": those of an earlier
\* half-open period do not count.
ReopensOnRelapse ==
    [][state = "HALF_OPEN" /\ state' = "OPEN" => relapses' = HalfOpenMax]_vars

\* Live: once the container answers for good, the breaker closes for good.
Recovers == (<>[]healthy) => <>[](state = "CLOSED")

\* Live: a container that never answers again is not left in the half-open state,
\* where every call goes through.
Shields == (<>[]~healthy) => []<>(state # "HALF_OPEN")

=============================================================================
