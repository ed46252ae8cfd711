------------------------------- MODULE Admission -----------------------------
(***************************************************************************)
(* What stands between a POST /container/start and the container: the rate *)
(* limiter of one user, with its KV record and its in-memory fallback, and *)
(* the count of running sessions.  A request is cut at its KV calls.  What *)
(* SessionLifecycle models in detail (the Container DO, the start itself)  *)
(* is coarse here: a session has a record and a container that runs.       *)
(***************************************************************************)
EXTENDS Integers, FiniteSets

CONSTANTS
    Sessions,    \* the sessions of the user
    Requests,    \* start requests in flight at once
    None,
    MaxSessions, \* of the tier, or of the role
    Limit,       \* maxRequests
    Window,      \* windowMs, in ticks
    MaxNow,      \* bound: the clock
    MaxArrivals, \* bound: start requests
    MaxFaults    \* bound: failed KV calls of the limiter

ASSUME AdmissionAssumption ==
    /\ IsFiniteSet(Sessions)
    /\ MaxSessions \in Nat /\ Limit \in Nat \ {0} /\ Window \in Nat \ {0}
    /\ MaxNow \in Nat /\ MaxArrivals \in Nat /\ MaxFaults \in Nat
    /\ None \notin [count : Nat, start : Nat] \cup Sessions

VARIABLES
    now,
    bucket,     \* KV: the count of the window, None if there is no record
    fallback,   \* inMemoryFallback of the isolate
    record,     \* KV: the status of each session
    up,         \* the containers that run
    req,        \* the requests
    arrivals, faults,
    since,      \* history: requests let through by the limiter at a time or later
    inWindow,   \* history: those counted in KV, by the start of their window
    raced,      \* history: a count was put over one its request had not read
    spilt,      \* history: let through by this isolate's own count, by its window
    excused     \* history: sessions let in, or healed, past an undecided start

limiter == <<bucket, fallback>>
history == <<since, inWindow, raced, spilt>>
vars == <<now, limiter, record, up, req, arrivals, faults, history, excused>>

-----------------------------------------------------------------------------
Times == 0..MaxNow
Entries == [count : Nat \ {0}, start : Times]
Idle == [at |-> "idle", session |-> None, now |-> 0, read |-> None, put |-> None,
         snap |-> "stopped"]

TypeOK ==
    /\ now \in Times
    /\ bucket \in Entries \cup {None} /\ fallback \in Entries \cup {None}
    /\ record \in [Sessions -> {"stopped", "running"}]
    /\ up \subseteq Sessions
    /\ req \in [Requests ->
         [at : {"idle", "rate", "put", "get", "count", "start", "boot", "rollback"},
          session : Sessions \cup {None}, now : Times, read : Entries \cup {None},
          put : Entries \cup {None}, snap : {"stopped", "running"}]]
    /\ arrivals \in 0..MaxArrivals /\ faults \in 0..MaxFaults
    /\ since \in [Times -> Nat] /\ inWindow \in [Times -> Nat]
    /\ raced \in BOOLEAN /\ spilt \in [Times -> Nat]
    /\ excused \subseteq Sessions

Init ==
    /\ now = 0
    /\ bucket = None /\ fallback = None
    /\ record = [s \in Sessions |-> "stopped"]
    /\ up = {}
    /\ req = [r \in Requests |-> Idle]
    /\ arrivals = 0 /\ faults = 0
    /\ since = [t \in Times |-> 0] /\ inWindow = [t \in Times |-> 0]
    /\ raced = FALSE /\ spilt = [t \in Times |-> 0]
    /\ excused = {}

Goes(r, at) == req' = [req EXCEPT ![r].at = at]
Ends(r) == req' = [req EXCEPT ![r] = Idle]

\* history: one more let through now
LetThrough == since' = [t \in Times |-> IF t <= now THEN since[t] + 1 ELSE since[t]]

-----------------------------------------------------------------------------
(* The rate limiter *)

\* checkRateLimit() takes its time before it reads.
Arrive(r, s) ==
    /\ req[r].at = "idle" /\ arrivals < MaxArrivals
    /\ arrivals' = arrivals + 1
    /\ req' = [req EXCEPT ![r] = [Idle EXCEPT !.at = "rate", !.session = s, !.now = now]]
    /\ UNCHANGED <<now, limiter, record, up, faults, history, excused>>

\* (mutant: each request moves its window on)
CountedMovesWindow(t) ==
    IF bucket # None /\ bucket.start > t - Window
    THEN [count |-> bucket.count + 1, start |-> t] ELSE [count |-> 1, start |-> t]

\* The entry with this request counted
Counted(t) ==
    IF bucket # None /\ bucket.start > t - Window
    THEN [bucket EXCEPT !.count = @ + 1] ELSE [count |-> 1, start |-> t]

\* (mutant: one more than the limit)
RateGetOneMore(r) ==
    LET entry == Counted(req[r].now) IN
    /\ req[r].at = "rate"
    /\ \/ entry.count > Limit + 1 /\ Ends(r)
       \/ /\ entry.count <= Limit + 1
          /\ req' = [req EXCEPT ![r].at = "put", ![r].read = bucket, ![r].put = entry]
    /\ UNCHANGED <<now, limiter, record, up, arrivals, faults, history, excused>>

RateGet(r) ==
    LET entry == Counted(req[r].now) IN
    /\ req[r].at = "rate"
    /\ \/ entry.count > Limit /\ Ends(r)
       \/ /\ entry.count <= Limit
          /\ req' = [req EXCEPT ![r].at = "put", ![r].read = bucket, ![r].put = entry]
    /\ UNCHANGED <<now, limiter, record, up, arrivals, faults, history, excused>>

RatePut(r) ==
    LET entry == req[r].put IN
    /\ req[r].at = "put"
    /\ bucket' = entry
    /\ Goes(r, "get")
    /\ LetThrough
    /\ inWindow' = [inWindow EXCEPT ![entry.start] = @ + 1]
    /\ raced' = (raced \/ bucket # req[r].read)
    /\ UNCHANGED <<now, fallback, record, up, arrivals, faults, spilt, excused>>

\* The get or the put throws: the isolate counts for itself.  A refused request is
\* counted too.
KvFails(r) ==
    LET entry == IF fallback # None /\ req[r].now - fallback.start < Window
                 THEN [fallback EXCEPT !.count = @ + 1]
                 ELSE [count |-> 1, start |-> req[r].now] IN
    /\ req[r].at \in {"rate", "put"} /\ faults < MaxFaults
    /\ faults' = faults + 1
    /\ fallback' = entry
    /\ \/ entry.count > Limit /\ Ends(r) /\ UNCHANGED <<since, spilt>>
       \/ /\ entry.count <= Limit
          /\ Goes(r, "get") /\ LetThrough
          /\ spilt' = [spilt EXCEPT ![entry.start] = @ + 1]
    /\ UNCHANGED <<now, bucket, record, up, arrivals, inWindow, raced, excused>>

-----------------------------------------------------------------------------
(* validateSessionAndCheckLimits, and the start it admits *)

SessionGet(r) ==
    /\ req[r].at = "get"
    /\ req' = [req EXCEPT ![r].at = "count", ![r].snap = record[req[r].session]]
    /\ UNCHANGED <<now, limiter, record, up, arrivals, faults, history, excused>>

Running == {s \in Sessions : record[s] = "running"}
Pending == {s \in Sessions : \E r \in Requests : req[r].at = "start" /\ req[r].session = s}

\* (mutant: one more than the tier allows)
CountOneMore(r) ==
    LET s == req[r].session IN
    /\ req[r].at = "count"
    /\ \/ /\ Cardinality(Running \ {s}) > MaxSessions
          /\ Ends(r) /\ UNCHANGED excused
       \/ /\ Cardinality(Running \ {s}) <= MaxSessions
          /\ Goes(r, "start")
          /\ excused' = IF Pending \subseteq Running \cup {s}
                        THEN excused \ {s} ELSE excused \cup {s}
    /\ UNCHANGED <<now, limiter, record, up, arrivals, faults, history>>

\* The running sessions but its own are counted from the keys' metadata.
Count(r) ==
    LET s == req[r].session IN
    /\ req[r].at = "count"
    /\ \/ /\ Cardinality(Running \ {s}) >= MaxSessions
          /\ Ends(r) /\ UNCHANGED excused
       \/ /\ Cardinality(Running \ {s}) < MaxSessions
          /\ Goes(r, "start")
          /\ excused' = IF Pending \subseteq Running \cup {s}
                        THEN excused \ {s} ELSE excused \cup {s}
    /\ UNCHANGED <<now, limiter, record, up, arrivals, faults, history>>

\* A step between the count and the start fails: bucket, credentials, the DO.
Refuse(r) ==
    /\ req[r].at = "start"
    /\ Ends(r)
    /\ UNCHANGED <<now, limiter, record, up, arrivals, faults, history, excused>>

\* startOrRestartContainer: the record is written if what was read before the
\* count was not "running".
Start(r) ==
    LET s == req[r].session IN
    /\ req[r].at = "start"
    /\ record' = IF req[r].snap # "running" THEN [record EXCEPT ![s] = "running"] ELSE record
    /\ IF s \in up THEN Ends(r) ELSE Goes(r, "boot")
    /\ UNCHANGED <<now, limiter, up, arrivals, faults, history, excused>>

Boot(r) ==
    /\ req[r].at = "boot"
    /\ \/ up' = up \cup {req[r].session} /\ Ends(r)
       \/ UNCHANGED up /\ Goes(r, "rollback")
    /\ UNCHANGED <<now, limiter, record, arrivals, faults, history, excused>>

Rollback(r) ==
    /\ req[r].at = "rollback"
    /\ record' = [record EXCEPT ![req[r].session] = "stopped"]
    /\ Ends(r)
    /\ UNCHANGED <<now, limiter, up, arrivals, faults, history, excused>>

-----------------------------------------------------------------------------
(* The sessions, and the world *)

\* POST /stop marks the record; the container goes later.
MarkStopped(s) ==
    /\ record[s] = "running"
    /\ record' = [record EXCEPT ![s] = "stopped"]
    /\ UNCHANGED <<now, limiter, up, req, arrivals, faults, history, excused>>

\* The container is gone, and its onStop or a tick has said so.
Exit(s) ==
    /\ s \in up
    /\ up' = up \ {s}
    /\ record' = [record EXCEPT ![s] = "stopped"]
    /\ UNCHANGED <<now, limiter, req, arrivals, faults, history, excused>>

\* A tick finds its container running and the record stopped, and writes it back.
Heal(s) ==
    /\ s \in up /\ record[s] = "stopped"
    /\ record' = [record EXCEPT ![s] = "running"]
    /\ excused' = excused \cup {s}
    /\ UNCHANGED <<now, limiter, up, req, arrivals, faults, history>>

Tick ==
    /\ now < MaxNow /\ now' = now + 1
    /\ UNCHANGED <<limiter, record, up, req, arrivals, faults, history, excused>>

\* The isolate goes, with its map and its requests.
Restart ==
    /\ fallback' = None /\ spilt' = [t \in Times |-> 0]
    /\ req' = [r \in Requests |-> Idle]
    /\ UNCHANGED <<now, bucket, record, up, arrivals, faults, since, inWindow, raced, excused>>

Next ==
    \/ Tick \/ Restart
    \/ \E s \in Sessions : MarkStopped(s) \/ Exit(s) \/ Heal(s)
    \/ \E r \in Requests : \E s \in Sessions : Arrive(r, s)
    \/ \E r \in Requests :
        RateGet(r) \/ RatePut(r) \/ KvFails(r) \/ SessionGet(r) \/ Count(r)
        \/ Refuse(r) \/ Start(r) \/ Boot(r) \/ Rollback(r)

Spec == Init /\ [][Next]_vars

-----------------------------------------------------------------------------
(* Properties *)

\* Nobody is refused for requests that were not made: neither count exceeds the
\* number of requests let through since its window began, however reads and writes
\* overlap (the fallback counts the refused, from the limit on).
CountsAreHonest ==
    /\ (bucket # None) => (bucket.count <= since[bucket.start])
    /\ (fallback # None) =>
            (fallback.count <= since[fallback.start] \/ Limit <= since[fallback.start])

\* Neither counter lets more than the limit through in a window of its own: not KV,
\* unless a count was put over another that its request had not read, and not the
\* memory of one isolate, which counts the requests whose KV call failed.  The two
\* do not know of each other: together they may let through more.
LimitHolds ==
    /\ raced \/ \A t \in Times : inWindow[t] <= Limit
    /\ \A t \in Times : spilt[t] <= Limit

\* REQ-SUB-013: the sessions that run, or are about to, are no more than the tier
\* allows, but for those that were counted while another start had passed the count
\* and not written its record, and those a tick has put back.
CapHolds == Cardinality((Running \cup Pending) \ excused) <= MaxSessions

-----------------------------------------------------------------------------
(* What the documents say and TLC refutes (README, section 6).              *)

\* "Check whether a request is within the sliding-window rate limit"
\* (rate-limit-core.ts:29): no stretch of a window's length sees more than the limit
\* let through.  Without a race and with no KV call failing, it does: a window is fixed
\* at its first request, and the next one may begin as soon as it ends.
SlidingLimit ==
    raced \/ \A t \in Times :
        since[t] - (IF t + Window \in Times THEN since[t + Window] ELSE 0) <= Limit

=============================================================================
