--------------------------- MODULE Admission_proofs --------------------------
(***************************************************************************)
(* Proofs about Admission, for any sessions, requests, limits and bounds:  *)
(* the counts of the limiter are honest, each of the two counters keeps    *)
(* the limit (KV's but for writes that overlap), and the cap holds but for *)
(* the sessions it excuses.                                                *)
(***************************************************************************)
EXTENDS Admission, TLAPS, FiniteSetTheorems

Ats == {"idle", "rate", "put", "get", "count", "start", "boot", "rollback"}
Statuses == {"stopped", "running"}
Reqs == [at : Ats, session : Sessions \cup {None}, now : Times, read : Entries \cup {None},
         put : Entries \cup {None}, snap : Statuses]

USE AdmissionAssumption

-----------------------------------------------------------------------------
(* What the steps of a request do to the requests *)

LEMMA IdleIsTyped == Idle \in Reqs /\ Idle.at = "idle" /\ Idle.now = 0
BY DEF Idle, Reqs, Ats, Statuses, Times

\* Goes() changes where one request is, and nothing else.
LEMMA GoesEffect ==
    ASSUME req \in [Requests -> Reqs], NEW r \in Requests, NEW a \in Ats, Goes(r, a)
    PROVE  /\ req' \in [Requests -> Reqs]
           /\ req'[r].at = a /\ req'[r].now = req[r].now /\ req'[r].session = req[r].session
           /\ \A q \in Requests \ {r} : req'[q] = req[q]
BY DEF Goes, Reqs

\* Ends() makes one request idle, and leaves the others.
LEMMA EndsEffect ==
    ASSUME req \in [Requests -> Reqs], NEW r \in Requests, Ends(r)
    PROVE  /\ req' \in [Requests -> Reqs]
           /\ req'[r] = Idle
           /\ \A q \in Requests \ {r} : req'[q] = req[q]
BY IdleIsTyped DEF Ends

\* An entry is not None, and a count of one more is an entry.
LEMMA EntryFacts ==
    ASSUME NEW e \in Entries
    PROVE  /\ e # None /\ e.count \in Nat \ {0} /\ e.count \in Nat
           /\ e.start \in Times /\ e.start \in Nat
           /\ [e EXCEPT !.count = @ + 1] \in Entries
           /\ [e EXCEPT !.count = @ + 1].count = e.count + 1
           /\ [e EXCEPT !.count = @ + 1].start = e.start
<1>1. e \in [count : Nat, start : Nat]
  BY DEF Entries, Times
<1>2. e # None
  BY <1>1
<1> QED
  BY <1>1, <1>2 DEF Entries

\* A fresh window holds one request.
LEMMA FreshEntry ==
    ASSUME NEW t \in Times
    PROVE  LET e == [count |-> 1, start |-> t] IN
           e \in Entries /\ e.count = 1 /\ e.start = t
BY DEF Entries

-----------------------------------------------------------------------------
(* The strengthened invariant *)

\* A request is for a session.
Busy == \A r \in Requests : req[r].at # "idle" => req[r].session \in Sessions

\* The later the time, the fewer requests were let through since.
SinceFalls == \A t, u \in Times : t <= u => since[u] <= since[t]

\* Nothing begins in the future.
NothingAhead ==
    /\ (bucket # None) => (bucket.start <= now)
    /\ (fallback # None) => (fallback.start <= now)
    /\ \A r \in Requests : req[r].now <= now

\* What a request is about to put is what it read with itself counted, within the
\* limit, and but for itself it counts no request that was not let through.
PutIsHonest == \A r \in Requests : req[r].at = "put" =>
    /\ req[r].put \in Entries
    /\ req[r].put.count <= Limit
    /\ req[r].put.start <= now
    /\ req[r].put.count - 1 <= since[req[r].put.start]
    /\ \/ /\ req[r].read # None
          /\ req[r].put.count = req[r].read.count + 1
          /\ req[r].put.start = req[r].read.start
       \/ /\ req[r].put.count = 1
          /\ req[r].read # None => req[r].read.start < req[r].put.start

\* Without a race, KV counts all it let through in its window, and no later window
\* has let anything through.
Tallies == ~raced =>
    /\ \A t \in Times : inWindow[t] <= Limit
    /\ bucket = None => \A t \in Times : inWindow[t] = 0
    /\ bucket # None =>
          /\ inWindow[bucket.start] <= bucket.count
          /\ \A t \in Times : t > bucket.start => inWindow[t] = 0

\* The memory of the isolate counts all it let through in its window, and no later
\* window of it has let anything through.
Spills ==
    /\ \A t \in Times : spilt[t] <= Limit
    /\ fallback = None => \A t \in Times : spilt[t] = 0
    /\ fallback # None =>
          /\ spilt[fallback.start] <= fallback.count
          /\ \A t \in Times : t > fallback.start => spilt[t] = 0

Books == Busy /\ SinceFalls /\ NothingAhead /\ PutIsHonest /\ CountsAreHonest

IInv == TypeOK /\ Books /\ Tallies /\ Spills /\ CapHolds

-----------------------------------------------------------------------------
(* Types *)

LEMMA TypeInit == Init => TypeOK
<1> SUFFICES ASSUME Init PROVE TypeOK
  OBVIOUS
<1>1. 0 \in Times
  BY DEF Times
<1>2. req \in [Requests -> Reqs]
  BY IdleIsTyped DEF Init
<1>3. record \in [Sessions -> {"stopped", "running"}]
  BY DEF Init
<1>4. since \in [Times -> Nat] /\ inWindow \in [Times -> Nat] /\ spilt \in [Times -> Nat]
  BY DEF Init
<1>5. now \in Times /\ arrivals \in 0..MaxArrivals /\ faults \in 0..MaxFaults
  BY <1>1 DEF Init
<1>6. bucket \in Entries \cup {None} /\ fallback \in Entries \cup {None}
  BY DEF Init
<1>7. up \subseteq Sessions /\ excused \subseteq Sessions
  BY DEF Init
<1>8. raced \in BOOLEAN
  BY DEF Init
<1> QED
  BY <1>2, <1>3, <1>4, <1>5, <1>6, <1>7, <1>8 DEF TypeOK, Reqs, Ats, Statuses

\* The history of the limiter is typed whatever is let through.
LEMMA LetThroughTyped ==
    ASSUME TypeOK, LetThrough
    PROVE  /\ since' \in [Times -> Nat]
           /\ \A t \in Times : since'[t] = IF t <= now THEN since[t] + 1 ELSE since[t]
BY DEF TypeOK, LetThrough, Times

\* The count a request makes is an entry: the one of the window that is open, or
\* that of a new one.
LEMMA CountedEntry ==
    ASSUME TypeOK, NEW t \in Times
    PROVE  /\ Counted(t) \in Entries
           /\ \/ /\ bucket # None
                 /\ Counted(t).count = bucket.count + 1
                 /\ Counted(t).start = bucket.start
              \/ /\ Counted(t).count = 1 /\ Counted(t).start = t
                 /\ bucket # None => bucket.start <= t - Window
<1>1. bucket \in Entries \cup {None}
  BY DEF TypeOK
<1>2. CASE bucket # None /\ bucket.start > t - Window
  <2>1. bucket \in Entries
    BY <1>1, <1>2
  <2>2. Counted(t) = [bucket EXCEPT !.count = @ + 1]
    BY <1>2 DEF Counted
  <2> QED
    BY <1>2, <2>1, <2>2, EntryFacts
<1>3. CASE ~(bucket # None /\ bucket.start > t - Window)
  <2>1. Counted(t) = [count |-> 1, start |-> t]
    BY <1>3 DEF Counted
  <2>2. ASSUME bucket # None PROVE bucket.start <= t - Window
    <3>1. bucket.start \in Times
      BY <1>1, <2>2, EntryFacts
    <3> QED
      BY <1>3, <2>2, <3>1 DEF Times
  <2> QED
    BY <2>1, <2>2, FreshEntry
<1> QED
  BY <1>2, <1>3

\* The requests of a typed state are typed, in the words of this module.
LEMMA ReqTyped == ASSUME TypeOK PROVE req \in [Requests -> Reqs]
BY DEF TypeOK, Reqs, Ats, Statuses

\* Counting a request, from what KV holds: the request waits with its put.
LEMMA RateGetEffect ==
    ASSUME TypeOK, NEW r \in Requests, RateGet(r)
    PROVE  LET entry == Counted(req[r].now) IN
           \/ entry.count > Limit /\ Ends(r)
           \/ /\ entry.count <= Limit
              /\ req' \in [Requests -> Reqs]
              /\ req'[r].at = "put" /\ req'[r].read = bucket /\ req'[r].put = entry
              /\ req'[r].now = req[r].now /\ req'[r].session = req[r].session
              /\ \A q \in Requests \ {r} : req'[q] = req[q]
<1> DEFINE entry == Counted(req[r].now)
<1>1. req \in [Requests -> Reqs] /\ bucket \in Entries \cup {None}
  BY ReqTyped DEF TypeOK
<1>2. entry \in Entries
  BY <1>1, CountedEntry DEF Reqs
<1> HIDE DEF entry
<1>3. \/ entry.count > Limit /\ Ends(r)
      \/ /\ entry.count <= Limit
         /\ req' = [req EXCEPT ![r].at = "put", ![r].read = bucket, ![r].put = entry]
  BY DEF RateGet, entry
<1>4. ASSUME req' = [req EXCEPT ![r].at = "put", ![r].read = bucket, ![r].put = entry]
      PROVE  /\ req' \in [Requests -> Reqs]
             /\ req'[r].at = "put" /\ req'[r].read = bucket /\ req'[r].put = entry
             /\ req'[r].now = req[r].now /\ req'[r].session = req[r].session
             /\ \A q \in Requests \ {r} : req'[q] = req[q]
  <2> DEFINE new == [req[r] EXCEPT !.at = "put", !.read = bucket, !.put = entry]
  <2>1. new \in Reqs
    BY <1>1, <1>2 DEF Reqs, Ats
  <2>2. /\ new.at = "put" /\ new.read = bucket /\ new.put = entry
        /\ new.now = req[r].now /\ new.session = req[r].session
    BY <1>1 DEF Reqs
  <2>3. req' = [req EXCEPT ![r] = new]
    BY <1>4
  <2> HIDE DEF new
  <2> QED
    BY <1>1, <2>1, <2>2, <2>3
<1> QED
  BY <1>3, <1>4 DEF entry

\* The count of the isolate, when KV fails.
KvEntry(r) ==
    IF fallback # None /\ req[r].now - fallback.start < Window
    THEN [fallback EXCEPT !.count = @ + 1]
    ELSE [count |-> 1, start |-> req[r].now]

LEMMA KvEntryFacts ==
    ASSUME TypeOK, NEW r \in Requests
    PROVE  /\ KvEntry(r) \in Entries
           /\ \/ /\ fallback # None
                 /\ KvEntry(r).count = fallback.count + 1
                 /\ KvEntry(r).start = fallback.start
              \/ /\ KvEntry(r).count = 1 /\ KvEntry(r).start = req[r].now
                 /\ fallback # None => fallback.start < KvEntry(r).start
<1>1. fallback \in Entries \cup {None} /\ req[r].now \in Times
  BY ReqTyped DEF TypeOK, Reqs
<1>2. CASE fallback # None /\ req[r].now - fallback.start < Window
  BY <1>1, <1>2, EntryFacts DEF KvEntry
<1>3. CASE ~(fallback # None /\ req[r].now - fallback.start < Window)
  <2>1. KvEntry(r) = [count |-> 1, start |-> req[r].now]
    BY <1>3 DEF KvEntry
  <2>2. ASSUME fallback # None PROVE fallback.start < req[r].now
    <3>1. fallback.start \in Nat
      BY <1>1, <2>2, EntryFacts
    <3>2. req[r].now \in Nat
      BY <1>1 DEF Times
    <3> QED
      BY <1>3, <2>2, <3>1, <3>2
  <2> QED
    BY <1>1, <2>1, <2>2, FreshEntry
<1> QED
  BY <1>2, <1>3

LEMMA KvFailsEffect ==
    ASSUME TypeOK, NEW r \in Requests, KvFails(r)
    PROVE  /\ fallback' = KvEntry(r)
           /\ faults' = faults + 1 /\ faults' \in 0..MaxFaults
           /\ \/ KvEntry(r).count > Limit /\ Ends(r) /\ UNCHANGED <<since, spilt>>
              \/ /\ KvEntry(r).count <= Limit /\ Goes(r, "get") /\ LetThrough
                 /\ spilt' = [spilt EXCEPT ![KvEntry(r).start] = @ + 1]
BY DEF KvFails, KvEntry, TypeOK

\* A newcomer has taken its time.
LEMMA ArriveEffect ==
    ASSUME TypeOK, NEW r \in Requests, NEW s \in Sessions, Arrive(r, s)
    PROVE  /\ req' \in [Requests -> Reqs]
           /\ req'[r].at = "rate" /\ req'[r].now = now /\ req'[r].session = s
           /\ \A q \in Requests \ {r} : req'[q] = req[q]
<1> DEFINE new == [Idle EXCEPT !.at = "rate", !.session = s, !.now = now]
<1>1. new \in Reqs /\ new.at = "rate" /\ new.now = now /\ new.session = s
  BY IdleIsTyped DEF TypeOK, Idle, Reqs, Ats
<1>2. req' = [req EXCEPT ![r] = new]
  BY DEF Arrive
<1> HIDE DEF new
<1> QED
  BY <1>1, <1>2, ReqTyped

\* A session's record is read into the request.
LEMMA SessionGetEffect ==
    ASSUME TypeOK, Busy, NEW r \in Requests, SessionGet(r)
    PROVE  /\ req' \in [Requests -> Reqs]
           /\ req'[r].at = "count" /\ req'[r].now = req[r].now
           /\ req'[r].session = req[r].session
           /\ \A q \in Requests \ {r} : req'[q] = req[q]
<1>1. record[req[r].session] \in Statuses
  BY DEF TypeOK, Statuses, Busy, SessionGet
<1> QED
  BY <1>1, ReqTyped DEF SessionGet, Reqs, Ats

\* A put counts one more let through, since any time up to now and in its window.
LEMMA RatePutEffect ==
    ASSUME TypeOK, PutIsHonest, NEW r \in Requests, RatePut(r)
    PROVE  /\ req[r].at = "put"
           /\ bucket' = req[r].put
           /\ req[r].put.start \in Times
           /\ inWindow' \in [Times -> Nat]
           /\ \A t \in Times : inWindow'[t] = IF t = req[r].put.start
                                           THEN inWindow[t] + 1 ELSE inWindow[t]
<1>1. req[r].at = "put"
  BY DEF RatePut
<1> DEFINE start == req[r].put.start
<1>2. start \in Times
  BY <1>1, EntryFacts DEF PutIsHonest
<1>3. inWindow' = [inWindow EXCEPT ![start] = @ + 1]
  BY DEF RatePut
<1>4. inWindow \in [Times -> Nat]
  BY DEF TypeOK
<1> HIDE DEF start
<1>5. /\ inWindow' \in [Times -> Nat]
      /\ \A t \in Times : inWindow'[t] = IF t = start THEN inWindow[t] + 1 ELSE inWindow[t]
  BY <1>2, <1>3, <1>4
<1>6. bucket' = req[r].put
  BY DEF RatePut
<1> QED
  BY <1>1, <1>2, <1>5, <1>6 DEF start

-----------------------------------------------------------------------------
(* Every step keeps the types *)

LEMMA TypeStep == TypeOK /\ Busy /\ PutIsHonest /\ [Next]_vars => TypeOK'
<1> SUFFICES ASSUME TypeOK, Busy, PutIsHonest, [Next]_vars PROVE TypeOK'
  OBVIOUS
<1> USE DEF limiter, history
<1>1. CASE UNCHANGED vars
  BY <1>1 DEF vars, TypeOK
<1>2. CASE Tick
  <2>1. now' \in Times
    BY <1>2 DEF Tick, TypeOK, Times
  <2> QED
    BY <1>2, <2>1 DEF Tick, TypeOK
<1>3. CASE Restart
  <2>1. req' \in [Requests -> Reqs]
    BY <1>3, IdleIsTyped DEF Restart
  <2>2. spilt' \in [Times -> Nat]
    BY <1>3 DEF Restart
  <2> QED
    BY <1>3, <2>1, <2>2 DEF Restart, TypeOK, Reqs, Ats, Statuses
<1>4. ASSUME NEW s \in Sessions, MarkStopped(s) PROVE TypeOK'
  BY <1>4 DEF MarkStopped, TypeOK
<1>5. ASSUME NEW s \in Sessions, Exit(s) PROVE TypeOK'
  BY <1>5 DEF Exit, TypeOK
<1>6. ASSUME NEW s \in Sessions, Heal(s) PROVE TypeOK'
  BY <1>6 DEF Heal, TypeOK
<1>7. ASSUME NEW r \in Requests, NEW s \in Sessions, Arrive(r, s) PROVE TypeOK'
  <2>1. req' \in [Requests -> Reqs]
    BY <1>7, ArriveEffect
  <2>2. arrivals' \in 0..MaxArrivals
    BY <1>7 DEF Arrive, TypeOK
  <2> QED
    BY <1>7, <2>1, <2>2 DEF Arrive, TypeOK, Reqs, Ats, Statuses
<1>8. ASSUME NEW r \in Requests, RateGet(r) PROVE TypeOK'
  <2>1. req' \in [Requests -> Reqs]
    BY <1>8, RateGetEffect, ReqTyped, EndsEffect
  <2> QED
    BY <1>8, <2>1 DEF RateGet, TypeOK, Reqs, Ats, Statuses
<1>9. ASSUME NEW r \in Requests, RatePut(r) PROVE TypeOK'
  <2>1. req' \in [Requests -> Reqs]
    BY <1>9, ReqTyped, GoesEffect DEF RatePut, Ats
  <2>2. req[r].put \in Entries
    BY <1>9 DEF RatePut, PutIsHonest
  <2>3. since' \in [Times -> Nat]
    BY <1>9, LetThroughTyped DEF RatePut
  <2>4. inWindow' \in [Times -> Nat]
    BY <1>9, RatePutEffect
  <2>5. raced' \in BOOLEAN
    BY <1>9 DEF RatePut
  <2> QED
    BY <1>9, <2>1, <2>2, <2>3, <2>4, <2>5 DEF RatePut, TypeOK, Reqs, Ats, Statuses
<1>10. ASSUME NEW r \in Requests, KvFails(r) PROVE TypeOK'
  <2>1. req' \in [Requests -> Reqs]
    BY <1>10, KvFailsEffect, ReqTyped, GoesEffect, EndsEffect DEF Ats
  <2>2. since' \in [Times -> Nat]
    BY <1>10, KvFailsEffect, LetThroughTyped DEF TypeOK
  <2>3. fallback' \in Entries /\ faults' \in 0..MaxFaults
    BY <1>10, KvFailsEffect, KvEntryFacts
  <2>4. spilt' \in [Times -> Nat]
    BY <1>10, KvFailsEffect, KvEntryFacts, EntryFacts DEF TypeOK
  <2> QED
    BY <1>10, <2>1, <2>2, <2>3, <2>4 DEF KvFails, TypeOK, Reqs, Ats, Statuses
<1>11. ASSUME NEW r \in Requests, SessionGet(r) PROVE TypeOK'
  <2>1. req' \in [Requests -> Reqs]
    BY <1>11, SessionGetEffect
  <2> QED
    BY <1>11, <2>1 DEF SessionGet, TypeOK, Reqs, Ats, Statuses
<1>12. ASSUME NEW r \in Requests, Count(r) PROVE TypeOK'
  <2>1. req' \in [Requests -> Reqs]
    BY <1>12, ReqTyped, GoesEffect, EndsEffect DEF Count, Ats
  <2>2. excused' \subseteq Sessions
    BY <1>12 DEF Count, TypeOK, Busy
  <2> QED
    BY <1>12, <2>1, <2>2 DEF Count, TypeOK, Reqs, Ats, Statuses
<1>13. ASSUME NEW r \in Requests, Refuse(r) PROVE TypeOK'
  <2>1. req' \in [Requests -> Reqs]
    BY <1>13, ReqTyped, EndsEffect DEF Refuse
  <2> QED
    BY <1>13, <2>1 DEF Refuse, TypeOK, Reqs, Ats, Statuses
<1>14. ASSUME NEW r \in Requests, Start(r) PROVE TypeOK'
  <2>1. req' \in [Requests -> Reqs]
    BY <1>14, ReqTyped, GoesEffect, EndsEffect DEF Start, Ats
  <2>2. record' \in [Sessions -> {"stopped", "running"}]
    BY <1>14 DEF Start, TypeOK
  <2> QED
    BY <1>14, <2>1, <2>2 DEF Start, TypeOK, Reqs, Ats, Statuses
<1>15. ASSUME NEW r \in Requests, Boot(r) PROVE TypeOK'
  <2>1. req' \in [Requests -> Reqs]
    BY <1>15, ReqTyped, GoesEffect, EndsEffect DEF Boot, Ats
  <2>2. up' \subseteq Sessions
    BY <1>15 DEF Boot, TypeOK, Busy
  <2> QED
    BY <1>15, <2>1, <2>2 DEF Boot, TypeOK, Reqs, Ats, Statuses
<1>16. ASSUME NEW r \in Requests, Rollback(r) PROVE TypeOK'
  <2>1. req' \in [Requests -> Reqs]
    BY <1>16, ReqTyped, EndsEffect DEF Rollback
  <2>2. record' \in [Sessions -> {"stopped", "running"}]
    BY <1>16 DEF Rollback, TypeOK
  <2> QED
    BY <1>16, <2>1, <2>2 DEF Rollback, TypeOK, Reqs, Ats, Statuses
<1> QED
  BY <1>1, <1>2, <1>3, <1>4, <1>5, <1>6, <1>7, <1>8, <1>9, <1>10, <1>11, <1>12, <1>13,
     <1>14, <1>15, <1>16 DEF Next

-----------------------------------------------------------------------------
(* The counts are honest *)

\* What is let through is let through now: the history grows, and at every time up to
\* now by one.
LEMMA SinceGrows ==
    ASSUME TypeOK, SinceFalls, LetThrough \/ UNCHANGED since
    PROVE  SinceFalls' /\ \A t \in Times : since'[t] \in Nat /\ since[t] <= since'[t]
<1>1. \A t \in Times : since[t] \in Nat /\ t \in Nat
  BY DEF TypeOK, Times
<1>2. now \in Nat
  BY DEF TypeOK, Times
<1>3. CASE LetThrough
  BY <1>1, <1>2, <1>3, LetThroughTyped DEF SinceFalls
<1>4. CASE UNCHANGED since
  BY <1>1, <1>4 DEF SinceFalls
<1> QED
  BY <1>3, <1>4

LEMMA BooksInit == Init => Books
<1> SUFFICES ASSUME Init PROVE Books
  OBVIOUS
<1>1. \A r \in Requests : req[r] = Idle
  BY DEF Init
<1> QED
  BY <1>1, IdleIsTyped DEF Init, Books, Busy, SinceFalls, NothingAhead, PutIsHonest,
     CountsAreHonest

\* Where the requests only become idle or move on without a put, and what is let
\* through only grows, the promises of the others stand.
Settled ==
    /\ LetThrough \/ UNCHANGED since
    /\ now' \in Times /\ now <= now'
    /\ \A r \in Requests :
          \/ req'[r] = req[r]
          \/ req'[r] = Idle
          \/ /\ req'[r].at # "put" /\ req'[r].session \in Sessions
             /\ req'[r].now \in {req[r].now, now}

LEMMA SettledKeeps ==
    ASSUME TypeOK, Busy, SinceFalls, NothingAhead, PutIsHonest, Settled
    PROVE  Busy' /\ SinceFalls' /\ PutIsHonest' /\ \A r \in Requests : req'[r].now <= now'
<1>1. SinceFalls' /\ \A t \in Times : since'[t] \in Nat /\ since[t] \in Nat /\ since[t] <= since'[t]
  BY SinceGrows DEF Settled, TypeOK
<1>2. Busy'
  BY IdleIsTyped DEF Settled, Busy
<1>3. now \in Nat /\ now' \in Nat /\ now <= now' /\ \A r \in Requests : req[r].now \in Nat
  BY ReqTyped DEF TypeOK, Times, Settled, Reqs
<1>4. \A r \in Requests : req'[r].now <= now'
  BY <1>3, IdleIsTyped DEF Settled, NothingAhead
<1>5. ASSUME NEW r \in Requests, req'[r].at = "put"
      PROVE  req'[r] = req[r]
  BY <1>5, IdleIsTyped DEF Settled
<1>6. PutIsHonest'
  <2> SUFFICES ASSUME NEW r \in Requests, req'[r].at = "put"
               PROVE  /\ req'[r].put \in Entries
                      /\ req'[r].put.count <= Limit
                      /\ req'[r].put.start <= now'
                      /\ req'[r].put.count - 1 <= since'[req'[r].put.start]
                      /\ \/ /\ req'[r].read # None
                            /\ req'[r].put.count = req'[r].read.count + 1
                            /\ req'[r].put.start = req'[r].read.start
                         \/ /\ req'[r].put.count = 1
                            /\ req'[r].read # None => req'[r].read.start < req'[r].put.start
    BY DEF PutIsHonest
  <2>1. req'[r] = req[r]
    BY <1>5
  <2>2. /\ req[r].put \in Entries
        /\ req[r].put.start <= now
        /\ req[r].put.count - 1 <= since[req[r].put.start]
    BY <2>1 DEF PutIsHonest
  <2>3. req[r].put.start \in Times /\ req[r].put.count \in Nat /\ req[r].put.start \in Nat
    BY <2>2, EntryFacts
  <2>4. req[r].put.start <= now' /\ req[r].put.count - 1 <= since'[req[r].put.start]
    BY <1>1, <1>3, <2>2, <2>3
  <2> QED
    BY <2>1, <2>2, <2>4 DEF PutIsHonest
<1> QED
  BY <1>1, <1>2, <1>4, <1>6

\* The stored counts stand when the entries do.
LEMMA CountsStand ==
    ASSUME TypeOK, SinceFalls, NothingAhead, CountsAreHonest, Settled,
           bucket' = bucket, fallback' \in {fallback, None}
    PROVE  /\ CountsAreHonest'
           /\ bucket' # None => bucket'.start <= now'
           /\ fallback' # None => fallback'.start <= now'
<1>1. \A t \in Times : since'[t] \in Nat /\ since[t] \in Nat /\ since[t] <= since'[t]
  BY SinceGrows DEF Settled, TypeOK
<1>2. now \in Nat /\ now' \in Nat /\ now <= now'
  BY DEF TypeOK, Times, Settled
<1>3. ASSUME bucket # None
      PROVE  bucket.count <= since'[bucket.start] /\ bucket.start <= now'
  <2>1. bucket \in Entries
    BY <1>3 DEF TypeOK
  <2>2. bucket.start \in Times /\ bucket.start \in Nat /\ bucket.count \in Nat
    BY <2>1, EntryFacts
  <2> QED
    BY <1>1, <1>2, <1>3, <2>2 DEF CountsAreHonest, NothingAhead
<1>4. ASSUME fallback # None
      PROVE  /\ fallback.count <= since'[fallback.start] \/ Limit <= since'[fallback.start]
             /\ fallback.start <= now'
  <2>1. fallback \in Entries
    BY <1>4 DEF TypeOK
  <2>2. fallback.start \in Times /\ fallback.start \in Nat /\ fallback.count \in Nat
    BY <2>1, EntryFacts
  <2> QED
    BY <1>1, <1>2, <1>4, <2>2 DEF CountsAreHonest, NothingAhead
<1> QED
  BY <1>3, <1>4 DEF CountsAreHonest

\* How the moves of a request settle.
LEMMA MovesSettle ==
    ASSUME TypeOK, Busy, NEW r \in Requests
    PROVE  LET settled == \A q \in Requests :
                   \/ req'[q] = req[q]
                   \/ req'[q] = Idle
                   \/ /\ req'[q].at # "put" /\ req'[q].session \in Sessions
                      /\ req'[q].now \in {req[q].now, now} IN
           /\ \A a \in Ats \ {"put"} : Goes(r, a) /\ req[r].at # "idle" => settled
           /\ Ends(r) => settled
           /\ SessionGet(r) => settled
           /\ \A s \in Sessions : Arrive(r, s) => settled
<1>1. req \in [Requests -> Reqs]
  BY ReqTyped
<1>2. ASSUME NEW a \in Ats \ {"put"}, Goes(r, a), req[r].at # "idle"
      PROVE  /\ \A q \in Requests \ {r} : req'[q] = req[q]
             /\ req'[r].at # "put" /\ req'[r].session \in Sessions /\ req'[r].now = req[r].now
  BY <1>1, <1>2, GoesEffect DEF Busy
<1>3. ASSUME Ends(r)
      PROVE  req'[r] = Idle /\ \A q \in Requests \ {r} : req'[q] = req[q]
  BY <1>1, <1>3, EndsEffect
<1>4. ASSUME SessionGet(r)
      PROVE  /\ \A q \in Requests \ {r} : req'[q] = req[q]
             /\ req'[r].at # "put" /\ req'[r].session \in Sessions /\ req'[r].now = req[r].now
  <2>1. req[r].at = "get"
    BY <1>4 DEF SessionGet
  <2> QED
    BY <1>4, <2>1, SessionGetEffect DEF Busy
<1>5. ASSUME NEW s \in Sessions, Arrive(r, s)
      PROVE  /\ \A q \in Requests \ {r} : req'[q] = req[q]
             /\ req'[r].at # "put" /\ req'[r].session \in Sessions /\ req'[r].now = now
  BY <1>5, ArriveEffect
<1> QED
  BY <1>2, <1>3, <1>4, <1>5

\* The steps that write neither count: they settle.
Settling ==
    \/ Tick \/ Restart
    \/ \E s \in Sessions : MarkStopped(s) \/ Exit(s) \/ Heal(s)
    \/ \E r \in Requests : \E s \in Sessions : Arrive(r, s)
    \/ \E r \in Requests : (RateGet(r) /\ Ends(r)) \/ SessionGet(r) \/ Count(r)
          \/ Refuse(r) \/ Start(r) \/ Boot(r) \/ Rollback(r)
    \/ UNCHANGED vars

LEMMA SettlingSettles ==
    ASSUME TypeOK, Busy, Settling
    PROVE  /\ Settled /\ bucket' = bucket /\ fallback' \in {fallback, None}
           /\ UNCHANGED <<inWindow, raced>>
           /\ UNCHANGED <<fallback, spilt>> \/ Restart
<1> USE DEF limiter, history
<1>1. now \in Times /\ now \in Nat /\ now <= now
  BY DEF TypeOK, Times
<1>2. CASE Tick
  BY <1>1, <1>2 DEF Tick, Times, Settled
<1>3. CASE Restart
  BY <1>1, <1>3 DEF Restart, Settled
<1>4. ASSUME NEW s \in Sessions, MarkStopped(s) \/ Exit(s) \/ Heal(s)
      PROVE  /\ Settled /\ UNCHANGED <<limiter, inWindow, raced, spilt>>
  BY <1>1, <1>4 DEF MarkStopped, Exit, Heal, Settled
<1>5. ASSUME NEW r \in Requests, NEW s \in Sessions, Arrive(r, s)
      PROVE  /\ Settled /\ UNCHANGED <<limiter, inWindow, raced, spilt>>
  <2>1. UNCHANGED <<now, limiter, history>>
    BY <1>5 DEF Arrive
  <2> QED
    BY <1>1, <1>5, <2>1, MovesSettle DEF Settled
<1>6. ASSUME NEW r \in Requests,
             (RateGet(r) /\ Ends(r)) \/ SessionGet(r) \/ Count(r) \/ Refuse(r) \/ Start(r)
             \/ Boot(r) \/ Rollback(r)
      PROVE  /\ Settled /\ UNCHANGED <<limiter, inWindow, raced, spilt>>
  <2>1. UNCHANGED <<now, limiter, history>>
    BY <1>6 DEF RateGet, SessionGet, Count, Refuse, Start, Boot, Rollback
  <2>2. \/ Ends(r) \/ SessionGet(r)
        \/ \E a \in {"start", "boot", "rollback"} : Goes(r, a) /\ req[r].at # "idle"
    BY <1>6 DEF SessionGet, Count, Refuse, Start, Boot, Rollback
  <2>3. {"start", "boot", "rollback"} \subseteq Ats \ {"put"}
    BY DEF Ats
  <2> QED
    BY <1>1, <2>1, <2>2, <2>3, MovesSettle DEF Settled
<1>7. CASE UNCHANGED vars
  BY <1>1, <1>7 DEF vars, Settled
<1> QED
  BY <1>2, <1>3, <1>4, <1>5, <1>6, <1>7 DEF Settling

LEMMA SettlingKeepsBooks ==
    ASSUME TypeOK, Books, Settling
    PROVE  Books'
<1>1. Settled /\ bucket' = bucket /\ fallback' \in {fallback, None}
  BY SettlingSettles DEF Books
<1>2. Busy' /\ SinceFalls' /\ PutIsHonest' /\ \A r \in Requests : req'[r].now <= now'
  BY <1>1, SettledKeeps DEF Books
<1>3. /\ CountsAreHonest'
      /\ bucket' # None => bucket'.start <= now'
      /\ fallback' # None => fallback'.start <= now'
  BY <1>1, CountsStand DEF Books
<1> QED
  BY <1>2, <1>3 DEF Books, NothingAhead

\* What KV is about to be told is honest when it was read.
LEMMA RateGetKeepsBooks ==
    ASSUME TypeOK, Books, NEW r \in Requests, RateGet(r), ~Ends(r)
    PROVE  Books'
<1> USE DEF Books, limiter, history
<1> DEFINE entry == Counted(req[r].now)
<1>1. UNCHANGED <<now, bucket, fallback, since>>
  BY DEF RateGet
<1>2. /\ entry.count <= Limit
      /\ req'[r].at = "put" /\ req'[r].read = bucket /\ req'[r].put = entry
      /\ req'[r].now = req[r].now /\ req'[r].session = req[r].session
      /\ \A q \in Requests \ {r} : req'[q] = req[q]
  BY RateGetEffect
<1>3. req[r].at = "rate"
  BY DEF RateGet
<1>4. req[r].now \in Times /\ req[r].now \in Nat /\ req[r].now <= now
  BY ReqTyped DEF Reqs, Times, NothingAhead
<1>5. /\ entry \in Entries
      /\ \/ /\ bucket # None
            /\ entry.count = bucket.count + 1
            /\ entry.start = bucket.start
         \/ /\ entry.count = 1 /\ entry.start = req[r].now
            /\ bucket # None => bucket.start <= req[r].now - Window
  BY <1>4, CountedEntry
<1> HIDE DEF entry
<1>6. \A t \in Times : since[t] \in Nat
  BY DEF TypeOK
<1>7. ASSUME bucket # None
      PROVE  /\ bucket.start \in Times /\ bucket.start \in Nat /\ bucket.count \in Nat
             /\ bucket.count <= since[bucket.start] /\ bucket.start <= now
  <2>1. bucket \in Entries
    BY <1>7 DEF TypeOK
  <2> QED
    BY <1>7, <2>1, EntryFacts DEF CountsAreHonest, NothingAhead
<1>8. entry.start <= now /\ entry.count - 1 <= since[entry.start]
  BY <1>4, <1>5, <1>6, <1>7
<1>9. \/ /\ bucket # None /\ entry.count = bucket.count + 1 /\ entry.start = bucket.start
      \/ entry.count = 1 /\ (bucket # None => bucket.start < entry.start)
  BY <1>4, <1>5, <1>7
<1>10. PutIsHonest'
  BY <1>1, <1>2, <1>5, <1>8, <1>9 DEF PutIsHonest
<1>11. Busy'
  BY <1>2, <1>3 DEF Busy
<1>12. NothingAhead'
  BY <1>1, <1>2 DEF NothingAhead
<1>13. SinceFalls' /\ CountsAreHonest'
  BY <1>1 DEF SinceFalls, CountsAreHonest
<1> QED
  BY <1>10, <1>11, <1>12, <1>13

\* The put counts itself both in KV and in the history.
LEMMA RatePutKeepsBooks ==
    ASSUME TypeOK, Books, NEW r \in Requests, RatePut(r)
    PROVE  Books'
<1> USE DEF Books
<1>1. LetThrough /\ UNCHANGED <<now, fallback>> /\ Goes(r, "get")
  BY DEF RatePut
<1>2. req[r].at = "put" /\ bucket' = req[r].put
  BY RatePutEffect
<1>3. Settled
  <2>1. now \in Times /\ now \in Nat
    BY DEF TypeOK, Times
  <2>2. "get" \in Ats \ {"put"}
    BY DEF Ats
  <2> QED
    BY <1>1, <1>2, <2>1, <2>2, MovesSettle DEF Settled
<1>4. Busy' /\ SinceFalls' /\ PutIsHonest' /\ \A q \in Requests : req'[q].now <= now'
  BY <1>3, SettledKeeps
<1>5. \A t \in Times : /\ since[t] \in Nat /\ since'[t] \in Nat /\ since[t] <= since'[t]
                       /\ t <= now => since'[t] = since[t] + 1
  BY <1>1, LetThroughTyped DEF TypeOK
<1>6. /\ req[r].put \in Entries /\ req[r].put.start <= now
      /\ req[r].put.count - 1 <= since[req[r].put.start]
  BY <1>2 DEF PutIsHonest
<1>7. req[r].put.start \in Times /\ req[r].put.count \in Nat
  BY <1>6, EntryFacts
<1>8. req[r].put.count <= since'[req[r].put.start]
  BY <1>5, <1>6, <1>7
<1>9. ASSUME fallback # None
      PROVE  fallback.count <= since'[fallback.start] \/ Limit <= since'[fallback.start]
  <2>1. fallback \in Entries
    BY <1>9 DEF TypeOK
  <2>2. fallback.start \in Times /\ fallback.count \in Nat
    BY <2>1, EntryFacts
  <2> QED
    BY <1>5, <1>9, <2>2 DEF CountsAreHonest
<1>10. CountsAreHonest'
  BY <1>1, <1>2, <1>8, <1>9 DEF CountsAreHonest
<1>11. NothingAhead'
  BY <1>1, <1>2, <1>4, <1>6 DEF NothingAhead
<1> QED
  BY <1>4, <1>10, <1>11

\* The fallback counts the refused too, but no further than the limit without having
\* let that many through.
LEMMA KvFailsKeepsBooks ==
    ASSUME TypeOK, Books, NEW r \in Requests, KvFails(r)
    PROVE  Books'
<1> USE DEF Books
<1>1. req[r].at # "idle" /\ UNCHANGED <<now, bucket>>
  BY DEF KvFails
<1>2. /\ fallback' = KvEntry(r)
      /\ \/ KvEntry(r).count > Limit /\ Ends(r) /\ UNCHANGED since
         \/ KvEntry(r).count <= Limit /\ Goes(r, "get") /\ LetThrough
  BY KvFailsEffect
<1>3. now \in Times /\ now \in Nat
  BY DEF TypeOK, Times
<1>4. Settled
  <2>1. "get" \in Ats \ {"put"}
    BY DEF Ats
  <2> QED
    BY <1>1, <1>2, <1>3, <2>1, MovesSettle DEF Settled
<1>5. Busy' /\ SinceFalls' /\ PutIsHonest' /\ \A q \in Requests : req'[q].now <= now'
  BY <1>4, SettledKeeps
<1>6. \A t \in Times : since[t] \in Nat /\ since'[t] \in Nat /\ since[t] <= since'[t]
  BY <1>4, SinceGrows DEF Settled, TypeOK
<1>7. LetThrough => \A t \in Times : t <= now => since'[t] = since[t] + 1
  BY LetThroughTyped
<1>8. /\ KvEntry(r) \in Entries
      /\ \/ /\ fallback # None
            /\ KvEntry(r).count = fallback.count + 1
            /\ KvEntry(r).start = fallback.start
         \/ KvEntry(r).count = 1 /\ KvEntry(r).start = req[r].now
  BY KvEntryFacts
<1>9. req[r].now \in Times /\ req[r].now <= now
  BY ReqTyped DEF Reqs, NothingAhead
<1>10. /\ KvEntry(r).start \in Times /\ KvEntry(r).start \in Nat /\ KvEntry(r).count \in Nat
       /\ KvEntry(r).start <= now
  BY <1>8, <1>9, EntryFacts DEF NothingAhead
<1>11. ASSUME fallback # None
       PROVE  /\ fallback.count \in Nat /\ fallback.start \in Times
              /\ fallback.count <= since[fallback.start] \/ Limit <= since[fallback.start]
  <2>1. fallback \in Entries
    BY <1>11 DEF TypeOK
  <2> QED
    BY <1>11, <2>1, EntryFacts DEF CountsAreHonest
<1>12. KvEntry(r).count <= since'[KvEntry(r).start] \/ Limit <= since'[KvEntry(r).start]
  <2>1. CASE KvEntry(r).count > Limit /\ UNCHANGED since
    BY <1>6, <1>8, <1>9, <1>10, <1>11, <2>1
  <2>2. CASE KvEntry(r).count <= Limit /\ LetThrough
    BY <1>6, <1>7, <1>8, <1>9, <1>10, <1>11, <2>2
  <2> QED
    BY <1>2, <2>1, <2>2
<1>13. ASSUME bucket # None
       PROVE  bucket.count <= since'[bucket.start]
  <2>1. bucket \in Entries
    BY <1>13 DEF TypeOK
  <2>2. bucket.start \in Times /\ bucket.count \in Nat
    BY <2>1, EntryFacts
  <2> QED
    BY <1>6, <1>13, <2>2 DEF CountsAreHonest
<1>14. CountsAreHonest'
  BY <1>1, <1>2, <1>12, <1>13 DEF CountsAreHonest
<1>15. NothingAhead'
  BY <1>1, <1>2, <1>5, <1>10 DEF NothingAhead
<1> QED
  BY <1>5, <1>14, <1>15

\* The steps are those that settle, and the three of the limiter's counts.
LEMMA StepKinds ==
    ASSUME [Next]_vars
    PROVE  \/ Settling
           \/ \E r \in Requests : RateGet(r) /\ ~Ends(r)
           \/ \E r \in Requests : RatePut(r) \/ KvFails(r)
BY DEF Next, Settling

LEMMA BooksStep == TypeOK /\ Books /\ [Next]_vars => Books'
BY StepKinds, SettlingKeepsBooks, RateGetKeepsBooks, RatePutKeepsBooks, KvFailsKeepsBooks

-----------------------------------------------------------------------------
(* The limit *)

\* Without a race the entry put follows the one it was counted from, so that the
\* window it opens is later than every one that let anything through.
LEMMA RatePutKeepsTallies ==
    ASSUME TypeOK, PutIsHonest, Tallies, NEW r \in Requests, RatePut(r)
    PROVE  Tallies'
<1> SUFFICES ASSUME ~raced' PROVE Tallies'
  BY DEF Tallies
<1>1. ~raced /\ bucket = req[r].read
  BY DEF RatePut
<1> DEFINE put == req[r].put
<1>2. /\ req[r].at = "put" /\ bucket' = put /\ put.start \in Times
      /\ \A t \in Times : inWindow'[t] = IF t = put.start THEN inWindow[t] + 1 ELSE inWindow[t]
  BY RatePutEffect
<1>3. /\ put \in Entries /\ put.count <= Limit
      /\ \/ /\ bucket # None
            /\ put.count = bucket.count + 1 /\ put.start = bucket.start
         \/ /\ put.count = 1
            /\ bucket # None => bucket.start < put.start
  BY <1>1, <1>2 DEF PutIsHonest
<1>4. put # None /\ put.count \in Nat /\ put.start \in Nat
  BY <1>3, EntryFacts
<1> HIDE DEF put
<1>5. \A t \in Times : inWindow[t] \in Nat /\ t \in Nat
  BY DEF TypeOK, Times
<1>6. /\ \A t \in Times : inWindow[t] <= Limit
      /\ bucket = None => \A t \in Times : inWindow[t] = 0
      /\ bucket # None => /\ inWindow[bucket.start] <= bucket.count
                         /\ \A t \in Times : t > bucket.start => inWindow[t] = 0
  BY <1>1 DEF Tallies
<1>7. bucket # None => bucket.count \in Nat /\ bucket.start \in Nat
  BY EntryFacts DEF TypeOK
<1>8. inWindow[put.start] + 1 <= put.count
  BY <1>2, <1>3, <1>4, <1>5, <1>6, <1>7
<1>9. \A t \in Times : t > put.start => inWindow[t] = 0
  BY <1>3, <1>4, <1>5, <1>6, <1>7
<1>10. inWindow'[put.start] <= put.count
  BY <1>2, <1>8
<1>11. \A t \in Times : t > put.start => inWindow'[t] = 0
  BY <1>2, <1>4, <1>5, <1>9
<1>12. \A t \in Times : inWindow'[t] <= Limit
  <2> SUFFICES ASSUME NEW t \in Times PROVE inWindow'[t] <= Limit
    OBVIOUS
  <2>1. CASE t = put.start
    BY <1>2, <1>3, <1>4, <1>5, <1>8, <2>1
  <2>2. CASE t # put.start
    BY <1>2, <1>6, <2>2
  <2> QED
    BY <2>1, <2>2
<1> QED
  BY <1>2, <1>4, <1>10, <1>11, <1>12 DEF Tallies

LEMMA TalliesStep == TypeOK /\ Books /\ Tallies /\ [Next]_vars => Tallies'
<1> SUFFICES ASSUME TypeOK, Books, Tallies, [Next]_vars PROVE Tallies'
  OBVIOUS
<1>1. CASE Settling
  BY <1>1, SettlingSettles DEF Tallies, Books
<1>2. CASE \E r \in Requests : RateGet(r) \/ KvFails(r)
  BY <1>2 DEF RateGet, KvFails, Tallies, limiter, history
<1>3. CASE \E r \in Requests : RatePut(r)
  BY <1>3, RatePutKeepsTallies DEF Books
<1> QED
  BY <1>1, <1>2, <1>3, StepKinds

\* What the isolate lets through is counted in the window it is let through in, and
\* the window opens after those before it.
LEMMA KvFailsKeepsSpills ==
    ASSUME TypeOK, Spills, NEW r \in Requests, KvFails(r)
    PROVE  Spills'
<1> DEFINE entry == KvEntry(r)
<1>1. /\ fallback' = entry
      /\ \/ entry.count > Limit /\ UNCHANGED spilt
         \/ entry.count <= Limit /\ spilt' = [spilt EXCEPT ![entry.start] = @ + 1]
  BY KvFailsEffect
<1>2. /\ entry \in Entries
      /\ \/ /\ fallback # None
            /\ entry.count = fallback.count + 1 /\ entry.start = fallback.start
         \/ /\ entry.count = 1
            /\ fallback # None => fallback.start < entry.start
  BY KvEntryFacts
<1>3. entry # None /\ entry.count \in Nat /\ entry.start \in Nat /\ entry.start \in Times
  BY <1>2, EntryFacts
<1> HIDE DEF entry
<1>4. spilt \in [Times -> Nat] /\ \A t \in Times : spilt[t] \in Nat /\ t \in Nat
  BY DEF TypeOK, Times
<1>5. fallback # None => fallback.count \in Nat /\ fallback.start \in Nat
  BY EntryFacts DEF TypeOK
<1>6. /\ \A t \in Times : spilt[t] <= Limit
      /\ spilt[entry.start] + 1 <= entry.count
      /\ \A t \in Times : t > entry.start => spilt[t] = 0
  BY <1>2, <1>3, <1>4, <1>5 DEF Spills
<1>7. CASE UNCHANGED spilt
  BY <1>1, <1>3, <1>4, <1>6, <1>7 DEF Spills
<1>8. CASE entry.count <= Limit /\ spilt' = [spilt EXCEPT ![entry.start] = @ + 1]
  <2>1. \A t \in Times : spilt'[t] = IF t = entry.start THEN spilt[t] + 1 ELSE spilt[t]
    BY <1>3, <1>4, <1>8
  <2>2. \A t \in Times : spilt'[t] <= Limit
    <3> SUFFICES ASSUME NEW t \in Times PROVE spilt'[t] <= Limit
      OBVIOUS
    <3>1. CASE t = entry.start
      BY <1>3, <1>4, <1>6, <1>8, <2>1, <3>1
    <3>2. CASE t # entry.start
      BY <1>6, <2>1, <3>2
    <3> QED
      BY <3>1, <3>2
  <2>3. spilt'[entry.start] <= entry.count
    BY <1>3, <1>6, <2>1
  <2>4. \A t \in Times : t > entry.start => spilt'[t] = 0
    BY <1>3, <1>4, <1>6, <2>1
  <2> QED
    BY <1>1, <1>3, <2>2, <2>3, <2>4 DEF Spills
<1> QED
  BY <1>1, <1>7, <1>8

LEMMA SpillsStep == TypeOK /\ Books /\ Spills /\ [Next]_vars => Spills'
<1> SUFFICES ASSUME TypeOK, Books, Spills, [Next]_vars PROVE Spills'
  OBVIOUS
<1>1. CASE UNCHANGED <<fallback, spilt>>
  BY <1>1 DEF Spills
<1>2. CASE Restart
  <2>1. fallback' = None /\ \A t \in Times : spilt'[t] = 0
    BY <1>2 DEF Restart
  <2> QED
    BY <2>1 DEF Spills
<1>3. CASE \E r \in Requests : RateGet(r) \/ RatePut(r)
  BY <1>1, <1>3 DEF RateGet, RatePut, limiter, history
<1>4. CASE \E r \in Requests : KvFails(r)
  BY <1>4, KvFailsKeepsSpills
<1> QED
  BY <1>1, <1>2, <1>3, <1>4, StepKinds, SettlingSettles DEF Books

-----------------------------------------------------------------------------
(* The cap *)

Unexcused == (Running \cup Pending) \ excused

\* The cap stands as long as no session joins the ones it is about.
LEMMA NoneJoins ==
    ASSUME CapHolds, Unexcused' \subseteq Unexcused
    PROVE  CapHolds'
<1>1. IsFiniteSet(Unexcused)
  <2>1. Unexcused \subseteq Sessions
    BY DEF Unexcused, Running, Pending
  <2> QED
    BY <2>1, FS_Subset
<1>2. Cardinality(Unexcused') <= Cardinality(Unexcused)
  BY <1>1, FS_Subset
<1>3. Cardinality(Unexcused) \in Nat /\ Cardinality(Unexcused') \in Nat
  BY <1>1, FS_Subset, FS_CardinalityType
<1> QED
  BY <1>2, <1>3 DEF CapHolds, Unexcused

\* A request that leaves its place, or moves to another than the start, makes no
\* session pending.
LEMMA PendingFalls ==
    ASSUME TypeOK, NEW r \in Requests,
           \/ Ends(r)
           \/ \E a \in Ats \ {"start"} : Goes(r, a)
    PROVE  Pending' \subseteq Pending
<1>1. req'[r].at # "start" /\ \A q \in Requests \ {r} : req'[q] = req[q]
  BY ReqTyped, GoesEffect, EndsEffect, IdleIsTyped
<1> QED
  BY <1>1 DEF Pending

\* Count lets a session in beside fewer than the limit, or excuses it.
LEMMA CountKeepsCap ==
    ASSUME TypeOK, Busy, CapHolds, NEW r \in Requests, Count(r)
    PROVE  CapHolds'
<1> DEFINE s == req[r].session
<1>1. s \in Sessions /\ Running' = Running
  BY DEF Count, Busy, Running
<1>2. CASE Ends(r) /\ UNCHANGED excused
  <2>1. Unexcused' \subseteq Unexcused
    BY <1>1, <1>2, PendingFalls DEF Unexcused
  <2> QED
    BY <2>1, NoneJoins
<1>3. ASSUME Goes(r, "start") PROVE Pending' \subseteq Pending \cup {s}
  <2>1. req'[r].session = s /\ \A q \in Requests \ {r} : req'[q] = req[q]
    BY <1>3, ReqTyped, GoesEffect DEF Ats
  <2> QED
    BY <2>1 DEF Pending
<1>4. CASE /\ Goes(r, "start") /\ Cardinality(Running \ {s}) < MaxSessions
           /\ Pending \subseteq Running \cup {s}
  <2>1. Unexcused' \subseteq (Running \ {s}) \cup {s}
    BY <1>1, <1>3, <1>4 DEF Unexcused
  <2>2. IsFiniteSet(Running \ {s}) /\ Running \ {s} \subseteq Sessions
    BY FS_Subset DEF Running
  <2>3. /\ IsFiniteSet((Running \ {s}) \cup {s})
        /\ Cardinality((Running \ {s}) \cup {s}) = Cardinality(Running \ {s}) + 1
    BY <2>2, FS_AddElement
  <2>4. /\ IsFiniteSet(Unexcused')
        /\ Cardinality(Unexcused') <= Cardinality((Running \ {s}) \cup {s})
    BY <2>1, <2>3, FS_Subset
  <2>5. Cardinality(Running \ {s}) \in Nat /\ Cardinality(Unexcused') \in Nat
    BY <2>2, <2>4, FS_CardinalityType
  <2>6. Cardinality(Unexcused') <= MaxSessions
    BY <1>4, <2>3, <2>4, <2>5
  <2> QED
    BY <2>6 DEF CapHolds, Unexcused
<1>5. CASE Goes(r, "start") /\ excused' = excused \cup {s}
  <2>1. Unexcused' \subseteq Unexcused
    BY <1>1, <1>3, <1>5 DEF Unexcused
  <2> QED
    BY <2>1, NoneJoins
<1> QED
  BY <1>2, <1>4, <1>5 DEF Count

LEMMA CapStep == TypeOK /\ Busy /\ CapHolds /\ [Next]_vars => CapHolds'
<1> SUFFICES ASSUME TypeOK, Busy, CapHolds, [Next]_vars PROVE CapHolds'
  OBVIOUS
<1>1. ASSUME NEW r \in Requests, Count(r) PROVE CapHolds'
  BY <1>1, CountKeepsCap
<1>2. ASSUME ~\E r \in Requests : Count(r) PROVE Unexcused' \subseteq Unexcused
  <2> USE DEF limiter, history
  <2>1. CASE UNCHANGED vars \/ Tick
    BY <2>1 DEF vars, Tick, Unexcused, Running, Pending
  <2>2. CASE Restart
    <3>1. Pending' = {}
      BY <2>2, IdleIsTyped DEF Restart, Pending
    <3> QED
      BY <2>2, <3>1 DEF Restart, Unexcused, Running
  <2>3. ASSUME NEW s \in Sessions, MarkStopped(s) \/ Exit(s)
        PROVE  Unexcused' \subseteq Unexcused
    <3>1. Running' \subseteq Running
      BY <2>3 DEF MarkStopped, Exit, Running, TypeOK
    <3> QED
      BY <2>3, <3>1 DEF MarkStopped, Exit, Unexcused, Pending
  <2>4. ASSUME NEW s \in Sessions, Heal(s)
        PROVE  Unexcused' \subseteq Unexcused
    <3>1. Running' \subseteq Running \cup {s}
      BY <2>4 DEF Heal, Running, TypeOK
    <3> QED
      BY <2>4, <3>1 DEF Heal, Unexcused, Pending
  <2>5. ASSUME NEW r \in Requests, NEW s \in Sessions, Arrive(r, s)
        PROVE  Unexcused' \subseteq Unexcused
    <3>1. Pending' \subseteq Pending
      BY <2>5, ArriveEffect DEF Pending
    <3> QED
      BY <2>5, <3>1 DEF Arrive, Unexcused, Running
  <2>6. ASSUME NEW r \in Requests, RateGet(r)
        PROVE  Unexcused' \subseteq Unexcused
    <3>1. Pending' \subseteq Pending
      <4>1. CASE Ends(r)
        BY <4>1, PendingFalls
      <4>2. CASE ~Ends(r)
        BY <2>6, <4>2, RateGetEffect DEF Pending
      <4> QED
        BY <4>1, <4>2
    <3> QED
      BY <2>6, <3>1 DEF RateGet, Unexcused, Running
  <2>7. ASSUME NEW r \in Requests,
               RatePut(r) \/ KvFails(r) \/ Refuse(r) \/ Boot(r)
        PROVE  Unexcused' \subseteq Unexcused
    <3>1. Pending' \subseteq Pending
      BY <2>7, PendingFalls, KvFailsEffect DEF RatePut, Refuse, Boot, Ats
    <3> QED
      BY <2>7, <3>1 DEF RatePut, KvFails, Refuse, Boot, Unexcused, Running
  <2>8. ASSUME NEW r \in Requests, SessionGet(r)
        PROVE  Unexcused' \subseteq Unexcused
    <3>1. Pending' \subseteq Pending
      BY <2>8, SessionGetEffect DEF Pending
    <3> QED
      BY <2>8, <3>1 DEF SessionGet, Unexcused, Running
  <2>9. ASSUME NEW r \in Requests, Start(r)
        PROVE  Unexcused' \subseteq Unexcused
    <3>1. Pending' \subseteq Pending
      BY <2>9, PendingFalls DEF Start, Ats
    <3>2. req[r].session \in Pending
      BY <2>9 DEF Start, Pending, Busy
    <3>3. Running' \subseteq Running \cup {req[r].session}
      BY <2>9 DEF Start, Running, TypeOK
    <3> QED
      BY <2>9, <3>1, <3>2, <3>3 DEF Start, Unexcused
  <2>10. ASSUME NEW r \in Requests, Rollback(r)
         PROVE  Unexcused' \subseteq Unexcused
    <3>1. Pending' \subseteq Pending
      BY <2>10, PendingFalls DEF Rollback
    <3>2. Running' \subseteq Running
      BY <2>10 DEF Rollback, Running, TypeOK
    <3> QED
      BY <2>10, <3>1, <3>2 DEF Rollback, Unexcused
  <2> QED
    BY <1>2, <2>1, <2>2, <2>3, <2>4, <2>5, <2>6, <2>7, <2>8, <2>9, <2>10 DEF Next
<1> QED
  BY <1>1, <1>2, NoneJoins

-----------------------------------------------------------------------------
(* The theorems *)

LEMMA InvariantHolds == Spec => []IInv
<1>1. Init => IInv
  <2> SUFFICES ASSUME Init PROVE IInv
    OBVIOUS
  <2>1. TypeOK /\ Books
    BY TypeInit, BooksInit
  <2>2. Tallies /\ Spills
    BY DEF Init, Tallies, Spills
  <2>3. CapHolds
    <3>1. (Running \cup Pending) \ excused = {}
      BY IdleIsTyped DEF Init, Running, Pending
    <3> QED
      BY <3>1, FS_EmptySet DEF CapHolds
  <2> QED
    BY <2>1, <2>2, <2>3 DEF IInv
<1>2. IInv /\ [Next]_vars => IInv'
  BY TypeStep, BooksStep, TalliesStep, SpillsStep, CapStep DEF IInv, Books
<1> QED
  BY <1>1, <1>2, PTL DEF Spec

\* The records of the limiter, the sessions and the requests keep their types
\* (checkRateLimit, validateSessionAndCheckLimits and the start they admit).
THEOREM AdmissionTypeCorrect == Spec => []TypeOK
BY InvariantHolds, PTL DEF IInv

\* Nobody is refused for requests that were not made: for any number of requests,
\* whatever overlaps, fails over to the isolate's map or is lost with it.
THEOREM CountsStayHonest == Spec => []CountsAreHonest
BY InvariantHolds, PTL DEF IInv, Books

\* Neither counter lets more than the limit through in one of its windows, whatever
\* their length: not KV, where no put buried a count its request had not read, and not
\* the memory of one isolate, where any number of KV calls fail.
THEOREM LimitIsHeld == Spec => []LimitHolds
<1>1. IInv => LimitHolds
  BY DEF IInv, Tallies, Spills, LimitHolds
<1> QED
  BY <1>1, InvariantHolds, PTL

\* The sessions that run or are about to are no more than the tier's limit, but for
\* those counted beside an undecided start and those a tick has put back.
THEOREM CapIsHeld == Spec => []CapHolds
BY InvariantHolds, PTL DEF IInv

=============================================================================
