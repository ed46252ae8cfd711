---------------------------- MODULE SessionStore -----------------------------
(***************************************************************************)
(* One session in the session store of the web client: the status it shows *)
(* and the loops and requests that change it.  The store is optimistic: it *)
(* shows a start or a stop before the server knows of it, and must then    *)
(* keep the polled record from contradicting it, though not for ever.      *)
(*                                                                         *)
(* Callbacks run to their end.  A request that reads is a step when the    *)
(* server reads and one when the answer is handled, which may be much      *)
(* later; one that acts is also a step when it is sent.  Every map of the  *)
(* store is keyed by the session, so one session is modelled; it is not in *)
(* the list when its status is "gone".                                     *)
(*                                                                         *)
(* The server is coarse: SessionLifecycle has it in detail.                *)
(***************************************************************************)
EXTENDS Integers

CONSTANTS
    RemovalThreshold,      \* REMOVAL_THRESHOLD
    MaxStartupPollErrors,  \* MAX_STARTUP_POLL_ERRORS
    MaxStopPollAttempts,   \* MAX_STOP_POLL_ATTEMPTS
    MaxStopPollErrors,     \* MAX_STOP_POLL_ERRORS
    MaxStarts,             \* bound: calls of startSession
    MaxStops,              \* bound: calls of stopSession
    MaxRefreshes,          \* bound: refreshes in flight at a time
    MaxEvents              \* bound: what else the user does, here or elsewhere

ASSUME StoreAssumption ==
    /\ RemovalThreshold \in Nat \ {0} /\ MaxStartupPollErrors \in Nat \ {0}
    /\ MaxStopPollAttempts \in Nat \ {0} /\ MaxStopPollErrors \in Nat \ {0}
    /\ MaxStarts \in Nat /\ MaxStops \in Nat
    /\ MaxRefreshes \in Nat /\ MaxEvents \in Nat

Starts == 1..MaxStarts
Stops == 1..MaxStops
Refreshes == 1..MaxRefreshes

VARIABLES
    record,     \* the session's record in KV
    listing,    \* what a list of KV shows of it, which lags behind
    container,  \* its container
    events,     \* events left
    status,     \* the status shown
    init,       \* initializingSessionIds
    guard,      \* sessionStartedAt, and whether its three minutes are over
    misses,     \* sessionMissCounters
    active,     \* it is activeSessionId
    cleanup,    \* startupCleanups: the loop its entry would clear
    start,      \* calls of startSession
    stop,       \* calls of stopSession
    delete,     \* deleteSession: the call in flight, and whether one has failed
    refresh,    \* calls of refreshSessionStatuses
    load        \* loadSessions, of the page that has just been opened

server == <<record, listing, container, events>>
shown == <<status, guard>>
polls == <<refresh, load>>
vars == <<server, shown, init, misses, active, cleanup, start, stop, delete, polls>>

-----------------------------------------------------------------------------
Records == {"running", "stopped", "absent"}
NoOne == <<"nobody", 0>>
Starter(i) == <<"start", i>>
Stopper(j) == <<"stop", j>>

\* A poll in flight is the server's answer.
NoPoll == "none"
StartCall == [pc : {"unused", "post", "begun", "first", "armed", "over"},
              cancelled : BOOLEAN, errors : 0..MaxStartupPollErrors,
              poll : {NoPoll, "ready", "wait", "error"}]
StopCall == [pc : {"unused", "asked", "marked", "done", "armed", "over", "failed"},
             tries : 0..MaxStopPollAttempts, errors : 0..MaxStopPollErrors,
             poll : {NoPoll} \cup Records]

TypeOK ==
    /\ record \in Records /\ listing \in Records
    /\ container \in {"off", "booting", "ready"} /\ events \in 0..MaxEvents
    /\ status \in {"gone", "stopped", "initializing", "running", "stopping", "error"}
    /\ init \in BOOLEAN /\ guard \in {"none", "live", "expired"}
    /\ misses \in 0..RemovalThreshold /\ active \in BOOLEAN
    /\ cleanup \in {NoOne} \cup {Starter(i) : i \in Starts} \cup {Stopper(j) : j \in Stops}
    /\ start \in [Starts -> StartCall] /\ stop \in [Stops -> StopCall]
    /\ delete \in [pc : {"idle", "asked", "done"}, failed : BOOLEAN]
    /\ refresh \in [Refreshes -> {NoPoll} \cup Records]
    /\ load \in {NoPoll, "sent", "listed"} \cup Records

\* The page has just been opened; the session may already be there.
Init ==
    /\ \/ record = "absent" /\ container = "off"
       \/ record = "stopped" /\ container = "off"
       \/ record = "running" /\ container = "ready"
    /\ listing = record /\ events = MaxEvents
    /\ status = "gone" /\ init = FALSE /\ guard = "none" /\ misses = 0
    /\ active = FALSE /\ cleanup = NoOne
    /\ start = [i \in Starts |->
         [pc |-> "unused", cancelled |-> FALSE, errors |-> 0, poll |-> NoPoll]]
    /\ stop = [j \in Stops |-> [pc |-> "unused", tries |-> 0, errors |-> 0, poll |-> NoPoll]]
    /\ delete = [pc |-> "idle", failed |-> FALSE]
    /\ refresh = [r \in Refreshes |-> NoPoll]
    /\ load = "sent"

-----------------------------------------------------------------------------
(* The server, as the store meets it.                                       *)

\* A put of the record, which is never one that brings it back.
Put(value) == record' = IF record = "absent" THEN "absent" ELSE value

Propagate ==
    /\ listing # record /\ listing' = record
    /\ UNCHANGED <<record, container, events, shown, init, misses, active, cleanup,
                   start, stop, delete, polls>>

\* The record comes to say what the container does (the hooks and the tick).
Heal ==
    /\ \/ container = "off" /\ record = "running" /\ record' = "stopped"
       \/ /\ container = "ready" /\ record = "stopped" /\ record' = "running"
          /\ \A j \in Stops : stop[j].pc # "marked"
    /\ UNCHANGED <<listing, container, events, shown, init, misses, active, cleanup,
                   start, stop, delete, polls>>

Boots ==
    /\ container = "booting" /\ container' = "ready"
    /\ UNCHANGED <<record, listing, events, shown, init, misses, active, cleanup,
                   start, stop, delete, polls>>

\* The boot fails (the start is rolled back), or the container exits or is stopped from
\* another device; the session is started or deleted from another device.
Elsewhere ==
    /\ events > 0 /\ events' = events - 1
    /\ \/ container # "off" /\ container' = "off" /\ Put("stopped")
       \/ record = "stopped" /\ container = "off" /\ container' = "booting" /\ Put("running")
       \/ record # "absent" /\ record' = "absent" /\ container' = "off"
    /\ UNCHANGED <<listing, shown, init, misses, active, cleanup, start, stop, delete, polls>>

-----------------------------------------------------------------------------
(* The helpers of the store.                                                *)

\* updateSessionStatus.
Show(value) ==
    /\ status' = IF status = "gone" THEN "gone" ELSE value
    /\ guard' = IF status = "gone" THEN guard
                ELSE IF value = "running" /\ guard = "none" THEN "live"
                ELSE IF value \in {"stopped", "stopping"} THEN "none" ELSE guard

\* What a call of the registered clean-up does to the loops: an interval is cleared, and
\* a loop that has none yet will find that it was cancelled.  A poll that is out goes on.
CancelledStarts ==
    [i \in Starts |->
        IF cleanup # Starter(i) THEN start[i]
        ELSE IF start[i].pc = "armed" THEN [start[i] EXCEPT !.pc = "over"]
        ELSE [start[i] EXCEPT !.cancelled = (@ \/ start[i].pc # "over")]]
CancelledStops ==
    [j \in Stops |->
        IF cleanup = Stopper(j) /\ stop[j].pc = "armed"
        THEN [stop[j] EXCEPT !.pc = "over", !.tries = 0] ELSE stop[j]]

GuardExpires ==
    /\ guard = "live" /\ guard' = "expired"
    /\ UNCHANGED <<server, status, init, misses, active, cleanup, start, stop, delete, polls>>

-----------------------------------------------------------------------------
(* startSession, and the polling of api.startSession.                       *)

\* Loop i begins and replaces the one that is registered.
Begin(i) ==
    /\ start[i].pc = "unused" /\ \A k \in 1..(i - 1) : start[k].pc # "unused"
    /\ init' = TRUE
    /\ start' = [CancelledStarts EXCEPT ![i].pc = "post"]
    /\ stop' = CancelledStops
    /\ cleanup' = Starter(i)

\* A click on a stopped session opens it and starts it.
StartSession(i) ==
    /\ status = "stopped"
    /\ active' = TRUE /\ Show("initializing") /\ Begin(i)
    /\ UNCHANGED <<server, misses, delete, polls>>

NeverExisted ==
    /\ record = "absent" /\ status = "gone"
    /\ events = MaxEvents /\ \A i \in Starts : start[i].pc = "unused"

\* createSession, once the server has answered, is followed by the start (bound: not
\* while the page is still loading).
CreateSession(i) ==
    /\ NeverExisted /\ load = NoPoll
    /\ record' = "stopped"
    /\ active' = TRUE /\ status' = "initializing" /\ Begin(i)
    /\ UNCHANGED <<listing, container, events, guard, misses, delete, polls>>

ServerStarts(i) ==
    /\ start[i].pc = "post" /\ record # "absent"
    /\ record' = "running"
    /\ container' = IF container = "off" THEN "booting" ELSE container
    /\ start' = [start EXCEPT ![i].pc = "begun"]
    /\ UNCHANGED <<listing, events, shown, init, misses, active, cleanup, stop, delete, polls>>

\* The loop ends with an error (onError).
FailStart ==
    /\ cleanup' = NoOne /\ init' = FALSE /\ Show("error")

\* POST /start answers 4xx: the one failure that counts.
StartRefused(i) ==
    /\ start[i].pc = "post"
    /\ start' = [start EXCEPT ![i].pc = "over", ![i].cancelled = FALSE]
    /\ FailStart
    /\ UNCHANGED <<server, misses, active, stop, delete, polls>>

\* GET /startup-status: what is not up, or whose services do not answer, is starting.
StartupStage ==
    CASE container = "off" -> {"wait"}
      [] container = "booting" -> {"wait", "error"}
      [] container = "ready" -> {"ready", "wait", "error"}

\* The POST answers, or fails in a way that says nothing, and the first poll goes out,
\* unless the loop was cancelled (the interval it then sets does nothing).
StartAnswered(i) ==
    /\ start[i].pc \in {"post", "begun"}
    /\ IF start[i].cancelled
       THEN start' = [start EXCEPT ![i].pc = "over", ![i].cancelled = FALSE]
       ELSE \E stage \in StartupStage :
               start' = [start EXCEPT ![i].pc = "first", ![i].poll = stage]
    /\ UNCHANGED <<server, shown, init, misses, active, cleanup, stop, delete, polls>>

\* The interval (bound: one poll of a loop is out at a time).
StartTick(i) ==
    /\ start[i].pc = "armed" /\ start[i].poll = NoPoll
    /\ \E stage \in StartupStage : start' = [start EXCEPT ![i].poll = stage]
    /\ UNCHANGED <<server, shown, init, misses, active, cleanup, stop, delete, polls>>

\* The first poll has no interval to clear yet: it is set when the poll is done.
AfterPoll(i, finished) ==
    [start[i] EXCEPT
        !.pc = IF @ = "first" THEN IF start[i].cancelled THEN "over" ELSE "armed"
               ELSE IF finished THEN "over" ELSE @,
        !.cancelled = FALSE, !.poll = NoPoll, !.errors = 0]

StartReady(i) ==
    /\ start[i].poll = "ready"
    /\ start' = [start EXCEPT ![i] = AfterPoll(i, TRUE)]
    /\ cleanup' = NoOne /\ Show("running")
    /\ UNCHANGED <<server, init, misses, active, stop, delete, polls>>

\* (mutant: the first answer that is not ready ends the polling)
StartWaitsOnce(i) ==
    /\ start[i].poll = "wait"
    /\ start' = [start EXCEPT ![i] = [AfterPoll(i, TRUE) EXCEPT !.pc = "over"]]
    /\ UNCHANGED <<server, shown, init, misses, active, cleanup, stop, delete, polls>>

StartWaits(i) ==
    /\ start[i].poll = "wait"
    /\ start' = [start EXCEPT ![i] = AfterPoll(i, FALSE)]
    /\ UNCHANGED <<server, shown, init, misses, active, cleanup, stop, delete, polls>>

StartErrors(i) ==
    /\ start[i].poll = "error"
    /\ start' = [start EXCEPT ![i] = AfterPoll(i, TRUE)]
    /\ FailStart
    /\ UNCHANGED <<server, misses, active, stop, delete, polls>>

\* The request itself fails; too many in a row end the loop.
StartPollFails(i) ==
    /\ start[i].poll # NoPoll
    /\ LET n == start[i].errors + 1
       IN IF n >= MaxStartupPollErrors
          THEN /\ start' = [start EXCEPT ![i] = [AfterPoll(i, TRUE) EXCEPT !.errors = n - 1]]
               /\ FailStart
          ELSE /\ start' = [start EXCEPT ![i] = [AfterPoll(i, FALSE) EXCEPT !.errors = n]]
               /\ UNCHANGED <<shown, init, cleanup>>
    /\ UNCHANGED <<server, misses, active, stop, delete, polls>>

\* The user opens the session from its progress card.
Dismiss ==
    /\ init /\ status = "running" /\ init' = FALSE
    /\ UNCHANGED <<server, shown, misses, active, cleanup, start, stop, delete, polls>>
-----------------------------------------------------------------------------
(* stopSession, and its poll for the end of the drain.                      *)

StopSession(j) ==
    /\ status \in {"running", "initializing"}
    /\ stop[j].pc = "unused" /\ \A k \in 1..(j - 1) : stop[k].pc # "unused"
    /\ start' = CancelledStarts
    /\ stop' = [CancelledStops EXCEPT ![j].pc = "asked"]
    /\ cleanup' = NoOne /\ init' = FALSE /\ Show("stopping")
    /\ UNCHANGED <<server, misses, active, delete, polls>>

\* POST /:id/stop writes the record, and answers when the container is destroyed.
ServerMarks(j) ==
    /\ stop[j].pc = "asked" /\ record # "absent"
    /\ record' = "stopped" /\ stop' = [stop EXCEPT ![j].pc = "marked"]
    /\ UNCHANGED <<listing, container, events, shown, init, misses, active, cleanup,
                   start, delete, polls>>

ServerDestroys(j) ==
    /\ stop[j].pc = "marked"
    /\ container' = "off" /\ stop' = [stop EXCEPT ![j].pc = "done"]
    /\ UNCHANGED <<record, listing, events, shown, init, misses, active, cleanup,
                   start, delete, polls>>

StopAnswered(j) ==
    /\ stop[j].pc = "done"
    /\ stop' = [stop EXCEPT ![j].pc = "armed"]
    /\ cleanup' = Stopper(j)
    /\ UNCHANGED <<server, shown, init, misses, active, start, delete, polls>>

\* The call fails (no record, too many requests, the answer is lost): stopSession shows
\* the error and nothing else.
StopFails(j) ==
    /\ stop[j].pc \in {"asked", "done"}
    /\ stop' = [stop EXCEPT ![j].pc = "failed"]
    /\ UNCHANGED <<server, shown, init, misses, active, cleanup, start, delete, polls>>

\* cleanupStopPolling.
Stopped == cleanup' = NoOne /\ Show("stopped")

\* (mutant: the attempts are not limited)
StopTickUnlimited(j) ==
    /\ stop[j].pc = "armed" /\ stop[j].poll = NoPoll
    /\ stop' = [stop EXCEPT ![j].poll = listing]
    /\ UNCHANGED <<server, shown, init, misses, active, cleanup, start, delete, polls>>

StopTick(j) ==
    /\ stop[j].pc = "armed"
    /\ LET n == stop[j].tries + 1
       IN IF n >= MaxStopPollAttempts
          THEN stop' = [stop EXCEPT ![j].pc = "over", ![j].tries = 0] /\ Stopped
          ELSE /\ stop' = [stop EXCEPT ![j].tries = n,
                              ![j].poll = IF @ = NoPoll THEN listing ELSE @]
               /\ UNCHANGED <<shown, cleanup>>
    /\ UNCHANGED <<server, init, misses, active, start, delete, polls>>

StopPolled(j) ==
    /\ stop[j].poll # NoPoll
    /\ IF stop[j].poll = "running"
       THEN /\ stop' = [stop EXCEPT ![j].poll = NoPoll, ![j].errors = 0]
            /\ UNCHANGED <<shown, cleanup>>
       ELSE /\ stop' = [stop EXCEPT ![j].poll = NoPoll, ![j].errors = 0, ![j].tries = 0,
                                ![j].pc = "over"]
            /\ Stopped
    /\ UNCHANGED <<server, init, misses, active, start, delete, polls>>

StopPollFails(j) ==
    /\ stop[j].poll # NoPoll
    /\ LET n == stop[j].errors + 1
       IN IF n >= MaxStopPollErrors
          THEN /\ stop' = [stop EXCEPT ![j].poll = NoPoll, ![j].tries = 0, ![j].pc = "over"]
               /\ Stopped
          ELSE /\ stop' = [stop EXCEPT ![j].poll = NoPoll, ![j].errors = n]
               /\ UNCHANGED <<shown, cleanup>>
    /\ UNCHANGED <<server, init, misses, active, start, delete, polls>>

-----------------------------------------------------------------------------
(* deleteSession.                                                           *)

DeleteSession ==
    /\ status # "gone" /\ delete.pc = "idle" /\ events > 0
    /\ events' = events - 1 /\ delete' = [delete EXCEPT !.pc = "asked"]
    /\ start' = CancelledStarts /\ stop' = CancelledStops /\ cleanup' = NoOne
    /\ UNCHANGED <<record, listing, container, shown, init, misses, active, polls>>

ServerDeletes ==
    /\ delete.pc = "asked"
    /\ record' = "absent" /\ container' = "off" /\ delete' = [delete EXCEPT !.pc = "done"]
    /\ UNCHANGED <<listing, events, shown, init, misses, active, cleanup, start, stop, polls>>

Deleted ==
    /\ delete.pc = "done" /\ delete' = [delete EXCEPT !.pc = "idle"]
    /\ status' = "gone" /\ misses' = 0 /\ active' = FALSE
    /\ UNCHANGED <<server, guard, init, cleanup, start, stop, polls>>

DeleteFails ==
    /\ delete.pc \in {"asked", "done"}
    /\ delete' = [delete EXCEPT !.pc = "idle", !.failed = TRUE]
    /\ UNCHANGED <<server, shown, init, misses, active, cleanup, start, stop, polls>>

-----------------------------------------------------------------------------
(* refreshSessionStatuses, each few seconds, and when the tab comes back.   *)

RefreshRead(r) ==
    /\ refresh[r] = NoPoll /\ refresh' = [refresh EXCEPT ![r] = listing]
    /\ UNCHANGED <<server, shown, init, misses, active, cleanup, start, stop, delete, load>>

\* (mutant: a miss is noted, not counted)
MissedOnce ==
    IF status \in {"gone", "initializing"} \/ active
    THEN UNCHANGED <<shown, misses>>
    ELSE misses' = 1 /\ UNCHANGED shown

\* The list does not have the session: after some misses in a row it is dropped, unless
\* it is starting or in view.
Missed ==
    IF status \in {"gone", "initializing"} \/ active
    THEN UNCHANGED <<shown, misses>>
    ELSE IF misses + 1 >= RemovalThreshold
    THEN misses' = 0 /\ status' = "gone" /\ UNCHANGED guard
    ELSE misses' = misses + 1 /\ UNCHANGED shown

\* (mutant: an error stays shown whatever the list says)
ExemptAfterError(value) ==
    \/ status \in {"gone", "stopping", "initializing", "error", value}
    \/ init
    \/ value = "stopped" /\ guard = "live"

\* What the list says of it does not count.
Exempt(value) ==
    \/ status \in {"gone", "stopping", "initializing", value}
    \/ init
    \/ value = "stopped" /\ guard = "live"

\* The list has it: a session that is being stopped or started, or has just started and
\* is listed as stopped, keeps what it shows.
Listed(value) ==
    /\ misses' = IF status = "gone" THEN misses ELSE 0
    /\ IF Exempt(value)
       THEN /\ UNCHANGED status
            /\ guard' = IF guard = "expired" /\ value = "stopped" /\ ~init
                           /\ status \in {"stopped", "running", "error"}
                        THEN "none" ELSE guard
       ELSE Show(value)

RefreshApply(r) ==
    /\ refresh[r] # NoPoll /\ refresh' = [refresh EXCEPT ![r] = NoPoll]
    /\ IF refresh[r] = "absent" THEN Missed ELSE Listed(refresh[r])
    /\ UNCHANGED <<server, init, active, cleanup, start, stop, delete, load>>

RefreshFails(r) ==
    /\ refresh[r] # NoPoll /\ refresh' = [refresh EXCEPT ![r] = NoPoll]
    /\ UNCHANGED <<server, shown, init, misses, active, cleanup, start, stop, delete, load>>

-----------------------------------------------------------------------------
(* loadSessions, when the page opens; and the view.                         *)

\* The list of sessions and their statuses; the second request may fail.
LoadRead ==
    /\ load = "sent"
    /\ load' \in {listing} \cup (IF listing = "absent" THEN {} ELSE {"listed"})
    /\ UNCHANGED <<server, shown, init, misses, active, cleanup, start, stop, delete, refresh>>

\* The list replaces what the store had; then the statuses, without any exemption.
LoadApply ==
    /\ load \in Records \cup {"listed"} /\ load' = NoPoll
    /\ CASE load = "absent" -> status' = "gone" /\ UNCHANGED guard
         [] load = "listed" -> /\ status' = IF status = "gone" THEN "stopped" ELSE status
                               /\ UNCHANGED guard
         [] OTHER -> /\ status' = load
                     /\ guard' = IF load = "stopped" THEN "none"
                                 ELSE IF guard = "none" THEN "live" ELSE guard
    /\ UNCHANGED <<server, init, misses, active, cleanup, start, stop, delete, refresh>>

LoadFails ==
    /\ load # NoPoll /\ load' = NoPoll
    /\ UNCHANGED <<server, shown, init, misses, active, cleanup, start, stop, delete, refresh>>

\* setActiveSession: the user enters a live session (not for ever, so an event), or goes
\* back to the dashboard.
SetActive ==
    /\ \/ /\ ~active /\ status \in {"running", "initializing"} /\ active' = TRUE
          /\ events > 0 /\ events' = events - 1
       \/ active /\ active' = FALSE /\ UNCHANGED events
    /\ UNCHANGED <<record, listing, container, shown, init, misses, cleanup, start, stop,
                   delete, polls>>

-----------------------------------------------------------------------------
StartStep(i) ==
    \/ StartSession(i) \/ CreateSession(i) \/ ServerStarts(i) \/ StartRefused(i)
    \/ StartAnswered(i) \/ StartTick(i)
    \/ StartReady(i) \/ StartWaits(i) \/ StartErrors(i) \/ StartPollFails(i)

StopStep(j) ==
    \/ StopSession(j) \/ ServerMarks(j) \/ ServerDestroys(j) \/ StopAnswered(j) \/ StopFails(j)
    \/ StopTick(j) \/ StopPolled(j) \/ StopPollFails(j)

Next ==
    \/ Propagate \/ Heal \/ Boots \/ Elsewhere \/ GuardExpires \/ Dismiss
    \/ \E i \in Starts : StartStep(i)
    \/ \E j \in Stops : StopStep(j)
    \/ DeleteSession \/ ServerDeletes \/ Deleted \/ DeleteFails
    \/ \E r \in Refreshes : RefreshRead(r) \/ RefreshApply(r) \/ RefreshFails(r)
    \/ LoadRead \/ LoadApply \/ LoadFails \/ SetActive

Spec == Init /\ [][Next]_vars

\* KV propagates; intervals and timers fire; requests are answered, and not always by a
\* failure.  Nothing is assumed of the user or of the container.
Fairness ==
    /\ WF_vars(Propagate) /\ WF_vars(GuardExpires)
    /\ WF_vars(ServerDeletes) /\ WF_vars(Deleted \/ DeleteFails)
    /\ WF_vars(LoadRead) /\ WF_vars(LoadApply \/ LoadFails)
    /\ \A i \in Starts :
        /\ WF_vars(StartAnswered(i)) /\ WF_vars(StartTick(i))
        /\ WF_vars(StartReady(i) \/ StartWaits(i) \/ StartErrors(i) \/ StartPollFails(i))
        /\ SF_vars(StartTick(i) /\ start'[i].poll = "ready") /\ SF_vars(StartReady(i))
    /\ \A j \in Stops :
        /\ WF_vars(ServerMarks(j) \/ StopFails(j)) /\ WF_vars(ServerDestroys(j))
        /\ WF_vars(StopAnswered(j) \/ StopFails(j)) /\ WF_vars(StopTick(j))
        /\ WF_vars(StopPolled(j) \/ StopPollFails(j))
    /\ \A r \in Refreshes :
        /\ WF_vars(RefreshRead(r))
        /\ WF_vars(RefreshApply(r) \/ RefreshFails(r)) /\ SF_vars(RefreshApply(r))

FairSpec == Spec /\ Fairness

-----------------------------------------------------------------------------
(* Properties.                                                              *)

\* The calls and events are finite, so that what is settled for ever is all that can be
\* asked; each property says that the store does not stay wrong.

\* Whatever was started, stopped and answered late, the status comes to be that of the
\* record, once the user has opened what they started.
Converges ==
    <>[](status \in {"running", "stopped", "error"} /\ ~init
         => status = record \/ record = "absent")

\* A session whose record is gone leaves the list, unless it is kept in view.
Forgets == <>[](record = "absent" /\ ~active => status \in {"gone", "initializing"})

\* A session does not stay "stopping", unless the call that would end it failed.
StopLeavesStopping ==
    <>[](status = "stopping" => delete.failed \/ \E j \in Stops : stop[j].pc = "failed")

\* A start whose container is up is noticed, unless a deletion that then failed has
\* cancelled its polling.
ReadyIsNoticed == <>[](status = "initializing" => container # "ready" \/ delete.failed)

=============================================================================
