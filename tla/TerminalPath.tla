----------------------------- MODULE TerminalPath ----------------------------
(***************************************************************************)
(* The terminal client together with what answers it: the Worker's         *)
(* WebSocket route, which reads the record and probes the container before *)
(* it spends a token of the rate limit, the gate of the Container DO, and  *)
(* the gate of the host.  The record and the container change on their     *)
(* own, and need not agree.                                                *)
(***************************************************************************)
EXTENDS TerminalClient

VARIABLES
    status,    \* KV: the session's status
    container, \* "off", "warming" (up, terminalServiceReady is false), "ready"
    upgrade    \* where the upgrade request of each socket is

world == <<status, container>>
pathVars == <<vars, world, upgrade>>

Rejected == {"stopped", "warmingUp"}   \* accepted, to be closed with 4503, 1013
Places == {"none", "kv", "probe", "limit", "forward", "accepted", "refused"} \cup Rejected

PathTypeOK ==
    /\ TypeOK
    /\ status \in {"running", "stopped"}
    /\ container \in {"off", "warming", "ready"}
    /\ upgrade \in [Sockets -> Places]
    /\ \A k \in Sockets : (upgrade[k] = "none") <=> (sock[k].state = "closed")

PathInit ==
    /\ Init
    /\ status \in {"running", "stopped"} /\ container \in {"off", "warming", "ready"}
    /\ upgrade = [k \in Sockets |-> "none"]

-----------------------------------------------------------------------------
(* The upgrade request *)

Moves(k, from, to) ==
    /\ upgrade[k] = from /\ sock[k].state = "connecting"
    /\ upgrade' = [upgrade EXCEPT ![k] = to]
    /\ UNCHANGED <<vars, world>>

\* The session's record says stopped: no token is spent.
RouteKv(k) == Moves(k, "kv", IF status = "stopped" THEN "stopped" ELSE "probe")

\* safeCheckContainerHealth: only a container that answers that it is not ready
\* holds the request up; a failed probe does not.
RouteProbe(k) ==
    \/ container = "warming" /\ Moves(k, "probe", "warmingUp")
    \/ Moves(k, "probe", "limit")

RouteLimit(k) ==
    \/ Moves(k, "limit", "forward")
    \/ Moves(k, "limit", "refused")

\* The gate of the DO, then the host's
Forward(k) ==
    Moves(k, "forward", CASE container = "off" -> "stopped"
                          [] container = "warming" -> "warmingUp"
                          [] container = "ready" -> "accepted")

-----------------------------------------------------------------------------
(* What the client sees of it *)

Forgets(k) == upgrade' = [upgrade EXCEPT ![k] = "none"]

\* A client step that may dial: the socket it opens gets an upgrade request.
Dialing ==
    upgrade' = [k \in Sockets |->
        IF sock'[k].state = "connecting" /\ sock[k].state # "connecting" THEN "kv" ELSE upgrade[k]]

Opens(k) ==
    /\ upgrade[k] \in Rejected \cup {"accepted"}
    /\ Open(k) /\ UNCHANGED upgrade

\* A refusal (429, 401, 500) and a lost connection look the same: 1006.
Drops(k) ==
    /\ \/ sock[k].state = "connecting"
       \/ sock[k].state = "open" /\ upgrade[k] = "accepted"
    /\ Closes(k, "retryable") /\ Forgets(k)

RejectCloses(k) ==
    /\ sock[k].state = "open"
    /\ \/ upgrade[k] = "stopped" /\ Closes(k, "stopped")
       \/ upgrade[k] = "warmingUp" /\ Closes(k, "retryable")
    /\ Forgets(k)

\* The host ends the session of an attached client: 1000.
HostCloses(k) ==
    /\ sock[k].state = "open" /\ upgrade[k] = "accepted"
    /\ Closes(k, "other") /\ Forgets(k)

\* A close the client asked for is done, in order or not.
Hangup(k) ==
    /\ sock[k].state = "closing"
    /\ \E code \in {"retryable", "other"} : Closes(k, code)
    /\ Forgets(k)

ClientActs ==
    \/ Connect \/ Reconnect \/ Dispose \/ DisposeAll
    \/ ScheduleDisconnect \/ CancelScheduledDisconnect \/ DisconnectAll
    \/ ClaimResizeAuthority \/ ClearPendingResizeAuthority
    \/ \E n \in Loops : CleanUp(n)

\* The poll of the session list finds the record stopped.
PollDisposes == status = "stopped" /\ DisposeSession

-----------------------------------------------------------------------------
(* The record and the container *)

Record == status' \in {"running", "stopped"} \ {status} /\ UNCHANGED <<container, vars, upgrade>>

Container ==
    /\ \/ container = "off" /\ container' = "warming"
       \/ container = "warming" /\ container' \in {"ready", "off"}
       \/ container = "ready" /\ container' = "off"
    /\ UNCHANGED <<status, vars, upgrade>>

PathNext ==
    \/ Record \/ Container
    \/ (ClientActs \/ PollDisposes \/ \E n \in Loops : Retry(n)) /\ Dialing /\ UNCHANGED world
    \/ \E k \in Sockets :
        \/ RouteKv(k) \/ RouteProbe(k) \/ RouteLimit(k) \/ Forward(k)
        \/ (Opens(k) \/ Drops(k) \/ RejectCloses(k) \/ HostCloses(k) \/ Hangup(k)) /\ UNCHANGED world

\* Timers fire and closes arrive.  A client that asks again and again gets through
\* every stage some time: requests are answered, not every connection is lost, and
\* a window of the rate limit ends.
PathFairness ==
    /\ \A n \in Loops : WF_pathVars(Retry(n) /\ Dialing /\ UNCHANGED world)
    /\ \A k \in Sockets :
        /\ WF_pathVars(upgrade[k] = "refused" /\ Drops(k) /\ UNCHANGED world)
        /\ WF_pathVars(upgrade[k] = "accepted" /\ container = "off" /\ Drops(k) /\ UNCHANGED world)
        /\ WF_pathVars((RejectCloses(k) \/ Hangup(k)) /\ UNCHANGED world)
    /\ SF_pathVars(\E k \in Sockets : RouteKv(k))
    /\ SF_pathVars(\E k \in Sockets : RouteProbe(k))
    /\ SF_pathVars(\E k \in Sockets : Moves(k, "limit", "forward"))
    /\ SF_pathVars(\E k \in Sockets : Forward(k))
    /\ SF_pathVars(\E k \in Sockets : Opens(k) /\ UNCHANGED world)

PathSpec == PathInit /\ [][PathNext]_pathVars /\ PathFairness

-----------------------------------------------------------------------------
(* Properties *)

\* REQ-SESSION-012: when the container is off for good, whatever the record says,
\* the client's reconnecting comes to an end.
WakeLoopEnds ==
    (<>[](container = "off")) => <>[](Looping = {} /\ \A k \in Sockets : ~Live(k))

\* REQ-TERM-003 AC2: when the container is ready and its record says so for good, a
\* terminal that is not shown as disconnected gets its connection, unless it is
\* given up.
Reconnects ==
    (<>[](container = "ready" /\ status = "running")) =>
        []((term /\ shown # "disconnected") =>
            <>(shown = "disconnected" \/ ~term \/ \E k \in Sockets : sock[k].state = "open"))

=============================================================================
