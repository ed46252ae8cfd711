----------------------------- MODULE PtySessions ----------------------------
(***************************************************************************)
(* The terminal sessions of one container host: the Map of sessions, the   *)
(* PTY, clients and timers of each, and the WebSocket connections.  Every  *)
(* callback of the host runs to its end before the next, so an action is a *)
(* whole callback; what interleaves is the order of the callbacks.  A      *)
(* connection whose close has begun may still deliver messages it received *)
(* before.  A keepalive timer is named for the callback that set it.       *)
(***************************************************************************)
EXTENDS Integers, FiniteSets

CONSTANTS
    Ids,          \* compound ids <session>-<terminal>
    FirstTabs,    \* those that end in -1
    Prewarm,      \* PREWARM_SESSION_ID
    Objs,         \* Session objects (bound: how many are ever made)
    Conns,        \* WebSocket connections (bound: each is used once)
    MaxSessions,
    None

Keys == Ids \cup {Prewarm}
Timers == Conns \X {"error", "close"}

ASSUME PtyAssumption ==
    /\ IsFiniteSet(Ids) /\ FirstTabs \subseteq Ids /\ Prewarm \notin Ids
    /\ None \notin Keys \cup Objs \cup Conns \cup Timers
    /\ MaxSessions \in Nat

VARIABLES
    server,     \* the process: "booting", "ready", "down"
    sessions,   \* SessionManager.sessions
    name,       \* Session.id, None of an object not yet made
    pty,        \* ptyProcess is there
    clients,
    authority,  \* resizeAuthorityClient
    sizedBy,    \* whose dimensions the PTY has, None for the initial 80x24
    away,       \* disconnectedAt is set
    timers,     \* keepalive timers that are pending
    handle,     \* keepAliveTimeout: the timer it names, pending or fired
    orphan,     \* orphanTimeout is pending
    ws          \* the connections: state, the id asked for, the object served

lease == <<away, timers, handle, orphan>>
owner == <<authority, sizedBy>>
vars == <<server, sessions, name, pty, clients, owner, lease, ws>>

-----------------------------------------------------------------------------
\* "closing": the host has begun the close; "done": the client asked for the kill
\* and closes, it sends no more
States == {"new", "open", "errored", "closing", "done", "closed"}

TypeOK ==
    /\ server \in {"booting", "ready", "down"}
    /\ sessions \in [Keys -> Objs \cup {None}]
    /\ name \in [Objs -> Keys \cup {None}]
    /\ pty \in [Objs -> BOOLEAN]
    /\ clients \in [Objs -> SUBSET Conns]
    /\ authority \in [Objs -> Conns \cup {None}]
    /\ sizedBy \in [Objs -> Conns \cup {None}]
    /\ away \in [Objs -> BOOLEAN]
    /\ timers \in [Objs -> SUBSET Timers]
    /\ handle \in [Objs -> Timers \cup {None}]
    /\ orphan \in [Objs -> BOOLEAN]
    /\ ws \in [Conns -> [state : States, key : Ids \cup {None}, obj : Objs \cup {None}]]

Running == server # "down"
Unopened == [state |-> "new", key |-> None, obj |-> None]
Gone == [state |-> "closed", key |-> None, obj |-> None]

Init ==
    /\ server = "booting"
    /\ sessions = [k \in Keys |-> None]
    /\ name = [o \in Objs |-> None]
    /\ pty = [o \in Objs |-> FALSE]
    /\ clients = [o \in Objs |-> {}]
    /\ authority = [o \in Objs |-> None]
    /\ sizedBy = [o \in Objs |-> None]
    /\ away = [o \in Objs |-> FALSE]
    /\ timers = [o \in Objs |-> {}]
    /\ handle = [o \in Objs |-> None]
    /\ orphan = [o \in Objs |-> FALSE]
    /\ ws = [c \in Conns |-> Unopened]

-----------------------------------------------------------------------------
(* What the callbacks are made of *)

\* Session.kill() of every object of S: the PTY, the clients and the timer the
\* handle names; a timer whose handle was overwritten stays.
Kill(S) ==
    /\ pty' = [o \in Objs |-> pty[o] /\ o \notin S]
    /\ clients' = [o \in Objs |-> IF o \in S THEN {} ELSE clients[o]]
    /\ authority' = [o \in Objs |-> IF o \in S THEN None ELSE authority[o]]
    /\ sizedBy' = [o \in Objs |-> IF o \in S THEN None ELSE sizedBy[o]]
    /\ away' = [o \in Objs |-> away[o] /\ o \notin S]
    /\ handle' = [o \in Objs |-> IF o \in S THEN None ELSE handle[o]]

ClosesClients(S, w) ==
    [c \in Conns |-> IF \E o \in S : c \in clients[o]
                     THEN [w[c] EXCEPT !.state = "closing"] ELSE w[c]]

\* clearTimeout(keepAliveTimeout), of every object of S
Cleared(S) == [o \in Objs |-> IF o \in S THEN timers[o] \ {handle[o]} ELSE timers[o]]

\* getOrCreate(id), by its outcome
Found(id, o)   == o # None /\ sessions[id] = o
Adopted(id, o) == sessions[id] = None /\ id \in FirstTabs /\ o # None /\ sessions[Prewarm] = o
Active == Cardinality({k \in Ids : sessions[k] # None})
Misses(id) == sessions[id] = None /\ (id \notin FirstTabs \/ sessions[Prewarm] = None)
Created(id, o) == Misses(id) /\ Active < MaxSessions /\ o \in Objs /\ name[o] = None
Refused(id)    == Misses(id) /\ Active >= MaxSessions

GetOrCreate(id, o) ==
    \/ Found(id, o) /\ UNCHANGED <<sessions, name, orphan>>
    \/ /\ Adopted(id, o)
       /\ sessions' = [sessions EXCEPT ![Prewarm] = None, ![id] = o]
       /\ name' = [name EXCEPT ![o] = id]
       /\ orphan' = [orphan EXCEPT ![o] = FALSE]
    \/ /\ Created(id, o)
       /\ sessions' = [sessions EXCEPT ![id] = o]
       /\ name' = [name EXCEPT ![o] = id]
       /\ UNCHANGED orphan

\* Session.attach(ws)
Attach(c, o) ==
    /\ clients' = [clients EXCEPT ![o] = @ \cup {c}]
    /\ authority' = [authority EXCEPT ![o] = IF @ = None THEN c ELSE @]
    /\ timers' = Cleared({o})
    /\ handle' = [handle EXCEPT ![o] = None]
    /\ away' = [away EXCEPT ![o] = FALSE]
    /\ pty' = [pty EXCEPT ![o] = TRUE]
    /\ UNCHANGED sizedBy

\* (mutant: the last client leaves and no reaper is scheduled)
DetachMarksOnly(c, o, event) ==
    LET left == clients[o] \ {c} IN
    /\ clients' = [clients EXCEPT ![o] = left]
    /\ \/ authority[o] # c /\ UNCHANGED authority
       \/ authority[o] = c /\ left = {} /\ authority' = [authority EXCEPT ![o] = None]
       \/ authority[o] = c /\ \E d \in left : authority' = [authority EXCEPT ![o] = d]
    /\ away' = [away EXCEPT ![o] = @ \/ (left = {} /\ pty[o])]
    /\ UNCHANGED <<server, sessions, name, pty, sizedBy, timers, handle, orphan>>

\* Session.detach(ws): the next owner is some client left; with none left the
\* timer is set, over whatever the handle named.
Detach(c, o, event) ==
    LET left == clients[o] \ {c} IN
    /\ clients' = [clients EXCEPT ![o] = left]
    /\ \/ authority[o] # c /\ UNCHANGED authority
       \/ authority[o] = c /\ left = {} /\ authority' = [authority EXCEPT ![o] = None]
       \/ authority[o] = c /\ \E d \in left : authority' = [authority EXCEPT ![o] = d]
    /\ \/ /\ left = {} /\ pty[o]
          /\ away' = [away EXCEPT ![o] = TRUE]
          /\ timers' = [timers EXCEPT ![o] = @ \cup {<<c, event>>}]
          /\ handle' = [handle EXCEPT ![o] = <<c, event>>]
       \/ ~(left = {} /\ pty[o]) /\ UNCHANGED <<away, timers, handle>>
    /\ UNCHANGED <<server, sessions, name, pty, sizedBy, orphan>>

-----------------------------------------------------------------------------
(* The process *)

\* server.listen callback, once the init flag is seen
Boot == \E o \in Objs :
    /\ server = "booting" /\ name[o] = None
    /\ server' = "ready"
    /\ sessions' = [sessions EXCEPT ![Prewarm] = o]
    /\ name' = [name EXCEPT ![o] = Prewarm]
    /\ pty' = [pty EXCEPT ![o] = TRUE]
    /\ orphan' = [orphan EXCEPT ![o] = TRUE]
    /\ UNCHANGED <<clients, owner, away, timers, handle, ws>>

\* SIGTERM, SIGINT: killAll(), then the process exits
Shutdown ==
    LET S == {o \in Objs : \E k \in Keys : sessions[k] = o} IN
    /\ Running /\ server' = "down"
    /\ Kill(S) /\ timers' = Cleared(S) /\ ws' = ClosesClients(S, ws)
    /\ sessions' = [k \in Keys |-> None]
    /\ UNCHANGED <<name, orphan>>

-----------------------------------------------------------------------------
(* Connections *)

Connect(c, id) == \E o \in Objs :
    /\ server = "ready" /\ ws[c].state = "new"
    /\ GetOrCreate(id, o) /\ Attach(c, o)
    /\ ws' = [ws EXCEPT ![c] = [state |-> "open", key |-> id, obj |-> o]]
    /\ UNCHANGED server

\* Closed with 1013: the gate is not open yet, or the session cap is reached.
TurnAway(c, id) ==
    /\ ws[c].state = "new"
    /\ server = "booting" \/ (server = "ready" /\ Refused(id))
    /\ ws' = [ws EXCEPT ![c] = Gone]
    /\ UNCHANGED <<server, sessions, name, pty, clients, owner, lease>>

Receives(c) == Running /\ ws[c].state \in {"open", "closing"}

\* (mutant: anybody resizes)
ResizeUnchecked(c) ==
    LET o == ws[c].obj IN
    /\ Receives(c) /\ pty[o]
    /\ sizedBy' = [sizedBy EXCEPT ![o] = c]
    /\ UNCHANGED <<server, sessions, name, pty, clients, authority, lease, ws>>

\* {type: 'resize'}: applied unless another connection owns the size
Resize(c) ==
    LET o == ws[c].obj
        holder == IF authority[o] = None /\ c \in clients[o] THEN c ELSE authority[o] IN
    /\ Receives(c) /\ holder \in {None, c} /\ pty[o]
    /\ authority' = [authority EXCEPT ![o] = holder]
    /\ sizedBy' = [sizedBy EXCEPT ![o] = c]
    /\ UNCHANGED <<server, sessions, name, pty, clients, lease, ws>>

\* {type: 'focus'}
Focus(c) ==
    /\ Receives(c) /\ c \in clients[ws[c].obj]
    /\ authority' = [authority EXCEPT ![ws[c].obj] = c]
    /\ UNCHANGED <<server, sessions, name, pty, clients, sizedBy, lease, ws>>

\* {type: 'kill'}: the Map entry under the connection's id goes, whoever it holds
KillMessage(c) ==
    /\ Receives(c)
    /\ Kill({ws[c].obj}) /\ timers' = Cleared({ws[c].obj})
    /\ sessions' = [sessions EXCEPT ![ws[c].key] = None]
    /\ ws' = [ClosesClients({ws[c].obj}, ws) EXCEPT ![c].state = "done"]
    /\ UNCHANGED <<server, name, orphan>>

\* 'error', which 'close' follows
Error(c) ==
    /\ Receives(c)
    /\ Detach(c, ws[c].obj, "error")
    /\ ws' = [ws EXCEPT ![c].state = "errored"]

\* (mutant: only an error detaches)
CloseKeepsClient(c) ==
    /\ Running /\ ws[c].state \in {"open", "errored", "closing", "done"}
    /\ ws' = [ws EXCEPT ![c] = Gone]
    /\ UNCHANGED <<server, sessions, name, pty, clients, owner, lease>>

Close(c) ==
    /\ Running /\ ws[c].state \in {"open", "errored", "closing", "done"}
    /\ Detach(c, ws[c].obj, "close")
    /\ ws' = [ws EXCEPT ![c] = Gone]

-----------------------------------------------------------------------------
(* PTYs, timers and the HTTP endpoints *)

PtyExit(o) ==
    /\ Running /\ pty[o]
    /\ pty' = [pty EXCEPT ![o] = FALSE]
    /\ sizedBy' = [sizedBy EXCEPT ![o] = None]
    /\ UNCHANGED <<server, sessions, name, clients, authority, lease, ws>>

\* (mutant: the timer re-checks for clients and forgets to kill)
KeepaliveForgets(o, t) ==
    /\ Running /\ t \in timers[o]
    /\ timers' = [timers EXCEPT ![o] = @ \ {t}]
    /\ UNCHANGED <<server, sessions, name, pty, clients, owner, away, handle, orphan, ws>>

\* (mutant: the timer kills without looking who is there by now)
KeepaliveKillsAnyway(o, t) ==
    /\ Running /\ t \in timers[o] /\ pty[o]
    /\ Kill({o})
    /\ timers' = [timers EXCEPT ![o] = @ \ {t, handle[o]}]
    /\ sessions' = [sessions EXCEPT ![name[o]] = None]
    /\ ws' = ClosesClients({o}, ws)
    /\ UNCHANGED <<server, name, orphan>>

\* The keepalive timer of detach()
KeepaliveFires(o, t) ==
    /\ Running /\ t \in timers[o]
    /\ \/ /\ clients[o] = {} /\ pty[o]
          /\ Kill({o})
          /\ timers' = [timers EXCEPT ![o] = @ \ {t, handle[o]}]
          /\ sessions' = [sessions EXCEPT ![name[o]] = None]
          /\ UNCHANGED <<server, name, orphan, ws>>
       \/ /\ ~(clients[o] = {} /\ pty[o])
          /\ timers' = [timers EXCEPT ![o] = @ \ {t}]
          /\ UNCHANGED <<server, sessions, name, pty, clients, owner, away, handle, orphan, ws>>

\* SessionManager.delete(k)
Delete(k) ==
    LET S == {sessions[k]} IN
    /\ sessions[k] # None
    /\ Kill(S) /\ timers' = Cleared(S) /\ ws' = ClosesClients(S, ws)
    /\ sessions' = [sessions EXCEPT ![k] = None]
    /\ UNCHANGED <<server, name>>

\* The pre-warmed PTY was not adopted in time.
OrphanFires(o) ==
    /\ Running /\ orphan[o]
    /\ orphan' = [orphan EXCEPT ![o] = FALSE]
    /\ \/ Delete(Prewarm)
       \/ /\ sessions[Prewarm] = None
          /\ UNCHANGED <<server, sessions, name, pty, clients, owner, away, timers, handle, ws>>

\* cleanupDeadSessions(), of the interval
Cleanup ==
    LET dead(k) == \E o \in Objs : sessions[k] = o /\ ~pty[o] /\ clients[o] = {} IN
    /\ Running /\ \E k \in Keys : dead(k)
    /\ sessions' = [k \in Keys |-> IF dead(k) THEN None ELSE sessions[k]]
    /\ UNCHANGED <<server, name, pty, clients, owner, lease, ws>>

\* POST /sessions: getOrCreate alone, before the gate opens too
HttpCreate(id) == \E o \in Objs :
    /\ Running
    /\ GetOrCreate(id, o)
    /\ UNCHANGED <<server, pty, clients, owner, away, timers, handle, ws>>

\* DELETE /sessions/:id
HttpDelete(id) == Running /\ Delete(id) /\ UNCHANGED orphan

-----------------------------------------------------------------------------
Next ==
    \/ Boot \/ Shutdown \/ Cleanup
    \/ \E c \in Conns : \E id \in Ids : Connect(c, id) \/ TurnAway(c, id)
    \/ \E c \in Conns :
        Resize(c) \/ Focus(c) \/ KillMessage(c) \/ Error(c) \/ Close(c)
    \/ \E o \in Objs : PtyExit(o) \/ OrphanFires(o)
    \/ \E o \in Objs : \E t \in Timers : KeepaliveFires(o, t)
    \/ \E id \in Ids : HttpCreate(id) \/ HttpDelete(id)

\* A pending timer of a running process fires.
Fairness == \A o \in Objs : \A t \in Timers : WF_vars(KeepaliveFires(o, t))

Spec == Init /\ [][Next]_vars
FairSpec == Spec /\ Fairness

-----------------------------------------------------------------------------
(* Properties *)

Leased(o) == handle[o] \in timers[o]

\* A PTY nobody is attached to has something that will end it: the keepalive
\* timer its handle names, or, before its first client, the orphan timer.  The
\* exception is a pre-warmed PTY that POST /sessions adopted: it has no timer.
UnattendedIsLeased ==
    \A o \in Objs : (pty[o] /\ clients[o] = {}) =>
        IF away[o] THEN Leased(o)
        ELSE name[o] \in FirstTabs \/ (orphan[o] /\ sessions[Prewarm] = o)

\* Both ends agree on who is attached: an open connection is a client of its
\* session, a client is an open connection, and the object a connection is a
\* client of is the one it was given.
AttachedBothWays ==
    \A c \in Conns :
        /\ (ws[c].state = "open") => (ws[c].obj \in Objs)
        /\ \A o \in Objs : (c \in clients[o]) <=> (ws[c].state = "open" /\ ws[c].obj = o)

\* The size of a terminal always has exactly one owner among those who look at it.
OwnerIsAttached ==
    \A o \in Objs : IF clients[o] = {} THEN authority[o] = None ELSE authority[o] \in clients[o]

\* The Map and the objects agree on the ids, and an object is under one id only.
MapIsCoherent ==
    \A k \in Keys : \A o \in Objs : (sessions[k] = o) => (name[o] = k)

\* The dimensions of a PTY are only ever set by its attached owner.
SizedByOwner ==
    [][\A o \in Objs : (sizedBy'[o] \notin {sizedBy[o], None}) =>
            (sizedBy'[o] \in clients[o] /\ authority'[o] = sizedBy'[o])]_vars

\* A terminal somebody looks at ends only by its own exit, by a kill or DELETE
\* that was asked of it, or with the host: no timer of an earlier absence, no
\* pre-warm timer and no clean-up takes it away from a client that came back.
OnlyItsUsersEndIt ==
    [][\A o \in Objs : (pty[o] /\ clients[o] # {} /\ ~pty'[o]) =>
            \/ PtyExit(o) \/ Shutdown
            \/ \E c \in Conns : ws[c].obj = o /\ KillMessage(c)
            \/ \E id \in Ids : name[o] = id /\ HttpDelete(id)]_vars

\* Live: a PTY its last client has left ends, unless a client comes back.
UnattendedSettles ==
    \A o \in Objs : (pty[o] /\ away[o]) ~> (~pty[o] \/ ~away[o] \/ ~Running)

=============================================================================
