---------------------------- MODULE TerminalClient ---------------------------
(***************************************************************************)
(* One terminal of the web client's terminal store: its entries in the     *)
(* store's maps, the WebSockets it has opened and the callbacks that still *)
(* refer to them.  Every connect() is a loop of its own, numbered by its   *)
(* owner; a socket, a retry timer and an abort signal belong to a loop.    *)
(* Each callback and each operation runs to its end before the next.       *)
(* Operations on many terminals do the same to each.                       *)
(***************************************************************************)
EXTENDS Integers, FiniteSets

CONSTANTS
    Sockets,   \* bound: sockets not yet closed, or whose input handler is kept
    None,
    MaxLoops   \* bound: calls of connect()

ASSUME ClientAssumption == None \notin Sockets /\ MaxLoops \in Nat

Loops == 1..MaxLoops

VARIABLES
    term,       \* terminals has the terminal
    conn,       \* connections
    owner,      \* connectionOwners, 0 if there is none
    next,       \* nextConnectionOwner
    ctl,        \* abortControllers: the loop of the controller, 0 if there is none
    aborted,    \* loops whose signal is aborted
    retry,      \* retryTimeouts: the loop of the timer, 0 if there is none
    timers,     \* loops with a pending retry timer
    input,      \* inputDisposables: the socket the handler writes to
    handlers,   \* sockets with an input handler on the terminal
    shown,      \* connectionStates
    pending,    \* pendingFocusClaims
    desired,    \* desiredFocusClaims
    leave,      \* disconnectTimerId is set
    sock        \* the sockets

claims == <<pending, desired>>
loop == <<owner, next, ctl, aborted, retry, timers>>
vars == <<term, conn, loop, input, handlers, shown, claims, leave, sock>>

-----------------------------------------------------------------------------
Free == [state |-> "closed", loop |-> 0, focused |-> FALSE]

TypeOK ==
    /\ term \in BOOLEAN
    /\ conn \in Sockets \cup {None}
    /\ owner \in 0..MaxLoops /\ next \in 0..MaxLoops /\ ctl \in 0..MaxLoops
    /\ aborted \subseteq Loops
    /\ retry \in 0..MaxLoops /\ timers \subseteq Loops
    /\ input \in Sockets \cup {None} /\ handlers \subseteq Sockets
    /\ shown \in {"disconnected", "connecting", "connected"}
    /\ pending \in BOOLEAN /\ desired \in BOOLEAN /\ leave \in BOOLEAN
    /\ sock \in [Sockets -> [state : {"connecting", "open", "closing", "closed"},
                             loop : 0..MaxLoops, focused : BOOLEAN]]

Init ==
    /\ term = FALSE /\ conn = None
    /\ owner = 0 /\ next = 0 /\ ctl = 0 /\ aborted = {} /\ retry = 0 /\ timers = {}
    /\ input = None /\ handlers = {}
    /\ shown = "disconnected"
    /\ pending = FALSE /\ desired = FALSE /\ leave = FALSE
    /\ sock = [k \in Sockets |-> Free]

\* !signal.aborted && ownsConnection(), asked by a callback of loop n
Current(n) == n \notin aborted /\ owner = n

Abort(n) == aborted' = aborted \cup ({n} \cap Loops)
Hangs(k) == IF k = None THEN sock ELSE [sock EXCEPT ![k].state = "closing"]

\* new WebSocket(url), of loop n, when the sockets are w
Dials(n, w) == \E k \in Sockets :
    /\ w[k].state = "closed" /\ k \notin handlers'
    /\ sock' = [w EXCEPT ![k] = [state |-> "connecting", loop |-> n, focused |-> FALSE]]
    /\ conn' = k
    /\ shown' = "connecting"

-----------------------------------------------------------------------------
(* connect() and its callbacks *)

\* disconnect(), then attemptConnection(1)
Connect ==
    /\ next < MaxLoops
    /\ next' = next + 1 /\ owner' = next' /\ ctl' = next'
    /\ Abort(ctl)
    /\ timers' = timers \ {retry} /\ retry' = 0
    /\ handlers' = handlers \ {input} /\ input' = None
    /\ pending' = FALSE /\ desired' = FALSE
    /\ term' = TRUE
    /\ Dials(next', Hangs(conn))
    /\ UNCHANGED leave

\* reconnect(), of a terminal that is back in view
Reconnect == term /\ shown # "connected" /\ Connect

\* (mutants: the timer asks neither signal nor owner; the claim is not renewed)
RetryUnchecked(n) ==
    /\ n \in timers
    /\ timers' = timers \ {n, retry} /\ retry' = 0
    /\ pending' = (pending \/ desired)
    /\ handlers' = handlers /\ Dials(n, sock)
    /\ UNCHANGED <<term, owner, next, ctl, aborted, input, desired, leave>>
RetryForgetsClaim(n) ==
    /\ n \in timers
    /\ \/ /\ ~Current(n)
          /\ timers' = timers \ {n}
          /\ UNCHANGED <<conn, retry, shown, sock>>
       \/ /\ Current(n)
          /\ timers' = timers \ {n, retry} /\ retry' = 0
          /\ handlers' = handlers /\ Dials(n, sock)
    /\ UNCHANGED <<term, owner, next, ctl, aborted, input, handlers, claims, leave>>

\* A retry timer fires: attemptConnection(attempt + 1).
Retry(n) ==
    /\ n \in timers
    /\ \/ /\ ~Current(n)
          /\ timers' = timers \ {n}
          /\ UNCHANGED <<conn, retry, pending, shown, sock>>
       \/ /\ Current(n)
          /\ timers' = timers \ {n, retry} /\ retry' = 0
          /\ pending' = (pending \/ desired)
          /\ handlers' = handlers /\ Dials(n, sock)
    /\ UNCHANGED <<term, owner, next, ctl, aborted, input, handlers, desired, leave>>

\* (mutant: the input handler of the last connection is not disposed of)
OpenKeepsHandler(k) ==
    /\ sock[k].state = "connecting"
    /\ \/ /\ ~Current(sock[k].loop)
          /\ sock' = Hangs(k)
          /\ UNCHANGED <<input, handlers, shown, pending>>
       \/ /\ Current(sock[k].loop)
          /\ sock' = [sock EXCEPT ![k].state = "open", ![k].focused = pending]
          /\ shown' = "connected"
          /\ handlers' = handlers \cup {k} /\ input' = k
          /\ pending' = FALSE
    /\ UNCHANGED <<term, conn, loop, desired, leave>>

\* onopen: the focus claim goes out before the first size.
Open(k) ==
    /\ sock[k].state = "connecting"
    /\ \/ /\ ~Current(sock[k].loop)
          /\ sock' = Hangs(k)
          /\ UNCHANGED <<input, handlers, shown, pending>>
       \/ /\ Current(sock[k].loop)
          /\ sock' = [sock EXCEPT ![k].state = "open", ![k].focused = pending]
          /\ shown' = "connected"
          /\ handlers' = (handlers \ {input}) \cup {k} /\ input' = k
          /\ pending' = FALSE
    /\ UNCHANGED <<term, conn, loop, desired, leave>>

\* (mutants: every close is retried; a retryable one is not)
ClosesAlwaysRetries(k, code) ==
    LET n == sock[k].loop IN
    /\ sock[k].state # "closed"
    /\ sock' = [sock EXCEPT ![k] = Free]
    /\ \/ /\ ~Current(n)
          /\ UNCHANGED <<conn, retry, timers>>
       \/ /\ Current(n)
          /\ conn' = None
          /\ timers' = timers \cup {n} /\ retry' = n
    /\ UNCHANGED <<term, owner, next, ctl, aborted, input, handlers, shown, claims, leave>>
ClosesNeverRetries(k, code) ==
    LET n == sock[k].loop IN
    /\ sock[k].state # "closed"
    /\ sock' = [sock EXCEPT ![k] = Free]
    /\ \/ /\ ~Current(n)
          /\ UNCHANGED <<conn, shown>>
       \/ /\ Current(n)
          /\ conn' = None
          /\ shown' = IF code = "retryable" THEN shown ELSE "disconnected"
    /\ UNCHANGED <<term, loop, input, handlers, claims, leave>>

\* onclose: the other end, the network, or the end of a close the client asked for
Closes(k, code) ==
    LET n == sock[k].loop IN
    /\ sock[k].state # "closed"
    /\ sock' = [sock EXCEPT ![k] = Free]
    /\ \/ /\ ~Current(n)
          /\ UNCHANGED <<conn, retry, timers, shown>>
       \/ /\ Current(n)
          /\ conn' = None
          /\ \/ /\ code = "retryable"
                /\ timers' = timers \cup {n} /\ retry' = n
                /\ UNCHANGED shown
             \/ /\ code \in {"stopped", "other"}
                /\ shown' = "disconnected"
                /\ UNCHANGED <<retry, timers>>
    /\ UNCHANGED <<term, owner, next, ctl, aborted, input, handlers, claims, leave>>

-----------------------------------------------------------------------------
(* Leaving *)

Disconnect ==
    /\ Abort(ctl) /\ ctl' = 0 /\ owner' = 0
    /\ timers' = timers \ {retry} /\ retry' = 0
    /\ handlers' = handlers \ {input} /\ input' = None
    /\ sock' = Hangs(conn) /\ conn' = None
    /\ pending' = FALSE /\ desired' = FALSE
    /\ shown' = "disconnected"
    /\ UNCHANGED next

\* The function connect() returned, kept by the component of that loop
CleanUp(n) ==
    /\ n \in 1..next
    /\ \/ /\ owner # n /\ Abort(n)
          /\ UNCHANGED <<conn, owner, next, ctl, retry, timers, input, handlers, shown, claims, sock>>
       \/ /\ owner = n
          /\ aborted' = aborted \cup {n} \cup ({ctl} \cap Loops) /\ ctl' = 0 /\ owner' = 0
          /\ timers' = timers \ {retry} /\ retry' = 0
          /\ handlers' = handlers \ {input} /\ input' = None
          /\ sock' = Hangs(conn) /\ conn' = None
          /\ pending' = FALSE /\ desired' = FALSE
          /\ shown' = "disconnected"
          /\ UNCHANGED next
    /\ UNCHANGED <<term, leave>>

\* dispose(), disposeLocalTerminal()
Dispose == term /\ term' = FALSE /\ Disconnect /\ UNCHANGED leave

\* disposeSession(): a terminal without a connection is not disconnected, its timer
\* and its owner stay.
DisposeSession ==
    /\ term /\ term' = FALSE
    /\ \/ conn # None /\ Disconnect
       \/ /\ conn = None
          /\ Abort(ctl) /\ ctl' = 0
          /\ handlers' = handlers \ {input} /\ input' = None
          /\ pending' = FALSE /\ desired' = FALSE
          /\ shown' = "disconnected"
          /\ UNCHANGED <<conn, owner, next, retry, timers, sock>>
    /\ UNCHANGED leave

\* disposeAll(): what is shown of a terminal without a connection stays.
DisposeAll ==
    /\ term /\ term' = FALSE
    /\ \/ conn # None /\ Disconnect
       \/ /\ conn = None
          /\ Abort(ctl) /\ ctl' = 0 /\ owner' = 0
          /\ timers' = timers \ {retry} /\ retry' = 0
          /\ handlers' = handlers \ {input} /\ input' = None
          /\ pending' = FALSE /\ desired' = FALSE
          /\ UNCHANGED <<conn, next, shown, sock>>
    /\ UNCHANGED leave

ScheduleDisconnect == ~leave /\ leave' = TRUE
    /\ UNCHANGED <<term, conn, loop, input, handlers, shown, claims, sock>>
CancelScheduledDisconnect == leave /\ leave' = FALSE
    /\ UNCHANGED <<term, conn, loop, input, handlers, shown, claims, sock>>

\* (mutant: the retry loops are not aborted)
DisconnectAllKeepsLoops ==
    /\ leave /\ leave' = FALSE
    /\ timers' = timers \ {retry} /\ retry' = 0
    /\ \/ conn # None /\ handlers' = handlers \ {input} /\ input' = None
       \/ conn = None /\ UNCHANGED <<handlers, input>>
    /\ sock' = Hangs(conn) /\ conn' = None
    /\ pending' = FALSE /\ desired' = FALSE
    /\ shown' = "disconnected"
    /\ UNCHANGED <<term, owner, next, ctl, aborted>>

\* The timer fires: disconnectAll().  The owner stays, and so does the input handler
\* of a terminal that waits for its retry.
DisconnectAll ==
    /\ leave /\ leave' = FALSE
    /\ Abort(ctl) /\ ctl' = 0
    /\ timers' = timers \ {retry} /\ retry' = 0
    /\ \/ conn # None /\ handlers' = handlers \ {input} /\ input' = None
       \/ conn = None /\ UNCHANGED <<handlers, input>>
    /\ sock' = Hangs(conn) /\ conn' = None
    /\ pending' = FALSE /\ desired' = FALSE
    /\ shown' = "disconnected"
    /\ UNCHANGED <<term, owner, next>>

-----------------------------------------------------------------------------
(* The claim on the size of the terminal *)

ClaimResizeAuthority ==
    /\ desired' = TRUE
    /\ \/ /\ conn # None /\ sock[conn].state = "open"
          /\ sock' = [sock EXCEPT ![conn].focused = TRUE] /\ pending' = FALSE
       \/ /\ conn # None /\ sock[conn].state = "connecting"
          /\ pending' = TRUE /\ UNCHANGED sock
       \/ conn = None /\ UNCHANGED <<pending, sock>>
    /\ UNCHANGED <<term, conn, loop, input, handlers, shown, leave>>

ClearPendingResizeAuthority ==
    /\ pending' = FALSE /\ desired' = FALSE
    /\ UNCHANGED <<term, conn, loop, input, handlers, shown, leave, sock>>

-----------------------------------------------------------------------------
Next ==
    \/ Connect \/ Reconnect \/ Dispose \/ DisposeSession \/ DisposeAll
    \/ ScheduleDisconnect \/ CancelScheduledDisconnect \/ DisconnectAll
    \/ ClaimResizeAuthority \/ ClearPendingResizeAuthority
    \/ \E n \in Loops : Retry(n) \/ CleanUp(n)
    \/ \E k \in Sockets : Open(k)
    \/ \E k \in Sockets : \E code \in {"retryable", "stopped", "other"} : Closes(k, code)

Spec == Init /\ [][Next]_vars

-----------------------------------------------------------------------------
(* Properties *)

Live(k) == sock[k].state \in {"connecting", "open"}
Looping == {n \in timers : Current(n)}

\* REQ-TERM-003 AC5, "parallel retry loops cannot accumulate": whatever timers,
\* closes and cleanups of earlier loops are still to come, there is one socket or
\* one retry at the most, and it is the one the store knows.
OneLoop ==
    /\ \A k \in Sockets : Live(k) => conn = k
    /\ (conn # None) => (Live(conn) /\ Current(sock[conn].loop) /\ Looping = {})

\* A terminal that is shown disconnected stays so until someone connects it: no
\* socket and no retry is left that could bring it back.
DisconnectedIsQuiet == (shown = "disconnected") => (conn = None /\ Looping = {})

\* What is on screen and not shown as disconnected has something that will settle
\* it: its socket, or a retry that still counts.
NotLeftWaiting == (term /\ shown # "disconnected") => (conn # None \/ Looping # {})

\* The user sees what is: a terminal shown as disconnected waits for the user, and
\* any other waits for something that is on its way.
ShownIsTrue == DisconnectedIsQuiet /\ NotLeftWaiting

\* REQ-TERM-003 AC4, "reconnect cannot duplicate keystrokes": the terminal has one
\* input handler at the most, and while it is connected it is that of its socket.
KeysOnce ==
    /\ handlers \subseteq {input}
    /\ \A k \in Sockets : (sock[k].state = "open") => (input = k /\ k \in handlers)

\* Who asked for the size of a terminal gets it: the claim was sent on the open
\* socket, or will be when it opens, over any number of retries.
ClaimIsKept ==
    desired => \A k \in Sockets :
        /\ (sock[k].state = "open") => sock[k].focused
        /\ (sock[k].state = "connecting") => pending

=============================================================================
