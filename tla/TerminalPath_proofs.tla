------------------------- MODULE TerminalPath_proofs -------------------------
(***************************************************************************)
(* Proofs about TerminalClient and TerminalPath, for any number of sockets *)
(* and of calls of connect().  The client alone, whatever answers it,      *)
(* keeps its invariants; the composition with the gates is a behaviour of  *)
(* the client, so it keeps them too.  The composition's own types, which   *)
(* the client cannot know, come last.                                      *)
(***************************************************************************)
EXTENDS TerminalPath, TLAPS

-----------------------------------------------------------------------------
(* The inductive invariant                                                 *)

SockType == [state : {"connecting", "open", "closing", "closed"}, loop : 0..MaxLoops,
             focused : BOOLEAN]

\* Loops are numbered in the order they are made: whatever refers to a loop refers
\* to one that was made, and a socket that is not closed to one that exists.
Numbered ==
    /\ owner <= next /\ ctl <= next /\ retry <= next
    /\ timers \subseteq 1..next /\ aborted \subseteq 1..next
    /\ \A k \in Sockets : (sock[k].state # "closed") => sock[k].loop \in 1..next

\* The controller in the map is that of the loop that still counts, so aborting it
\* ends that loop.
Held == (owner # 0 /\ owner \notin aborted) => ctl = owner

\* A socket the client hung up belongs to a loop that no longer counts: its close
\* will change nothing.
Hung == \A k \in Sockets : (sock[k].state = "closing") => ~Current(sock[k].loop)

\* The parts that speak of the loops and the sockets
Loose == Numbered /\ Held /\ Hung /\ OneLoop

IInv == TypeOK /\ Loose /\ ShownIsTrue /\ KeysOnce /\ ClaimIsKept

-----------------------------------------------------------------------------
(* What the steps do to the sockets                                        *)

\* Hanging up moves one socket to "closing" and leaves the rest.
LEMMA HangsEffect ==
    ASSUME TypeOK, NEW c \in Sockets \cup {None}
    PROVE  /\ Hangs(c) \in [Sockets -> SockType]
           /\ \A j \in Sockets :
                /\ j = c => Hangs(c)[j].state = "closing" /\ Hangs(c)[j].loop = sock[j].loop
                /\ j # c => Hangs(c)[j] = sock[j]
<1>1. CASE c = None
  BY <1>1, ClientAssumption DEF Hangs, TypeOK, SockType, ClientAssumption
<1>2. CASE c \in Sockets
  <2>1. c # None
    BY <1>2, ClientAssumption DEF ClientAssumption
  <2>2. Hangs(c) = [sock EXCEPT ![c] = [sock[c] EXCEPT !.state = "closing"]]
    BY <2>1 DEF Hangs
  <2>3. sock[c] \in SockType
    BY <1>2 DEF TypeOK, SockType
  <2>4. [sock[c] EXCEPT !.state = "closing"] \in SockType
    BY <2>3 DEF SockType
  <2>5. [sock[c] EXCEPT !.state = "closing"].state = "closing" /\ [sock[c] EXCEPT !.state = "closing"].loop = sock[c].loop
    BY <2>3 DEF SockType
  <2> QED
    BY <1>2, <2>2, <2>4, <2>5 DEF TypeOK, SockType
<1> QED
  BY <1>1, <1>2

\* Dialling takes a closed socket that no handler writes to.
LEMMA DialsEffect ==
    ASSUME NEW w \in [Sockets -> SockType], NEW n \in 0..MaxLoops, Dials(n, w)
    PROVE  \E k \in Sockets :
              /\ w[k].state = "closed" /\ k \notin handlers' /\ conn' = k /\ shown' = "connecting"
              /\ sock' \in [Sockets -> SockType]
              /\ sock'[k].state = "connecting" /\ sock'[k].loop = n
              /\ \A j \in Sockets \ {k} : sock'[j] = w[j]
<1>1. PICK k \in Sockets :
        /\ w[k].state = "closed" /\ k \notin handlers'
        /\ sock' = [w EXCEPT ![k] = [state |-> "connecting", loop |-> n, focused |-> FALSE]]
        /\ conn' = k /\ shown' = "connecting"
  BY DEF Dials
<1>2. [state |-> "connecting", loop |-> n, focused |-> FALSE] \in SockType
  BY DEF SockType
<1> QED
  BY <1>1, <1>2

\* A closed socket is a socket.
LEMMA FreeType == Free \in SockType /\ Free.state = "closed"
BY ClientAssumption DEF Free, SockType, ClientAssumption

\* How an opening changes one socket
LEMMA OpenedEffect ==
    ASSUME TypeOK, NEW k \in Sockets, NEW b \in BOOLEAN,
           sock' = [sock EXCEPT ![k].state = "open", ![k].focused = b]
    PROVE  /\ sock' \in [Sockets -> SockType]
           /\ sock'[k].state = "open" /\ sock'[k].loop = sock[k].loop /\ sock'[k].focused = b
           /\ \A j \in Sockets \ {k} : sock'[j] = sock[j]
<1>1. sock \in [Sockets -> SockType] /\ sock[k] \in SockType
  BY DEF TypeOK, SockType
<1>2. sock' \in [Sockets -> SockType]
  BY <1>1 DEF SockType
<1>3. sock'[k].state = "open" /\ sock'[k].loop = sock[k].loop /\ sock'[k].focused = b
  BY <1>1 DEF SockType
<1>4. \A j \in Sockets \ {k} : sock'[j] = sock[j]
  BY <1>1
<1> QED
  BY <1>2, <1>3, <1>4

\* How a claim sent on an open socket changes it
LEMMA FocusedEffect ==
    ASSUME TypeOK, NEW k \in Sockets, sock' = [sock EXCEPT ![k].focused = TRUE]
    PROVE  /\ sock' \in [Sockets -> SockType]
           /\ sock'[k].state = sock[k].state /\ sock'[k].loop = sock[k].loop /\ sock'[k].focused
           /\ \A j \in Sockets \ {k} : sock'[j] = sock[j]
<1>1. sock \in [Sockets -> SockType] /\ sock[k] \in SockType
  BY DEF TypeOK, SockType
<1>2. sock' \in [Sockets -> SockType]
  BY <1>1 DEF SockType
<1>3. sock'[k].state = sock[k].state /\ sock'[k].loop = sock[k].loop /\ sock'[k].focused
  BY <1>1 DEF SockType
<1>4. \A j \in Sockets \ {k} : sock'[j] = sock[j]
  BY <1>1
<1> QED
  BY <1>2, <1>3, <1>4

-----------------------------------------------------------------------------
(* Types                                                                   *)

\* connect() keeps every type: it makes a loop and a socket of it.
LEMMA ConnectTypes == ASSUME TypeOK, Connect PROVE TypeOK'
<1>1. next' \in Loops /\ owner' \in 0..MaxLoops /\ next' \in 0..MaxLoops /\ ctl' \in 0..MaxLoops
      /\ aborted' \subseteq Loops /\ retry' \in 0..MaxLoops /\ timers' \subseteq Loops
  BY ClientAssumption DEF Connect, TypeOK, Abort, Loops, ClientAssumption
<1>2. Hangs(conn) \in [Sockets -> SockType] /\ next' \in 0..MaxLoops
  BY <1>1, HangsEffect DEF TypeOK
<1>3. sock' \in [Sockets -> SockType] /\ conn' \in Sockets /\ shown' = "connecting"
  BY <1>2, DialsEffect DEF Connect
<1>4. input' \in Sockets \cup {None} /\ handlers' \subseteq Sockets
  BY DEF Connect, TypeOK
<1>5. term' \in BOOLEAN /\ pending' \in BOOLEAN /\ desired' \in BOOLEAN /\ leave' \in BOOLEAN
  BY DEF Connect, TypeOK
<1> QED
  BY <1>1, <1>3, <1>4, <1>5 DEF TypeOK, SockType

\* The callbacks of a loop keep every type.
LEMMA CallbackTypes ==
    ASSUME TypeOK, Numbered,
           \/ \E n \in Loops : Retry(n)
           \/ \E k \in Sockets : Open(k)
           \/ \E k \in Sockets : \E code \in {"retryable", "stopped", "other"} : Closes(k, code)
    PROVE  TypeOK'
<1>1. ASSUME NEW n \in Loops, Retry(n) PROVE TypeOK'
  <2>1. retry' \in 0..MaxLoops /\ timers' \subseteq Loops
    <3>1. retry' \in {retry, 0} /\ timers' \subseteq timers
      BY <1>1 DEF Retry
    <3> QED
      BY <3>1, ClientAssumption DEF TypeOK, ClientAssumption
  <2>2. sock \in [Sockets -> SockType] /\ n \in 0..MaxLoops
    BY DEF TypeOK, SockType, Loops
  <2>3. sock' \in [Sockets -> SockType] /\ conn' \in Sockets \cup {None}
        /\ shown' \in {"disconnected", "connecting", "connected"}
    BY <1>1, <2>2, DialsEffect DEF Retry, TypeOK
  <2>4. pending' \in BOOLEAN
    BY <1>1 DEF Retry, TypeOK
  <2> QED
    BY <1>1, <2>1, <2>3, <2>4 DEF Retry, TypeOK, SockType
<1>2. ASSUME NEW k \in Sockets, Open(k) PROVE TypeOK'
  <2>1. sock' \in [Sockets -> SockType]
    <3>1. CASE sock' = Hangs(k)
      BY <3>1, HangsEffect
    <3>2. CASE sock' = [sock EXCEPT ![k].state = "open", ![k].focused = pending]
      <4>1. pending \in BOOLEAN
        BY DEF TypeOK
      <4> QED
        BY <3>2, <4>1, OpenedEffect
    <3> QED
      BY <1>2, <3>1, <3>2 DEF Open
  <2>2. input' \in Sockets \cup {None} /\ handlers' \subseteq Sockets
        /\ shown' \in {"disconnected", "connecting", "connected"}
    BY <1>2 DEF Open, TypeOK
  <2>3. pending' \in BOOLEAN
    BY <1>2 DEF Open, TypeOK
  <2> QED
    BY <1>2, <2>1, <2>2, <2>3 DEF Open, TypeOK, SockType, loop
<1>3. ASSUME NEW k \in Sockets, NEW code \in {"retryable", "stopped", "other"}, Closes(k, code)
      PROVE  TypeOK'
  <2>1. sock' \in [Sockets -> SockType]
    BY <1>3, FreeType DEF Closes, TypeOK, SockType
  <2>2. sock[k].loop \in 0..MaxLoops
    BY DEF TypeOK
  <2>3. conn' \in Sockets \cup {None} /\ shown' \in {"disconnected", "connecting", "connected"}
    BY <1>3 DEF Closes, TypeOK
  <2>4. retry' \in 0..MaxLoops /\ timers' \subseteq Loops
    <3>1. sock[k].loop \in Loops
      BY <1>3, <2>2 DEF Closes, TypeOK, Numbered, Loops
    <3>2. retry' \in {retry, sock[k].loop} /\ timers' \subseteq timers \cup {sock[k].loop}
      BY <1>3 DEF Closes
    <3> QED
      BY <3>1, <3>2 DEF TypeOK, Loops
  <2> QED
    BY <1>3, <2>1, <2>3, <2>4 DEF Closes, TypeOK, SockType, claims
<1> QED
  BY <1>1, <1>2, <1>3

-----------------------------------------------------------------------------
(* Leaving                                                                 *)

Leaving ==
    \/ Dispose \/ DisposeSession \/ DisposeAll \/ DisconnectAll
    \/ \E n \in Loops : CleanUp(n) /\ owner = n

\* Whatever ends a connection ends the loop as well: by forgetting its owner, or by
\* aborting it, which the controller in the map does.
LEMMA LeavingEffect ==
    ASSUME TypeOK, Numbered, Held, Leaving
    PROVE  /\ next' = next
           /\ owner' \in {owner, 0} /\ ctl' = 0 /\ retry' \in {retry, 0}
           /\ timers' \subseteq timers
           /\ aborted \subseteq aborted' /\ aborted' \subseteq 1..next
           /\ owner' = 0 \/ owner' \in aborted'
           /\ conn' = None /\ sock' = Hangs(conn)
<1>1. ({ctl} \cap Loops) \subseteq 1..next
  BY ClientAssumption DEF TypeOK, Numbered, Loops, ClientAssumption
<1>2. owner = 0 \/ owner \in aborted \cup ({ctl} \cap Loops)
  BY ClientAssumption DEF Held, TypeOK, Loops, ClientAssumption
<1>3. conn = None => sock = Hangs(conn)
  BY DEF Hangs
<1>4. aborted \subseteq 1..next
  BY DEF Numbered
<1>5. CASE Dispose
  BY <1>1, <1>4, <1>5 DEF Dispose, Disconnect, Abort
<1>6. CASE DisposeSession
  <2>1. CASE conn # None /\ Disconnect
    BY <1>1, <1>4, <2>1 DEF Disconnect, Abort
  <2>2. CASE conn = None
    BY <1>1, <1>2, <1>3, <1>4, <1>6, <2>2 DEF DisposeSession, Abort, Disconnect
  <2> QED
    BY <1>6, <2>1, <2>2 DEF DisposeSession
<1>7. CASE DisposeAll
  <2>1. CASE conn # None /\ Disconnect
    BY <1>1, <1>4, <2>1 DEF Disconnect, Abort
  <2>2. CASE conn = None
    BY <1>1, <1>2, <1>3, <1>4, <1>7, <2>2 DEF DisposeAll, Abort, Disconnect
  <2> QED
    BY <1>7, <2>1, <2>2 DEF DisposeAll
<1>8. CASE DisconnectAll
  BY <1>1, <1>2, <1>4, <1>8 DEF DisconnectAll, Abort
<1>9. ASSUME NEW n \in Loops, CleanUp(n), owner = n PROVE aborted' \subseteq 1..next
  BY <1>1, <1>4, <1>9 DEF CleanUp
<1>10. ASSUME NEW n \in Loops, CleanUp(n), owner = n
       PROVE /\ next' = next
             /\ owner' = 0 /\ ctl' = 0 /\ retry' = 0
             /\ timers' \subseteq timers
             /\ aborted \subseteq aborted'
             /\ conn' = None /\ sock' = Hangs(conn)
  BY <1>10 DEF CleanUp
<1> QED
  BY <1>5, <1>6, <1>7, <1>8, <1>9, <1>10 DEF Leaving

\* The rest of what the leaving operations do
LEMMA LeavingRest ==
    ASSUME TypeOK, Leaving
    PROVE  /\ term' \in BOOLEAN /\ leave' \in BOOLEAN
           /\ shown' \in {shown, "disconnected"}
           /\ input' \in {input, None} /\ handlers' \subseteq handlers
           /\ conn # None => handlers' \subseteq handlers \ {input} /\ input' = None
           /\ handlers' \subseteq {input} => handlers' = {} \/ input' = input
           /\ pending' = FALSE /\ desired' = FALSE
<1>1. CASE Dispose
  BY <1>1 DEF Dispose, Disconnect, TypeOK
<1>2. CASE DisposeSession
  BY <1>2 DEF DisposeSession, Disconnect, TypeOK
<1>3. CASE DisposeAll
  BY <1>3 DEF DisposeAll, Disconnect, TypeOK
<1>4. CASE DisconnectAll
  BY <1>4 DEF DisconnectAll, TypeOK
<1>5. ASSUME NEW n \in Loops, CleanUp(n), owner = n
      PROVE /\ term' \in BOOLEAN /\ leave' \in BOOLEAN
            /\ shown' = "disconnected"
            /\ input' = None /\ handlers' = handlers \ {input}
            /\ pending' = FALSE /\ desired' = FALSE
  BY <1>5 DEF CleanUp, TypeOK
<1> QED
  BY <1>1, <1>2, <1>3, <1>4, <1>5 DEF Leaving

\* Leaving keeps the types and the invariant of the loops.
LEMMA LeavingStep == ASSUME TypeOK, Loose, Leaving PROVE TypeOK' /\ Loose'
<1> DEFINE P == /\ next' = next
                /\ owner' \in {owner, 0} /\ ctl' = 0 /\ retry' \in {retry, 0}
                /\ timers' \subseteq timers
                /\ aborted \subseteq aborted' /\ aborted' \subseteq 1..next
                /\ owner' = 0 \/ owner' \in aborted'
                /\ conn' = None /\ sock' = Hangs(conn)
<1>1. P
  BY LeavingEffect DEF Loose
<1>2. sock' \in [Sockets -> SockType] /\ conn \in Sockets \cup {None}
  BY <1>1, HangsEffect DEF TypeOK
<1>3. \A j \in Sockets : /\ sock'[j].loop = sock[j].loop
                         /\ j = conn => sock'[j].state = "closing"
                         /\ j # conn => sock'[j].state = sock[j].state
  BY <1>1, <1>2, HangsEffect
<1>4. TypeOK'
  <2>1. aborted' \subseteq Loops
    BY <1>1, ClientAssumption DEF TypeOK, Loops, ClientAssumption
  <2>2. pending' \in BOOLEAN /\ desired' \in BOOLEAN
    BY LeavingRest
  <2>3. /\ term' \in BOOLEAN /\ leave' \in BOOLEAN
        /\ shown' \in {"disconnected", "connecting", "connected"}
        /\ input' \in Sockets \cup {None} /\ handlers' \subseteq Sockets
    BY LeavingRest DEF TypeOK
  <2>4. /\ owner' \in 0..MaxLoops /\ next' \in 0..MaxLoops /\ ctl' \in 0..MaxLoops
        /\ retry' \in 0..MaxLoops /\ timers' \subseteq Loops
    BY <1>1, ClientAssumption DEF TypeOK, ClientAssumption
  <2> QED
    BY <1>1, <1>2, <2>1, <2>2, <2>3, <2>4 DEF TypeOK, SockType
<1>5. \A j \in Sockets : sock[j].state \in {"connecting", "open"} => j = conn
  BY DEF Loose, OneLoop, Live
<1>6. \A j \in Sockets : sock'[j].state \in {"closing", "closed"}
  BY <1>2, <1>3, <1>5 DEF TypeOK
<1>7. \A n \in Loops : ~Current(n)'
  BY <1>1 DEF Current, Loops
<1>8. Numbered'
  <2>1. \A j \in Sockets : (sock'[j].state # "closed") => sock'[j].loop \in 1..next
    <3> SUFFICES ASSUME NEW j \in Sockets, sock'[j].state # "closed"
                 PROVE  sock[j].loop \in 1..next
      BY <1>3
    <3>1. sock[j].state # "closed"
      <4>1. CASE j = conn
        BY <4>1, ClientAssumption DEF Loose, OneLoop, Live, ClientAssumption
      <4>2. CASE j # conn
        BY <4>2, <1>3
      <4> QED
        BY <4>1, <4>2
    <3> QED
      BY <3>1 DEF Loose, Numbered
  <2>2. owner' <= next' /\ ctl' <= next' /\ retry' <= next'
    BY <1>1, ClientAssumption DEF Loose, Numbered, TypeOK, ClientAssumption
  <2>3. timers' \subseteq 1..next' /\ aborted' \subseteq 1..next'
    BY <1>1 DEF Loose, Numbered
  <2> QED
    BY <1>1, <2>1, <2>2, <2>3 DEF Numbered
<1>9. Held'
  BY <1>1 DEF Held
<1>10. Hung'
  <2>1. \A j \in Sockets : sock'[j].state = "closing" => sock'[j].loop \in Loops
    BY <1>1, <1>8, ClientAssumption DEF Numbered, TypeOK, Loops, ClientAssumption
  <2> QED
    BY <1>7, <2>1 DEF Hung, Current
<1>11. OneLoop'
  BY <1>1, <1>6, ClientAssumption DEF OneLoop, Live, ClientAssumption
<1> QED
  BY <1>4, <1>8, <1>9, <1>10, <1>11 DEF Loose

-----------------------------------------------------------------------------
(* Connecting                                                              *)

\* connect() makes a new loop, which nothing that went before belongs to, and one
\* socket of it; the socket there was is hung up.
LEMMA ConnectStep == ASSUME TypeOK, Loose, Connect PROVE Loose'
<1>1. /\ next' = next + 1 /\ owner' = next' /\ ctl' = next' /\ retry' = 0
      /\ timers' \subseteq 1..next
  BY DEF Connect, Loose, Numbered
<1>2. next \in Nat /\ next' \in 1..MaxLoops
  BY <1>1, ClientAssumption DEF Connect, TypeOK, ClientAssumption
<1>3. aborted' \subseteq 1..next
  BY <1>2, ClientAssumption DEF Connect, Abort, Loose, Numbered, TypeOK, Loops, ClientAssumption
<1>4. Hangs(conn) \in [Sockets -> SockType] /\ next' \in 0..MaxLoops /\ conn \in Sockets \cup {None}
  BY <1>2, HangsEffect DEF TypeOK
<1>5. PICK k \in Sockets :
        /\ Hangs(conn)[k].state = "closed" /\ conn' = k
        /\ sock'[k].state = "connecting" /\ sock'[k].loop = next'
        /\ \A j \in Sockets \ {k} : sock'[j] = Hangs(conn)[j]
  BY <1>4, DialsEffect DEF Connect
<1>6. \A j \in Sockets \ {k} : sock'[j].state \in {"closing", "closed"}
  <2> SUFFICES ASSUME NEW j \in Sockets \ {k} PROVE Hangs(conn)[j].state \in {"closing", "closed"}
    BY <1>5
  <2>1. CASE j = conn
    BY <2>1, <1>4, HangsEffect
  <2>2. CASE j # conn
    BY <2>2, <1>4, HangsEffect DEF Loose, OneLoop, Live, TypeOK
  <2> QED
    BY <2>1, <2>2
<1>7. \A j \in Sockets \ {k} : (sock'[j].state # "closed") => sock'[j].loop \in 1..next
  <2> SUFFICES ASSUME NEW j \in Sockets \ {k}, Hangs(conn)[j].state # "closed"
               PROVE  Hangs(conn)[j].loop \in 1..next
    BY <1>5
  <2>1. CASE j = conn
    <3>1. sock[j].state # "closed"
      BY <2>1, ClientAssumption DEF Loose, OneLoop, Live, ClientAssumption
    <3> QED
      BY <2>1, <3>1, <1>4, HangsEffect DEF Loose, Numbered
  <2>2. CASE j # conn
    BY <2>2, <1>4, HangsEffect DEF Loose, Numbered
  <2> QED
    BY <2>1, <2>2
<1>8. Numbered'
  <2>1. \A j \in Sockets : (sock'[j].state # "closed") => sock'[j].loop \in 1..next'
    BY <1>1, <1>2, <1>5, <1>7
  <2> QED
    BY <1>1, <1>2, <1>3, <2>1 DEF Numbered
<1>9. Held'
  BY <1>1 DEF Held
<1>10. Hung'
  BY <1>1, <1>2, <1>5, <1>7 DEF Hung, Current
<1>11. OneLoop'
  <2>1. owner' \notin aborted' /\ Looping' = {}
    BY <1>1, <1>2, <1>3 DEF Current, Looping
  <2> QED
    BY <1>1, <1>5, <1>6, <2>1 DEF OneLoop, Live, Current
<1> QED
  BY <1>8, <1>9, <1>10, <1>11 DEF Loose

\* A retry of the loop that counts finds no socket and leaves no timer behind.
LEMMA RetryStep == ASSUME TypeOK, Loose, NEW n \in Loops, Retry(n) PROVE Loose'
<1> USE DEF Loose
<1>1. CASE ~Current(n)
  <2>1. /\ timers' = timers \ {n}
        /\ UNCHANGED <<conn, owner, next, ctl, aborted, retry, sock>>
    BY <1>1 DEF Retry
  <2>2. Looping' \subseteq Looping
    BY <2>1 DEF Looping, Current
  <2> QED
    BY <2>1, <2>2 DEF Numbered, Held, Hung, OneLoop, Live, Current
<1>2. CASE Current(n)
  <2>1. /\ timers' = timers \ {n, retry} /\ retry' = 0
        /\ UNCHANGED <<owner, next, ctl, aborted>> /\ Dials(n, sock)
    BY <1>2 DEF Retry
  <2>2. sock \in [Sockets -> SockType] /\ n \in 0..MaxLoops /\ n \in 1..next
    BY ClientAssumption DEF Retry, TypeOK, SockType, Loops, Numbered, ClientAssumption
  <2>3. PICK k \in Sockets :
          /\ sock[k].state = "closed" /\ conn' = k
          /\ sock'[k].state = "connecting" /\ sock'[k].loop = n
          /\ \A j \in Sockets \ {k} : sock'[j] = sock[j]
    BY <2>1, <2>2, DialsEffect
  <2>4. conn = None
    BY <1>2 DEF OneLoop, Looping, Retry
  <2>5. \A j \in Sockets : ~Live(j)
    BY <2>4, ClientAssumption DEF OneLoop, ClientAssumption
  <2>6. Numbered'
    <3>1. \A j \in Sockets : (sock'[j].state # "closed") => sock'[j].loop \in 1..next
      BY <2>2, <2>3 DEF Numbered
    <3>2. 0 <= next
      BY DEF TypeOK
    <3> QED
      BY <2>1, <3>1, <3>2 DEF Numbered
  <2>7. Held' /\ Hung'
    BY <2>1, <2>3 DEF Held, Hung, Current
  <2>8. OneLoop'
    <3>1. Looping' = {} /\ Current(n)'
      BY <1>2, <2>1 DEF Looping, Current
    <3> QED
      BY <2>3, <2>5, <3>1 DEF OneLoop, Live
  <2> QED
    BY <2>6, <2>7, <2>8
<1> QED
  BY <1>1, <1>2

\* A socket that opens is the store's socket.
LEMMA OpenIsCurrent ==
    ASSUME TypeOK, Loose, NEW k \in Sockets, Open(k)
    PROVE  /\ Current(sock[k].loop) /\ conn = k
           /\ \E b \in BOOLEAN : sock' = [sock EXCEPT ![k].state = "open", ![k].focused = b] /\ b = pending
           /\ UNCHANGED <<conn, owner, next, ctl, aborted, retry, timers>>
<1>1. conn = k /\ k # None
  BY ClientAssumption DEF Open, Loose, OneLoop, Live, ClientAssumption
<1>2. Current(sock[k].loop)
  BY <1>1 DEF Loose, OneLoop
<1>3. pending \in BOOLEAN
  BY DEF TypeOK
<1> QED
  BY <1>1, <1>2, <1>3 DEF Open, loop

\* Opening a socket leaves the loops as they are.
LEMMA OpenStep == ASSUME TypeOK, Loose, NEW k \in Sockets, Open(k) PROVE Loose'
<1> USE DEF Loose
<1>1. PICK b \in BOOLEAN : sock' = [sock EXCEPT ![k].state = "open", ![k].focused = b]
  BY OpenIsCurrent
<1>2. sock'[k].state = "open" /\ sock'[k].loop = sock[k].loop
      /\ \A j \in Sockets \ {k} : sock'[j] = sock[j]
  BY <1>1, OpenedEffect
<1>4. UNCHANGED <<conn, owner, next, ctl, aborted, retry, timers>> /\ conn = k /\ sock[k].state = "connecting"
  BY OpenIsCurrent DEF Open
<1>5. Looping' = Looping
  BY <1>4 DEF Looping, Current
<1>6. Numbered' /\ Held'
  BY <1>2, <1>4 DEF Numbered, Held
<1>7. Hung'
  BY <1>2, <1>4 DEF Hung, Current
<1>8. OneLoop'
  BY <1>2, <1>4, <1>5 DEF OneLoop, Live, Current
<1> QED
  BY <1>6, <1>7, <1>8

\* A close that counts is that of the store's socket.
LEMMA CloseIsCurrent ==
    ASSUME TypeOK, Loose, NEW k \in Sockets, sock[k].state # "closed", Current(sock[k].loop)
    PROVE  conn = k /\ Looping = {} /\ \A j \in Sockets \ {k} : ~Live(j)
<1>1. Live(k)
  BY DEF Loose, Hung, Live, TypeOK
<1> QED
  BY <1>1, ClientAssumption DEF Loose, OneLoop, ClientAssumption

\* A close ends the socket, and at most leaves one timer in its place.
LEMMA ClosesStep ==
    ASSUME TypeOK, Loose, NEW k \in Sockets, NEW code \in {"retryable", "stopped", "other"},
           Closes(k, code)
    PROVE  Loose'
<1> USE DEF Loose
<1>1. /\ sock'[k].state = "closed" /\ \A j \in Sockets \ {k} : sock'[j] = sock[j]
      /\ sock[k].state # "closed"
      /\ UNCHANGED <<owner, next, ctl, aborted>>
  BY FreeType DEF Closes, TypeOK
<1>2. CASE ~Current(sock[k].loop)
  <2>1. UNCHANGED <<conn, retry, timers>>
    BY <1>2 DEF Closes
  <2>2. Looping' = Looping
    BY <1>1, <2>1 DEF Looping, Current
  <2>3. conn # k
    BY <1>2, ClientAssumption DEF OneLoop, ClientAssumption
  <2>4. Numbered' /\ Held'
    BY <1>1, <2>1 DEF Numbered, Held
  <2>5. Hung'
    BY <1>1 DEF Hung, Current
  <2>6. OneLoop'
    <3>1. \A j \in Sockets : Live(j)' => conn' = j
      BY <1>1, <2>1 DEF OneLoop, Live
    <3>2. ASSUME conn # None PROVE Live(conn)' /\ Current(sock[conn].loop)'
      <4>1. conn \in Sockets \ {k}
        BY <2>3, <3>2 DEF TypeOK
      <4> QED
        BY <1>1, <2>1, <3>2, <4>1 DEF OneLoop, Live, Current
    <3> QED
      BY <2>1, <2>2, <3>1, <3>2 DEF OneLoop
  <2> QED
    BY <2>4, <2>5, <2>6
<1>3. CASE Current(sock[k].loop)
  <2>1. conn = k /\ Looping = {} /\ \A j \in Sockets \ {k} : ~Live(j)
    BY <1>1, <1>3, CloseIsCurrent
  <2>2. conn' = None
    BY <1>3 DEF Closes
  <2>3. retry' \in {retry, sock[k].loop} /\ timers' \subseteq timers \cup {sock[k].loop}
    BY <1>3 DEF Closes
  <2>4. sock[k].loop \in 1..next
    BY <1>1 DEF Numbered
  <2>5. Numbered'
    <3>1. retry' <= next
      BY <2>3, <2>4 DEF Numbered
    <3>2. timers' \subseteq 1..next
      BY <2>3, <2>4 DEF Numbered
    <3> QED
      BY <1>1, <3>1, <3>2 DEF Numbered
  <2>6. Held' /\ Hung'
    BY <1>1 DEF Held, Hung, Current
  <2>7. OneLoop'
    BY <1>1, <2>1, <2>2 DEF OneLoop, Live
  <2> QED
    BY <2>5, <2>6, <2>7
<1> QED
  BY <1>2, <1>3

\* The clean-up of an earlier mount, the timer of the dashboard and the claims leave
\* the loop that counts, and the state of every socket, as they are.
Resting ==
    \/ ScheduleDisconnect \/ CancelScheduledDisconnect
    \/ ClaimResizeAuthority \/ ClearPendingResizeAuthority
    \/ \E n \in Loops : CleanUp(n) /\ owner # n
    \/ UNCHANGED vars

LEMMA RestingEffect ==
    ASSUME TypeOK, Numbered, Resting
    PROVE  /\ UNCHANGED <<conn, owner, next, ctl, retry, timers, input, handlers, shown>>
           /\ aborted \subseteq aborted' /\ aborted' \subseteq 1..next
           /\ owner \in aborted' => owner \in aborted
           /\ sock' \in [Sockets -> SockType]
           /\ \A j \in Sockets : sock'[j].state = sock[j].state /\ sock'[j].loop = sock[j].loop
           /\ term' \in BOOLEAN /\ leave' \in BOOLEAN
<1>1. aborted \subseteq 1..next /\ sock \in [Sockets -> SockType]
  BY DEF Numbered, TypeOK, SockType
<1>2. CASE ScheduleDisconnect \/ CancelScheduledDisconnect \/ ClearPendingResizeAuthority \/ UNCHANGED vars
  BY <1>1, <1>2 DEF ScheduleDisconnect, CancelScheduledDisconnect, ClearPendingResizeAuthority,
     vars, loop, claims, TypeOK
<1>3. CASE ClaimResizeAuthority
  <2>1. /\ sock' \in [Sockets -> SockType]
        /\ \A j \in Sockets : sock'[j].state = sock[j].state /\ sock'[j].loop = sock[j].loop
    <3>1. CASE sock' = sock
      BY <1>1, <3>1
    <3>2. CASE conn # None /\ sock' = [sock EXCEPT ![conn].focused = TRUE]
      <4>1. conn \in Sockets
        BY <3>2 DEF TypeOK
      <4> QED
        BY <3>2, <4>1, FocusedEffect
    <3> QED
      BY <1>3, <3>1, <3>2 DEF ClaimResizeAuthority
  <2> QED
    BY <1>1, <1>3, <2>1 DEF ClaimResizeAuthority, loop, TypeOK
<1>4. ASSUME NEW n \in Loops, CleanUp(n), owner # n
      PROVE  /\ UNCHANGED <<conn, owner, next, ctl, retry, timers, input, handlers, shown, sock, term, leave>>
             /\ aborted' = aborted \cup {n} /\ n \in 1..next
  BY <1>4 DEF CleanUp, Abort
<1> QED
  BY <1>1, <1>2, <1>3, <1>4 DEF Resting, TypeOK

\* They keep the types too.
LEMMA RestingTypes == ASSUME TypeOK, Numbered, Resting PROVE TypeOK'
<1>1. pending' \in BOOLEAN /\ desired' \in BOOLEAN
  BY DEF Resting, ScheduleDisconnect, CancelScheduledDisconnect, ClaimResizeAuthority,
     ClearPendingResizeAuthority, CleanUp, vars, claims, TypeOK
<1>2. aborted' \subseteq Loops
  BY RestingEffect, ClientAssumption DEF TypeOK, Loops, ClientAssumption
<1> QED
  BY <1>1, <1>2, RestingEffect DEF TypeOK, SockType

\* They keep the invariant of the loops.
LEMMA RestingStep == ASSUME TypeOK, Loose, Resting PROVE Loose'
<1> USE DEF Loose
<1>1. /\ UNCHANGED <<conn, owner, next, ctl, retry, timers>>
      /\ aborted \subseteq aborted' /\ aborted' \subseteq 1..next
      /\ owner \in aborted' => owner \in aborted
      /\ \A j \in Sockets : sock'[j].state = sock[j].state /\ sock'[j].loop = sock[j].loop
  BY RestingEffect
<1>2. Looping' = Looping
  BY <1>1 DEF Looping, Current
<1>3. Numbered'
  BY <1>1 DEF Numbered
<1>4. Held'
  BY <1>1 DEF Held
<1>5. Hung'
  BY <1>1 DEF Hung, Current
<1>6. OneLoop'
  <2>1. \A j \in Sockets : Live(j)' <=> Live(j)
    BY <1>1 DEF Live
  <2>2. \A j \in Sockets : Current(sock[j].loop) => Current(sock[j].loop)'
    BY <1>1 DEF Current
  <2> QED
    BY <1>1, <1>2, <2>1, <2>2, ClientAssumption DEF OneLoop, TypeOK, ClientAssumption
<1> QED
  BY <1>3, <1>4, <1>5, <1>6

-----------------------------------------------------------------------------
(* Every step                                                              *)

\* The six kinds of steps of the client
LEMMA Kinds ==
    ASSUME [Next]_vars
    PROVE  \/ Connect \/ Leaving \/ Resting
           \/ \E n \in Loops : Retry(n)
           \/ \E k \in Sockets : Open(k)
           \/ \E k \in Sockets : \E code \in {"retryable", "stopped", "other"} : Closes(k, code)
BY DEF Next, Reconnect, Leaving, Resting

\* The types and the invariant of the loops are inductive by themselves.
LEMMA LooseStep == ASSUME TypeOK, Loose, [Next]_vars PROVE TypeOK' /\ Loose'
<1>0. Numbered
  BY DEF Loose
<1>1. CASE Connect
  BY <1>1, ConnectTypes, ConnectStep
<1>2. CASE Leaving
  BY <1>2, LeavingStep
<1>3. CASE Resting
  BY <1>0, <1>3, RestingTypes, RestingStep
<1>4. ASSUME NEW n \in Loops, Retry(n) PROVE TypeOK' /\ Loose'
  BY <1>0, <1>4, CallbackTypes, RetryStep
<1>5. ASSUME NEW k \in Sockets, Open(k) PROVE TypeOK' /\ Loose'
  BY <1>0, <1>5, CallbackTypes, OpenStep
<1>6. ASSUME NEW k \in Sockets, NEW code \in {"retryable", "stopped", "other"}, Closes(k, code)
      PROVE  TypeOK' /\ Loose'
  BY <1>0, <1>6, CallbackTypes, ClosesStep
<1> QED
  BY <1>1, <1>2, <1>3, <1>4, <1>5, <1>6, Kinds

\* What is shown as disconnected: a step that shows it leaves neither socket nor
\* retry, and one that makes either shows something else.
LEMMA QuietStep ==
    ASSUME TypeOK, Loose, DisconnectedIsQuiet, [Next]_vars PROVE DisconnectedIsQuiet'
<1>0. Numbered /\ Held
  BY DEF Loose
<1>1. CASE Connect
  BY <1>1 DEF Connect, Dials, DisconnectedIsQuiet
<1>2. CASE Leaving
  <2>1. conn' = None /\ timers' \subseteq Loops /\ (owner' = 0 \/ owner' \in aborted')
    BY <1>0, <1>2, LeavingEffect DEF TypeOK
  <2>2. Looping' = {}
    BY <2>1 DEF Looping, Current, Loops
  <2> QED
    BY <2>1, <2>2 DEF DisconnectedIsQuiet
<1>3. CASE Resting
  <2>1. UNCHANGED <<conn, owner, timers, shown>> /\ aborted \subseteq aborted'
    BY <1>0, <1>3, RestingEffect
  <2>2. Looping' \subseteq Looping
    BY <2>1 DEF Looping, Current
  <2> QED
    BY <2>1, <2>2 DEF DisconnectedIsQuiet
<1>4. ASSUME NEW n \in Loops, Retry(n) PROVE DisconnectedIsQuiet'
  <2>1. CASE ~Current(n)
    <3>1. UNCHANGED <<conn, owner, aborted, shown>> /\ timers' \subseteq timers
      BY <1>4, <2>1 DEF Retry
    <3>2. Looping' \subseteq Looping
      BY <3>1 DEF Looping, Current
    <3> QED
      BY <3>1, <3>2 DEF DisconnectedIsQuiet
  <2>2. CASE Current(n)
    BY <1>4, <2>2 DEF Retry, Dials, DisconnectedIsQuiet
  <2> QED
    BY <2>1, <2>2
<1>5. ASSUME NEW k \in Sockets, Open(k) PROVE DisconnectedIsQuiet'
  <2>1. Current(sock[k].loop)
    BY <1>5, OpenIsCurrent
  <2> QED
    BY <1>5, <2>1 DEF Open, DisconnectedIsQuiet
<1>6. ASSUME NEW k \in Sockets, NEW code \in {"retryable", "stopped", "other"}, Closes(k, code)
      PROVE  DisconnectedIsQuiet'
  <2>1. CASE ~Current(sock[k].loop)
    <3>1. UNCHANGED <<conn, owner, aborted, timers, shown>>
      BY <1>6, <2>1 DEF Closes
    <3>2. Looping' = Looping
      BY <3>1 DEF Looping, Current
    <3> QED
      BY <3>1, <3>2 DEF DisconnectedIsQuiet
  <2>2. CASE Current(sock[k].loop)
    <3>1. conn = k /\ Looping = {}
      BY <1>6, <2>2, CloseIsCurrent DEF Closes
    <3>2. shown # "disconnected"
      BY <3>1, ClientAssumption DEF DisconnectedIsQuiet, ClientAssumption
    <3>3. conn' = None /\ (shown' = "disconnected" => shown = "disconnected" \/ UNCHANGED <<owner, aborted, timers>>)
      BY <1>6, <2>2 DEF Closes
    <3>4. shown' = "disconnected" => Looping' = {}
      BY <3>1, <3>2, <3>3 DEF Looping, Current
    <3> QED
      BY <3>3, <3>4 DEF DisconnectedIsQuiet
  <2> QED
    BY <2>1, <2>2
<1> QED
  BY <1>1, <1>2, <1>3, <1>4, <1>5, <1>6, Kinds

\* What is not shown as disconnected has something to wait for: a step that takes its
\* socket leaves a retry, or says that it is disconnected, or disposes of it.
LEMMA WaitStep == ASSUME TypeOK, Loose, NotLeftWaiting, [Next]_vars PROVE NotLeftWaiting'
<1>0. Numbered /\ Held
  BY DEF Loose
<1>1. ASSUME NEW n, NEW w, Dials(n, w) PROVE NotLeftWaiting'
  <2>1. conn' \in Sockets
    BY <1>1 DEF Dials
  <2> QED
    BY <2>1, ClientAssumption DEF NotLeftWaiting, ClientAssumption
<1>2. CASE Connect
  BY <1>1, <1>2 DEF Connect
<1>3. CASE Leaving
  <2>1. Dispose \/ DisposeSession \/ DisposeAll => ~term'
    BY DEF Dispose, DisposeSession, DisposeAll
  <2>2. DisconnectAll \/ (\E n \in Loops : CleanUp(n) /\ owner = n) => shown' = "disconnected"
    BY DEF DisconnectAll, CleanUp
  <2> QED
    BY <1>3, <2>1, <2>2 DEF Leaving, NotLeftWaiting
<1>4. CASE Resting
  <2>1. UNCHANGED <<conn, owner, timers, shown>> /\ (owner \in aborted' => owner \in aborted)
    BY <1>0, <1>4, RestingEffect
  <2>2. term' = term
    BY <1>4 DEF Resting, ScheduleDisconnect, CancelScheduledDisconnect, ClaimResizeAuthority,
       ClearPendingResizeAuthority, CleanUp, vars
  <2>3. Looping \subseteq Looping'
    BY <2>1 DEF Looping, Current
  <2> QED
    BY <2>1, <2>2, <2>3 DEF NotLeftWaiting
<1>5. ASSUME NEW n \in Loops, Retry(n) PROVE NotLeftWaiting'
  <2>1. CASE ~Current(n)
    <3>1. UNCHANGED <<term, conn, owner, aborted, shown>> /\ timers' = timers \ {n}
      BY <1>5, <2>1 DEF Retry
    <3>2. Looping' = Looping
      BY <2>1, <3>1 DEF Looping, Current
    <3> QED
      BY <3>1, <3>2 DEF NotLeftWaiting
  <2>2. CASE Current(n)
    BY <1>1, <1>5, <2>2 DEF Retry
  <2> QED
    BY <2>1, <2>2
<1>6. ASSUME NEW k \in Sockets, Open(k) PROVE NotLeftWaiting'
  <2>1. conn' = k
    BY <1>6, OpenIsCurrent
  <2> QED
    BY <2>1, ClientAssumption DEF NotLeftWaiting, ClientAssumption
<1>7. ASSUME NEW k \in Sockets, NEW code \in {"retryable", "stopped", "other"}, Closes(k, code)
      PROVE  NotLeftWaiting'
  <2>1. CASE ~Current(sock[k].loop)
    <3>1. UNCHANGED <<term, conn, owner, aborted, timers, shown>>
      BY <1>7, <2>1 DEF Closes
    <3>2. Looping' = Looping
      BY <3>1 DEF Looping, Current
    <3> QED
      BY <3>1, <3>2 DEF NotLeftWaiting
  <2>2. CASE Current(sock[k].loop)
    <3>1. UNCHANGED <<owner, aborted>> /\ (sock[k].loop \in timers' \/ shown' = "disconnected")
      BY <1>7, <2>2 DEF Closes
    <3>2. sock[k].loop \in timers' => sock[k].loop \in Looping'
      BY <2>2, <3>1 DEF Looping, Current
    <3> QED
      BY <3>1, <3>2 DEF NotLeftWaiting
  <2> QED
    BY <2>1, <2>2
<1> QED
  BY <1>2, <1>3, <1>4, <1>5, <1>6, <1>7, Kinds

\* After a step that leaves the store without a connection no socket is live.
LEMMA NoneLive == ASSUME OneLoop', conn' = None PROVE \A j \in Sockets : sock'[j].state # "open"
BY ClientAssumption DEF OneLoop, Live, ClientAssumption

\* One handler at the most, and the open socket's
LEMMA KeysStep == ASSUME TypeOK, Loose, KeysOnce, [Next]_vars PROVE KeysOnce'
<1>0. Numbered /\ Held /\ OneLoop'
  BY LooseStep DEF Loose
<1>1. CASE Connect
  <2>1. handlers' = {}
    BY <1>1 DEF Connect, KeysOnce
  <2>2. Hangs(conn) \in [Sockets -> SockType] /\ next' \in 0..MaxLoops
    BY <1>1, HangsEffect, ConnectTypes DEF TypeOK
  <2>3. conn' \in Sockets /\ sock'[conn'].state = "connecting"
    BY <1>1, <2>2, DialsEffect DEF Connect
  <2>4. \A j \in Sockets : sock'[j].state # "open"
    BY <1>0, <2>3 DEF OneLoop, Live
  <2> QED
    BY <2>1, <2>4 DEF KeysOnce
<1>2. CASE Leaving
  <2>1. conn' = None
    BY <1>0, <1>2, LeavingEffect
  <2>2. handlers \subseteq {input} /\ handlers' \subseteq handlers
    BY <1>2, LeavingRest DEF KeysOnce
  <2>3. handlers' \subseteq {input'}
    BY <1>2, <2>2, LeavingRest
  <2> QED
    BY <1>0, <2>1, <2>3, NoneLive DEF KeysOnce
<1>3. CASE Resting
  <2>1. UNCHANGED <<input, handlers>> /\ \A j \in Sockets : sock'[j].state = sock[j].state
    BY <1>0, <1>3, RestingEffect
  <2> QED
    BY <2>1 DEF KeysOnce
<1>4. ASSUME NEW n \in Loops, Retry(n) PROVE KeysOnce'
  <2>1. UNCHANGED <<input, handlers>>
    BY <1>4 DEF Retry
  <2>2. \A j \in Sockets : sock'[j].state = "open" => sock[j].state = "open"
    <3>1. CASE ~Current(n)
      BY <1>4, <3>1 DEF Retry
    <3>2. CASE Current(n)
      <4>1. Dials(n, sock) /\ sock \in [Sockets -> SockType] /\ n \in 0..MaxLoops
        BY <1>4, <3>2 DEF Retry, TypeOK, SockType, Loops
      <4>2. PICK k \in Sockets : /\ sock'[k].state = "connecting"
                                 /\ \A j \in Sockets \ {k} : sock'[j] = sock[j]
        BY <4>1, DialsEffect
      <4> QED
        BY <4>2
    <3> QED
      BY <3>1, <3>2
  <2> QED
    BY <2>1, <2>2 DEF KeysOnce
<1>5. ASSUME NEW k \in Sockets, Open(k) PROVE KeysOnce'
  <2>1. Current(sock[k].loop) /\ conn = k /\ conn' = conn
    BY <1>5, OpenIsCurrent
  <2>2. handlers' = (handlers \ {input}) \cup {k} /\ input' = k
    BY <1>5, <2>1 DEF Open
  <2>3. handlers' = {k}
    BY <2>2 DEF KeysOnce
  <2>4. \A j \in Sockets : sock'[j].state = "open" => j = k
    BY <1>0, <2>1 DEF OneLoop, Live
  <2> QED
    BY <2>2, <2>3, <2>4 DEF KeysOnce
<1>6. ASSUME NEW k \in Sockets, NEW code \in {"retryable", "stopped", "other"}, Closes(k, code)
      PROVE  KeysOnce'
  <2>1. UNCHANGED <<input, handlers>>
    BY <1>6 DEF Closes
  <2>2. \A j \in Sockets : sock'[j].state = "open" => sock[j].state = "open"
    BY <1>6, FreeType DEF Closes, TypeOK
  <2> QED
    BY <2>1, <2>2 DEF KeysOnce
<1> QED
  BY <1>1, <1>2, <1>3, <1>4, <1>5, <1>6, Kinds

\* The claim follows the loop from socket to socket.
LEMMA ClaimStep == ASSUME TypeOK, Loose, ClaimIsKept, [Next]_vars PROVE ClaimIsKept'
<1>0. Numbered /\ Held /\ OneLoop /\ OneLoop'
  BY LooseStep DEF Loose
<1>1. CASE Connect
  BY <1>1 DEF Connect, ClaimIsKept
<1>2. CASE Leaving
  BY <1>2, LeavingRest DEF ClaimIsKept
<1>3. CASE Resting
  <2>1. CASE ClearPendingResizeAuthority
    BY <2>1 DEF ClearPendingResizeAuthority, ClaimIsKept
  <2>2. CASE ClaimResizeAuthority
    <3>1. CASE conn # None /\ sock[conn].state = "open" /\ sock' = [sock EXCEPT ![conn].focused = TRUE]
      <4>1. conn \in Sockets
        BY <3>1 DEF TypeOK
      <4>2. sock'[conn].state = "open" /\ sock'[conn].focused
        BY <3>1, <4>1, FocusedEffect
      <4>3. \A j \in Sockets : sock'[j].state \in {"connecting", "open"} => j = conn
        BY <1>0, <2>2 DEF ClaimResizeAuthority, OneLoop, Live
      <4> QED
        BY <4>2, <4>3 DEF ClaimIsKept
    <3>2. CASE conn # None /\ sock[conn].state = "connecting" /\ pending' = TRUE /\ sock' = sock
      <4>1. \A j \in Sockets : sock'[j].state = "open" => j = conn
        BY <1>0, <3>2 DEF OneLoop, Live
      <4>2. \A j \in Sockets : sock'[j].state # "open"
        BY <3>2, <4>1
      <4> QED
        BY <3>2, <4>2 DEF ClaimIsKept
    <3>3. CASE conn = None /\ sock' = sock
      <4>1. \A j \in Sockets : sock'[j].state \notin {"connecting", "open"}
        BY <1>0, <3>3, ClientAssumption DEF OneLoop, Live, ClientAssumption
      <4> QED
        BY <4>1 DEF ClaimIsKept
    <3> QED
      BY <2>2, <3>1, <3>2, <3>3 DEF ClaimResizeAuthority
  <2>3. CASE UNCHANGED <<claims, sock>>
    BY <2>3 DEF claims, ClaimIsKept
  <2>4. ASSUME NEW n \in Loops, CleanUp(n), owner # n PROVE UNCHANGED <<claims, sock>>
    BY <2>4 DEF CleanUp
  <2> QED
    BY <1>3, <2>1, <2>2, <2>3, <2>4
    DEF Resting, ScheduleDisconnect, CancelScheduledDisconnect, vars
<1>4. ASSUME NEW n \in Loops, Retry(n) PROVE ClaimIsKept'
  <2>1. CASE ~Current(n)
    BY <1>4, <2>1 DEF Retry, ClaimIsKept
  <2>2. CASE Current(n)
    <3>1. /\ pending' = (pending \/ desired) /\ desired' = desired
          /\ Dials(n, sock) /\ sock \in [Sockets -> SockType] /\ n \in 0..MaxLoops
      BY <1>4, <2>2 DEF Retry, TypeOK, SockType, Loops
    <3>2. PICK k \in Sockets : /\ sock'[k].state = "connecting"
                               /\ \A j \in Sockets \ {k} : sock'[j] = sock[j]
      BY <3>1, DialsEffect
    <3>3. desired' => pending'
      BY <3>1
    <3>4. desired' => \A j \in Sockets : sock'[j].state = "open" => sock'[j].focused
      BY <3>1, <3>2 DEF ClaimIsKept
    <3> QED
      BY <3>3, <3>4 DEF ClaimIsKept
  <2> QED
    BY <2>1, <2>2
<1>5. ASSUME NEW k \in Sockets, Open(k) PROVE ClaimIsKept'
  <2>1. PICK b \in BOOLEAN : sock' = [sock EXCEPT ![k].state = "open", ![k].focused = b] /\ b = pending
    BY <1>5, OpenIsCurrent
  <2>2. sock'[k].state = "open" /\ sock'[k].focused = pending
    BY <2>1, OpenedEffect
  <2>3. \A j \in Sockets : sock'[j].state \in {"connecting", "open"} => j = k
    <3>1. conn' = k
      BY <1>5, OpenIsCurrent
    <3> QED
      BY <1>0, <3>1 DEF OneLoop, Live
  <2>4. desired' = desired /\ (desired => pending)
    BY <1>5 DEF Open, ClaimIsKept
  <2> QED
    BY <2>2, <2>3, <2>4 DEF ClaimIsKept
<1>6. ASSUME NEW k \in Sockets, NEW code \in {"retryable", "stopped", "other"}, Closes(k, code)
      PROVE  ClaimIsKept'
  <2>1. UNCHANGED <<pending, desired>> /\ sock'[k].state = "closed"
        /\ \A j \in Sockets \ {k} : sock'[j] = sock[j]
    BY <1>6, FreeType DEF Closes, claims, TypeOK
  <2> QED
    BY <2>1 DEF ClaimIsKept
<1> QED
  BY <1>1, <1>2, <1>3, <1>4, <1>5, <1>6, Kinds

-----------------------------------------------------------------------------
(* The client, whatever answers it                                         *)

\* The invariant holds before anything is connected.
LEMMA Starts == Init => IInv
<1> SUFFICES ASSUME Init PROVE IInv
  OBVIOUS
<1>1. sock = [k \in Sockets |-> Free] /\ \A k \in Sockets : sock[k].state = "closed"
  BY FreeType DEF Init
<1>2. TypeOK
  <2>1. sock \in [Sockets -> SockType]
    BY <1>1, FreeType
  <2>2. term \in BOOLEAN /\ pending \in BOOLEAN /\ desired \in BOOLEAN /\ leave \in BOOLEAN
    BY DEF Init
  <2>3. /\ owner \in 0..MaxLoops /\ next \in 0..MaxLoops /\ ctl \in 0..MaxLoops
        /\ retry \in 0..MaxLoops
    BY ClientAssumption DEF Init, ClientAssumption
  <2>4. /\ conn \in Sockets \cup {None} /\ input \in Sockets \cup {None}
        /\ aborted = {} /\ timers = {} /\ handlers = {} /\ shown = "disconnected"
    BY DEF Init
  <2> QED
    BY <2>1, <2>2, <2>3, <2>4 DEF TypeOK, SockType
<1>3. Numbered
  BY <1>1, ClientAssumption DEF Init, Numbered, ClientAssumption
<1>4. Held /\ Hung /\ OneLoop
  BY <1>1 DEF Init, Held, Hung, OneLoop, Live
<1>5. ShownIsTrue /\ KeysOnce /\ ClaimIsKept
  BY <1>1 DEF Init, ShownIsTrue, DisconnectedIsQuiet, NotLeftWaiting, Looping, KeysOnce, ClaimIsKept
<1> QED
  BY <1>2, <1>3, <1>4, <1>5 DEF IInv, Loose

\* The invariant is inductive.
LEMMA Inductive == IInv /\ [Next]_vars => IInv'
BY LooseStep, QuietStep, WaitStep, KeysStep, ClaimStep DEF IInv, ShownIsTrue

\* Every behaviour of the client keeps it.
LEMMA ClientInvariant == Spec => []IInv
BY Starts, Inductive, PTL DEF Spec

-----------------------------------------------------------------------------
(* The composition                                                         *)

\* A step of the composition is a step of the client, or leaves it as it is.
LEMMA PathStep == [PathNext]_pathVars => [Next]_vars
<1> SUFFICES ASSUME [PathNext]_pathVars PROVE [Next]_vars
  OBVIOUS
<1>1. CASE UNCHANGED pathVars
  BY <1>1 DEF pathVars
<1>2. CASE Record \/ Container
  BY <1>2 DEF Record, Container
<1>3. CASE ClientActs \/ PollDisposes \/ \E n \in Loops : Retry(n)
  BY <1>3 DEF ClientActs, PollDisposes, Next
<1>4. ASSUME NEW k \in Sockets, RouteKv(k) \/ RouteProbe(k) \/ RouteLimit(k) \/ Forward(k)
      PROVE  UNCHANGED vars
  BY <1>4 DEF RouteKv, RouteProbe, RouteLimit, Forward, Moves
<1>5. ASSUME NEW k \in Sockets, Opens(k) \/ Drops(k) \/ RejectCloses(k) \/ HostCloses(k) \/ Hangup(k)
      PROVE  Next
  BY <1>5 DEF Opens, Drops, RejectCloses, HostCloses, Hangup, Next
<1> QED
  BY <1>1, <1>2, <1>3, <1>4, <1>5 DEF PathNext

\* The composition implements the client alone: what the gates, the record, the
\* container and the network do to it is always something the client allows for.
THEOREM PathIsAClient == PathSpec => Spec
<1>1. PathInit => Init
  BY DEF PathInit
<1> QED
  BY <1>1, PathStep, PTL DEF PathSpec, Spec

\* An operation of the client opens sockets that were closed, and closes none at once.
LEMMA OperationsDial ==
    ASSUME TypeOK, Loose, ClientActs \/ PollDisposes \/ (\E n \in Loops : Retry(n)), NEW k \in Sockets
    PROVE  IF sock[k].state = "closed" THEN sock'[k].state \in {"closed", "connecting"}
                                       ELSE sock'[k].state # "closed"
<1>0. Numbered /\ Held /\ sock \in [Sockets -> SockType] /\ conn \in Sockets \cup {None}
  BY DEF Loose, TypeOK, SockType
<1>1. \A j \in Sockets : Hangs(conn)[j].state = "closed" <=> sock[j].state = "closed"
  <2>1. conn \in Sockets => sock[conn].state # "closed"
    BY ClientAssumption DEF Loose, OneLoop, Live, ClientAssumption
  <2> QED
    BY <1>0, <2>1, HangsEffect
<1>2. ASSUME NEW n \in 0..MaxLoops, NEW w \in [Sockets -> SockType], Dials(n, w),
             \A j \in Sockets : w[j].state = "closed" <=> sock[j].state = "closed"
      PROVE  IF sock[k].state = "closed" THEN sock'[k].state \in {"closed", "connecting"}
                                         ELSE sock'[k].state # "closed"
  BY <1>2, DialsEffect
<1>3. CASE Connect
  <2>1. Dials(next', Hangs(conn)) /\ next' \in 0..MaxLoops
    BY <1>3, ClientAssumption DEF Connect, TypeOK, ClientAssumption
  <2>2. Hangs(conn) \in [Sockets -> SockType]
    BY <1>0, HangsEffect
  <2> QED
    BY <1>1, <1>2, <2>1, <2>2
<1>4. CASE Leaving
  <2>1. sock' = Hangs(conn)
    BY <1>0, <1>4, LeavingEffect
  <2> QED
    BY <1>1, <2>1
<1>5. CASE Resting
  BY <1>0, <1>5, RestingEffect
<1>6. ASSUME NEW n \in Loops, Retry(n)
      PROVE  IF sock[k].state = "closed" THEN sock'[k].state \in {"closed", "connecting"}
                                         ELSE sock'[k].state # "closed"
  <2>1. sock' = sock \/ Dials(n, sock)
    BY <1>6 DEF Retry
  <2>2. n \in 0..MaxLoops
    BY ClientAssumption DEF Loops, ClientAssumption
  <2> QED
    BY <1>0, <1>2, <2>1, <2>2
<1> QED
  BY <1>3, <1>4, <1>5, <1>6 DEF ClientActs, PollDisposes, Reconnect, Leaving, Resting

\* Every step of the composition keeps its types: an upgrade request is under way for
\* exactly the sockets that are not closed.
LEMMA PathTypeStep ==
    ASSUME PathTypeOK, IInv, [PathNext]_pathVars
    PROVE  PathTypeOK'
<1> USE DEF PathTypeOK
<1>0. TypeOK' /\ Loose
  <2>1. [Next]_vars
    BY PathStep
  <2> QED
    BY <2>1, Inductive DEF IInv
<1>1. CASE UNCHANGED pathVars
  BY <1>0, <1>1 DEF pathVars, vars, world
<1>2. CASE Record \/ Container
  BY <1>0, <1>2 DEF Record, Container, vars
<1>3. CASE (ClientActs \/ PollDisposes \/ \E n \in Loops : Retry(n)) /\ Dialing /\ UNCHANGED world
  <2>1. upgrade' \in [Sockets -> Places]
    BY <1>3 DEF Dialing, Places
  <2>2. ASSUME NEW k \in Sockets PROVE (upgrade'[k] = "none") <=> (sock'[k].state = "closed")
    <3>1. IF sock[k].state = "closed" THEN sock'[k].state \in {"closed", "connecting"}
                                      ELSE sock'[k].state # "closed"
      BY <1>0, <1>3, OperationsDial
    <3>2. upgrade'[k] = IF sock'[k].state = "connecting" /\ sock[k].state # "connecting"
                        THEN "kv" ELSE upgrade[k]
      BY <1>3 DEF Dialing
    <3> QED
      BY <3>1, <3>2
  <2> QED
    BY <1>0, <1>3, <2>1, <2>2 DEF world
<1>4. ASSUME NEW k \in Sockets, RouteKv(k) \/ RouteProbe(k) \/ RouteLimit(k) \/ Forward(k)
      PROVE  PathTypeOK'
  <2>1. PICK to \in Places \ {"none"} : /\ sock[k].state = "connecting" /\ UNCHANGED <<vars, world>>
                                        /\ upgrade' = [upgrade EXCEPT ![k] = to]
    <3>1. RouteKv(k) => \E to \in Places \ {"none"} : \E from : Moves(k, from, to)
      BY DEF RouteKv, Places, Rejected
    <3>2. RouteProbe(k) \/ RouteLimit(k) => \E to \in Places \ {"none"} : \E from : Moves(k, from, to)
      BY DEF RouteProbe, RouteLimit, Places, Rejected
    <3>3. Forward(k) => \E to \in Places \ {"none"} : \E from : Moves(k, from, to)
      <4>1. \A c : c \in {"off", "warming", "ready"} =>
              (CASE c = "off" -> "stopped" [] c = "warming" -> "warmingUp" [] c = "ready" -> "accepted")
                 \in Places \ {"none"}
        BY DEF Places, Rejected
      <4> QED
        BY <4>1 DEF Forward
    <3> QED
      BY <1>4, <3>1, <3>2, <3>3 DEF Moves
  <2>2. upgrade' \in [Sockets -> Places] /\ sock' = sock /\ UNCHANGED world
    BY <2>1 DEF vars
  <2> QED
    BY <1>0, <2>1, <2>2 DEF world
<1>5. ASSUME NEW k \in Sockets, Opens(k), UNCHANGED world PROVE PathTypeOK'
  <2>1. sock[k].state = "connecting" /\ upgrade' = upgrade
    BY <1>5 DEF Opens, Open
  <2>2. \A j \in Sockets : sock'[j].state = "closed" <=> sock[j].state = "closed"
    <3>1. PICK b \in BOOLEAN : sock' = [sock EXCEPT ![k].state = "open", ![k].focused = b]
      BY <1>0, <1>5, OpenIsCurrent DEF Opens
    <3> QED
      BY <2>1, <3>1, OpenedEffect
  <2> QED
    BY <1>0, <1>5, <2>1, <2>2 DEF world
<1>6. ASSUME NEW k \in Sockets, Drops(k) \/ RejectCloses(k) \/ HostCloses(k) \/ Hangup(k), UNCHANGED world
      PROVE  PathTypeOK'
  <2>1. Forgets(k) /\ \E code : Closes(k, code)
    BY <1>6 DEF Drops, RejectCloses, HostCloses, Hangup
  <2>2. sock' = [sock EXCEPT ![k] = Free]
    BY <2>1 DEF Closes
  <2>3. sock'[k].state = "closed" /\ \A j \in Sockets \ {k} : sock'[j] = sock[j]
    BY <2>2, FreeType DEF TypeOK
  <2>4. upgrade' = [upgrade EXCEPT ![k] = "none"]
    BY <2>1 DEF Forgets
  <2> QED
    BY <1>0, <1>6, <2>3, <2>4 DEF world, Places
<1> QED
  BY <1>1, <1>2, <1>3, <1>4, <1>5, <1>6 DEF PathNext

\* Type correctness of the client, the gates, the record and the container, with an
\* upgrade request for exactly the sockets that are not closed
THEOREM PathTypeCorrect == PathSpec => []PathTypeOK
<1>1. PathInit => PathTypeOK
  <2>1. ASSUME PathInit PROVE \A k \in Sockets : sock[k].state = "closed"
    BY <2>1, FreeType DEF PathInit, Init
  <2> QED
    BY <2>1, Starts DEF PathInit, PathTypeOK, IInv, Places
<1> QED
  BY <1>1, PathTypeStep, PathIsAClient, ClientInvariant, PTL DEF PathSpec

\* No two loops at a time, for any number of connects, retries, late closes and
\* clean-ups of earlier mounts
THEOREM OneLoopAtATime == PathSpec => []OneLoop
<1>1. IInv => OneLoop
  BY DEF IInv, Loose
<1> QED
  BY <1>1, PathIsAClient, ClientInvariant, PTL

\* What is shown as disconnected stays so until someone connects it, and what is on
\* screen and shown otherwise has a socket or a retry that will settle it.
THEOREM ScreenIsTrue == PathSpec => []ShownIsTrue
<1>1. IInv => ShownIsTrue
  BY DEF IInv
<1> QED
  BY <1>1, PathIsAClient, ClientInvariant, PTL

\* No keystroke is sent twice, and none to a socket that is gone.
THEOREM KeysAreSentOnce == PathSpec => []KeysOnce
<1>1. IInv => KeysOnce
  BY DEF IInv
<1> QED
  BY <1>1, PathIsAClient, ClientInvariant, PTL

\* A claim on the size survives any number of reconnects of its loop.
THEOREM ClaimSurvives == PathSpec => []ClaimIsKept
<1>1. IInv => ClaimIsKept
  BY DEF IInv
<1> QED
  BY <1>1, PathIsAClient, ClientInvariant, PTL

=============================================================================
