-------------------------- MODULE PtySessions_proofs --------------------------
(***************************************************************************)
(* Proofs about PtySessions, for any ids, objects, connections and cap.    *)
(***************************************************************************)
EXTENDS PtySessions, TLAPS

-----------------------------------------------------------------------------
(* The inductive invariant                                                 *)

\* A connection that was let in has an object, and the object has its id.
Served ==
    \A c \in Conns : (ws[c].state \notin {"new", "closed"}) =>
        /\ ws[c].key \in Ids /\ ws[c].obj \in Objs
        /\ name[ws[c].obj] = ws[c].key

\* What the host has closed is out of the Map and has no PTY: the messages of its
\* connections that are still to come change the size of nothing.
Buried ==
    \A c \in Conns : (ws[c].state = "closing") =>
        ~pty[ws[c].obj] /\ \A k \in Keys : sessions[k] # ws[c].obj

\* An object not yet made has nothing.
Fresh == \A o \in Objs : (name[o] = None) => (~pty[o] /\ ~away[o])

\* Keepalive timers are those of objects that had a client.
TimersAreNamed == \A o \in Objs : (timers[o] # {}) => name[o] \in Ids

\* The pre-warmed session is made once.
NotYetWarm == (server = "booting") => (sessions[Prewarm] = None)

Books == TypeOK /\ MapIsCoherent /\ Served /\ AttachedBothWays

IInv ==
    /\ Books /\ Buried /\ Fresh /\ TimersAreNamed /\ NotYetWarm
    /\ OwnerIsAttached /\ UnattendedIsLeased

WsType == [state : States, key : Ids \cup {None}, obj : Objs \cup {None}]

-----------------------------------------------------------------------------
(* Types                                                                   *)

LEMMA Names == None \notin Objs /\ None \notin Keys /\ None \notin Conns /\ None \notin Timers
               /\ Ids \subseteq Keys /\ Prewarm \in Keys /\ Prewarm \notin Ids
BY PtyAssumption DEF PtyAssumption, Keys

\* Killing keeps the types of what it changes.
LEMMA KillTypes ==
    ASSUME TypeOK, NEW S \in SUBSET (Objs \cup {None}), Kill(S)
    PROVE  /\ pty' \in [Objs -> BOOLEAN] /\ clients' \in [Objs -> SUBSET Conns]
           /\ authority' \in [Objs -> Conns \cup {None}] /\ sizedBy' \in [Objs -> Conns \cup {None}]
           /\ away' \in [Objs -> BOOLEAN] /\ handle' \in [Objs -> Timers \cup {None}]
           /\ Cleared(S) \in [Objs -> SUBSET Timers]
           /\ \A w \in [Conns -> WsType] : ClosesClients(S, w) \in [Conns -> WsType]
<1>1. pty' \in [Objs -> BOOLEAN] /\ clients' \in [Objs -> SUBSET Conns]
  BY DEF Kill, TypeOK
<1>2. authority' \in [Objs -> Conns \cup {None}] /\ sizedBy' \in [Objs -> Conns \cup {None}]
  BY DEF Kill, TypeOK
<1>3. away' \in [Objs -> BOOLEAN] /\ handle' \in [Objs -> Timers \cup {None}]
  BY DEF Kill, TypeOK
<1>4. Cleared(S) \in [Objs -> SUBSET Timers]
  BY DEF Cleared, TypeOK
<1>5. ASSUME NEW w \in [Conns -> WsType] PROVE ClosesClients(S, w) \in [Conns -> WsType]
  <2>1. \A c \in Conns : [w[c] EXCEPT !.state = "closing"] \in WsType
    BY DEF WsType, States
  <2> QED
    BY <2>1 DEF ClosesClients
<1> QED
  BY <1>1, <1>2, <1>3, <1>4, <1>5

\* Leaving a session keeps the types.
LEMMA DetachTypes ==
    ASSUME TypeOK, NEW c \in Conns, NEW o \in Objs, NEW event \in {"error", "close"}, Detach(c, o, event)
    PROVE  /\ clients' \in [Objs -> SUBSET Conns] /\ authority' \in [Objs -> Conns \cup {None}]
           /\ away' \in [Objs -> BOOLEAN] /\ timers' \in [Objs -> SUBSET Timers]
           /\ handle' \in [Objs -> Timers \cup {None}]
           /\ UNCHANGED <<server, sessions, name, pty, sizedBy, orphan>>
<1>1. clients' \in [Objs -> SUBSET Conns]
  BY DEF Detach, TypeOK
<1>2. authority' \in [Objs -> Conns \cup {None}]
  BY DEF Detach, TypeOK
<1>3. <<c, event>> \in Timers
  BY DEF Timers
<1>4. away' \in [Objs -> BOOLEAN]
  BY DEF Detach, TypeOK
<1>5. timers' \in [Objs -> SUBSET Timers] /\ handle' \in [Objs -> Timers \cup {None}]
  <2>1. CASE timers' = [timers EXCEPT ![o] = @ \cup {<<c, event>>}]
             /\ handle' = [handle EXCEPT ![o] = <<c, event>>]
    <3> DEFINE t == <<c, event>>
    <3>1. t \in Timers /\ timers' = [timers EXCEPT ![o] = @ \cup {t}] /\ handle' = [handle EXCEPT ![o] = t]
      BY <1>3, <2>1
    <3> HIDE DEF t
    <3> QED
      BY <3>1 DEF TypeOK
  <2>2. CASE UNCHANGED <<timers, handle>>
    BY <2>2 DEF TypeOK
  <2> QED
    BY <2>1, <2>2 DEF Detach
<1> QED
  BY <1>1, <1>2, <1>4, <1>5 DEF Detach

\* So does finding, adopting or making one.
LEMMA CreateTypes ==
    ASSUME TypeOK, NEW id \in Ids, NEW o \in Objs, GetOrCreate(id, o)
    PROVE  /\ sessions' \in [Keys -> Objs \cup {None}] /\ name' \in [Objs -> Keys \cup {None}]
           /\ orphan' \in [Objs -> BOOLEAN]
<1>1. sessions' \in [Keys -> Objs \cup {None}]
  BY Names DEF GetOrCreate, TypeOK
<1>2. name' \in [Objs -> Keys \cup {None}]
  BY Names DEF GetOrCreate, TypeOK
<1>3. orphan' \in [Objs -> BOOLEAN]
  BY DEF GetOrCreate, TypeOK
<1> QED
  BY <1>1, <1>2, <1>3

LEMMA TypeStep == ASSUME TypeOK, Served, [Next]_vars PROVE TypeOK'
<1> USE Names
<1>0. ws \in [Conns -> WsType] /\ Unopened \in WsType /\ Gone \in WsType
  BY DEF TypeOK, WsType, Unopened, Gone, States
<1>1. CASE Boot
  BY <1>1 DEF Boot, TypeOK, owner
<1>2. CASE Shutdown
  <2> DEFINE S == {o \in Objs : \E k \in Keys : sessions[k] = o}
  <2>1. S \in SUBSET (Objs \cup {None}) /\ Kill(S) /\ timers' = Cleared(S) /\ ws' = ClosesClients(S, ws)
    BY <1>2 DEF Shutdown
  <2>2. sessions' \in [Keys -> Objs \cup {None}]
    BY <1>2 DEF Shutdown
  <2> HIDE DEF S
  <2>3. /\ pty' \in [Objs -> BOOLEAN] /\ clients' \in [Objs -> SUBSET Conns]
        /\ authority' \in [Objs -> Conns \cup {None}] /\ sizedBy' \in [Objs -> Conns \cup {None}]
        /\ away' \in [Objs -> BOOLEAN] /\ handle' \in [Objs -> Timers \cup {None}]
        /\ timers' \in [Objs -> SUBSET Timers] /\ ws' \in [Conns -> WsType]
    BY <1>0, <2>1, KillTypes
  <2> QED
    BY <1>2, <2>2, <2>3 DEF Shutdown, TypeOK, WsType
<1>3. CASE Cleanup
  BY <1>3 DEF Cleanup, TypeOK, owner, lease
<1>4. ASSUME NEW c \in Conns, NEW id \in Ids, Connect(c, id) PROVE TypeOK'
  <2>1. PICK o \in Objs : /\ GetOrCreate(id, o) /\ Attach(c, o) /\ server' = server
                          /\ ws' = [ws EXCEPT ![c] = [state |-> "open", key |-> id, obj |-> o]]
    BY <1>4 DEF Connect
  <2>2. [state |-> "open", key |-> id, obj |-> o] \in WsType
    BY DEF WsType, States
  <2>3. ws' \in [Conns -> WsType]
    BY <1>0, <2>1, <2>2
  <2>4. clients' \in [Objs -> SUBSET Conns] /\ authority' \in [Objs -> Conns \cup {None}]
        /\ handle' \in [Objs -> Timers \cup {None}] /\ sizedBy' = sizedBy
    BY <2>1 DEF Attach, TypeOK
  <2>5. timers' \in [Objs -> SUBSET Timers]
    BY <2>1 DEF Attach, Cleared, TypeOK
  <2>6. pty' \in [Objs -> BOOLEAN] /\ away' \in [Objs -> BOOLEAN]
    BY <2>1 DEF Attach, TypeOK
  <2> QED
    BY <2>1, <2>3, <2>4, <2>5, <2>6, CreateTypes DEF TypeOK, WsType
<1>5. ASSUME NEW c \in Conns, NEW id \in Ids, TurnAway(c, id) PROVE TypeOK'
  <2>1. ws' \in [Conns -> WsType]
    BY <1>0, <1>5 DEF TurnAway
  <2> QED
    BY <1>5, <2>1 DEF TurnAway, TypeOK, WsType, owner, lease
<1>6. ASSUME NEW c \in Conns, Receives(c) PROVE ws[c].obj \in Objs /\ ws[c].key \in Ids
  BY <1>6 DEF Receives, Served
<1>7. ASSUME NEW c \in Conns, Resize(c) PROVE TypeOK'
  <2>1. ws[c].obj \in Objs
    BY <1>6, <1>7 DEF Resize
  <2>2. authority' \in [Objs -> Conns \cup {None}] /\ sizedBy' \in [Objs -> Conns \cup {None}]
    BY <1>7, <2>1 DEF Resize, TypeOK
  <2> QED
    BY <1>7, <2>2 DEF Resize, TypeOK, lease
<1>8. ASSUME NEW c \in Conns, Focus(c) PROVE TypeOK'
  BY <1>8 DEF Focus, TypeOK, lease
<1>9. ASSUME NEW c \in Conns, KillMessage(c) PROVE TypeOK'
  <2>1. ws[c].obj \in Objs /\ ws[c].key \in Keys
    BY <1>6, <1>9 DEF KillMessage
  <2>2. {ws[c].obj} \in SUBSET (Objs \cup {None})
    BY <2>1
  <2>3. Kill({ws[c].obj}) /\ timers' = Cleared({ws[c].obj})
        /\ ws' = [ClosesClients({ws[c].obj}, ws) EXCEPT ![c].state = "done"]
    BY <1>9 DEF KillMessage
  <2>4. /\ pty' \in [Objs -> BOOLEAN] /\ clients' \in [Objs -> SUBSET Conns]
        /\ authority' \in [Objs -> Conns \cup {None}] /\ sizedBy' \in [Objs -> Conns \cup {None}]
        /\ away' \in [Objs -> BOOLEAN] /\ handle' \in [Objs -> Timers \cup {None}]
        /\ timers' \in [Objs -> SUBSET Timers]
        /\ ClosesClients({ws[c].obj}, ws) \in [Conns -> WsType]
    BY <1>0, <2>2, <2>3, KillTypes
  <2>5. ws' \in [Conns -> WsType]
    <3> DEFINE w == ClosesClients({ws[c].obj}, ws)
    <3>1. w \in [Conns -> WsType] /\ ws' = [w EXCEPT ![c].state = "done"]
      BY <2>3, <2>4
    <3> HIDE DEF w
    <3> QED
      BY <3>1 DEF WsType, States
  <2>6. sessions' \in [Keys -> Objs \cup {None}]
    BY <1>9, <2>1 DEF KillMessage, TypeOK
  <2> QED
    BY <1>9, <2>4, <2>5, <2>6 DEF KillMessage, TypeOK, WsType
<1>10. ASSUME NEW c \in Conns, Error(c) PROVE TypeOK'
  <2>1. ws[c].obj \in Objs /\ Detach(c, ws[c].obj, "error")
    BY <1>6, <1>10 DEF Error
  <2>2. ws' \in [Conns -> WsType]
    BY <1>0, <1>10 DEF Error, WsType, States
  <2> QED
    BY <2>1, <2>2, DetachTypes DEF TypeOK, WsType
<1>11. ASSUME NEW c \in Conns, Close(c) PROVE TypeOK'
  <2>1. ws[c].obj \in Objs /\ Detach(c, ws[c].obj, "close")
    BY <1>11 DEF Close, Served
  <2>2. ws' \in [Conns -> WsType]
    BY <1>0, <1>11 DEF Close
  <2> QED
    BY <2>1, <2>2, DetachTypes DEF TypeOK, WsType
<1>12. ASSUME NEW o \in Objs, PtyExit(o) PROVE TypeOK'
  BY <1>12 DEF PtyExit, TypeOK, lease
<1>13. ASSUME NEW k \in Keys, Delete(k), orphan' \in [Objs -> BOOLEAN] PROVE TypeOK'
  <2>1. sessions[k] \in Objs \cup {None} /\ Kill({sessions[k]}) /\ timers' = Cleared({sessions[k]})
        /\ ws' = ClosesClients({sessions[k]}, ws)
    BY <1>13 DEF Delete, TypeOK
  <2>2. {sessions[k]} \in SUBSET (Objs \cup {None})
    BY <2>1
  <2>3. /\ pty' \in [Objs -> BOOLEAN] /\ clients' \in [Objs -> SUBSET Conns]
        /\ authority' \in [Objs -> Conns \cup {None}] /\ sizedBy' \in [Objs -> Conns \cup {None}]
        /\ away' \in [Objs -> BOOLEAN] /\ handle' \in [Objs -> Timers \cup {None}]
        /\ timers' \in [Objs -> SUBSET Timers] /\ ws' \in [Conns -> WsType]
    BY <1>0, <2>1, <2>2, KillTypes
  <2>4. sessions' \in [Keys -> Objs \cup {None}]
    BY <1>13 DEF Delete, TypeOK
  <2> QED
    BY <1>13, <2>3, <2>4 DEF Delete, TypeOK, WsType
<1>14. ASSUME NEW o \in Objs, OrphanFires(o) PROVE TypeOK'
  <2>1. orphan' \in [Objs -> BOOLEAN]
    BY <1>14 DEF OrphanFires, TypeOK
  <2>2. CASE Delete(Prewarm)
    BY <1>13, <2>1, <2>2
  <2>3. CASE UNCHANGED <<server, sessions, name, pty, clients, owner, away, timers, handle, ws>>
    BY <2>1, <2>3 DEF TypeOK, owner
  <2> QED
    BY <1>14, <2>2, <2>3 DEF OrphanFires
<1>15. ASSUME NEW o \in Objs, NEW t \in Timers, KeepaliveFires(o, t) PROVE TypeOK'
  <2>1. timers' \in [Objs -> SUBSET Timers]
    BY <1>15 DEF KeepaliveFires, TypeOK
  <2>2. CASE Kill({o}) /\ sessions' = [sessions EXCEPT ![name[o]] = None] /\ UNCHANGED <<server, name, orphan, ws>>
    <3>1. sessions' \in [Keys -> Objs \cup {None}]
      BY <2>2 DEF TypeOK
    <3>2. /\ pty' \in [Objs -> BOOLEAN] /\ clients' \in [Objs -> SUBSET Conns]
          /\ authority' \in [Objs -> Conns \cup {None}] /\ sizedBy' \in [Objs -> Conns \cup {None}]
          /\ away' \in [Objs -> BOOLEAN] /\ handle' \in [Objs -> Timers \cup {None}]
      BY <2>2, KillTypes
    <3> QED
      BY <2>1, <2>2, <3>1, <3>2 DEF TypeOK
  <2>3. CASE UNCHANGED <<server, sessions, name, pty, clients, owner, away, handle, orphan, ws>>
    BY <2>1, <2>3 DEF TypeOK, owner
  <2> QED
    BY <1>15, <2>2, <2>3 DEF KeepaliveFires
<1>16. ASSUME NEW id \in Ids, HttpCreate(id) PROVE TypeOK'
  <2>1. PICK o \in Objs : GetOrCreate(id, o)
    BY <1>16 DEF HttpCreate
  <2>2. UNCHANGED <<server, pty, clients, owner, away, timers, handle, ws>>
    BY <1>16 DEF HttpCreate
  <2> QED
    BY <2>1, <2>2, CreateTypes DEF TypeOK, owner
<1>17. ASSUME NEW id \in Ids, HttpDelete(id) PROVE TypeOK'
  <2>1. Delete(id) /\ orphan' = orphan
    BY <1>17 DEF HttpDelete
  <2> QED
    BY <1>13, <2>1 DEF TypeOK
<1>18. CASE UNCHANGED vars
  BY <1>18 DEF vars, owner, lease, TypeOK
<1> QED
  BY <1>1, <1>2, <1>3, <1>4, <1>5, <1>7, <1>8, <1>9, <1>10, <1>11, <1>12, <1>14, <1>15,
     <1>16, <1>17, <1>18 DEF Next

-----------------------------------------------------------------------------
(* What the kinds of steps do                                              *)

\* What kills: the kill message, the deletions, the reaper, the shutdown
Killing(S) ==
    /\ Kill(S) /\ S \subseteq Objs
    /\ name' = name /\ server' \in {server, "down"}
    /\ \A k \in Keys : /\ sessions'[k] \in {sessions[k], None}
                       /\ sessions'[k] \notin S
    /\ sessions[Prewarm] \notin S => sessions'[Prewarm] = sessions[Prewarm]
    /\ \A o \in Objs : /\ timers'[o] \subseteq timers[o]
                       /\ o \notin S => timers'[o] = timers[o]
                       /\ o \notin S => (orphan'[o] = orphan[o] \/ sessions[Prewarm] # o)
    /\ \A c \in Conns :
        /\ ws'[c].key = ws[c].key /\ ws'[c].obj = ws[c].obj
        /\ (\E o \in S : c \in clients[o]) => ws'[c].state \in {"closing", "done"}
        /\ (\A o \in S : c \notin clients[o]) =>
                \/ ws'[c].state = ws[c].state
                \/ ws'[c].state = "done" /\ ws[c].state = "closing"

\* The state of a connection after its clients' sessions were closed
LEMMA ClosesEffect ==
    ASSUME TypeOK, NEW S \in SUBSET Objs, NEW c \in Conns
    PROVE  /\ ClosesClients(S, ws)[c].key = ws[c].key /\ ClosesClients(S, ws)[c].obj = ws[c].obj
           /\ (\E o \in S : c \in clients[o]) => ClosesClients(S, ws)[c].state = "closing"
           /\ (\A o \in S : c \notin clients[o]) => ClosesClients(S, ws)[c] = ws[c]
<1>1. ws[c] \in WsType
  BY DEF TypeOK, WsType
<1>2. [ws[c] EXCEPT !.state = "closing"].state = "closing"
      /\ [ws[c] EXCEPT !.state = "closing"].key = ws[c].key
      /\ [ws[c] EXCEPT !.state = "closing"].obj = ws[c].obj
  BY <1>1 DEF WsType
<1> QED
  BY <1>2 DEF ClosesClients

LEMMA ShutdownKills == ASSUME TypeOK, Shutdown PROVE \E S \in SUBSET Objs : Killing(S)
<1> DEFINE S == {o \in Objs : \E k \in Keys : sessions[k] = o}
<1> USE Names
<1>1. S \in SUBSET Objs /\ Kill(S) /\ timers' = Cleared(S) /\ ws' = ClosesClients(S, ws)
      /\ sessions' = [k \in Keys |-> None] /\ UNCHANGED <<name, orphan>> /\ server' = "down"
  BY DEF Shutdown
<1>2. sessions[Prewarm] \notin S => sessions'[Prewarm] = sessions[Prewarm]
  BY <1>1 DEF TypeOK
<1> HIDE DEF S
<1>3. \A k \in Keys : sessions'[k] \in {sessions[k], None} /\ sessions'[k] \notin S
  BY <1>1
<1>4. \A o \in Objs : timers'[o] \subseteq timers[o] /\ (o \notin S => timers'[o] = timers[o])
  BY <1>1 DEF Cleared
<1>5. \A c \in Conns :
        /\ ws'[c].key = ws[c].key /\ ws'[c].obj = ws[c].obj
        /\ (\E o \in S : c \in clients[o]) => ws'[c].state \in {"closing", "done"}
        /\ (\A o \in S : c \notin clients[o]) => ws'[c].state = ws[c].state
  BY <1>1, ClosesEffect
<1> QED
  BY <1>1, <1>2, <1>3, <1>4, <1>5 DEF Killing

LEMMA KillMessageKills ==
    ASSUME TypeOK, Served, MapIsCoherent, AttachedBothWays, NEW c \in Conns, KillMessage(c)
    PROVE  Killing({ws[c].obj})
<1> DEFINE o == ws[c].obj
<1> USE Names
<1>1. o \in Objs /\ ws[c].key \in Ids /\ name[o] = ws[c].key /\ ws[c].state \in {"open", "closing"}
  BY DEF KillMessage, Receives, Served
<1>2. /\ Kill({o}) /\ timers' = Cleared({o})
      /\ sessions' = [sessions EXCEPT ![ws[c].key] = None]
      /\ ws' = [ClosesClients({o}, ws) EXCEPT ![c].state = "done"]
      /\ UNCHANGED <<server, name, orphan>>
  BY DEF KillMessage
<1> HIDE DEF o
<1>3. {o} \in SUBSET Objs
  BY <1>1
<1>4. \A k \in Keys : sessions'[k] \in {sessions[k], None} /\ sessions'[k] \notin {o}
  BY <1>1, <1>2 DEF TypeOK, MapIsCoherent
<1>5. sessions'[Prewarm] = sessions[Prewarm]
  BY <1>1, <1>2 DEF TypeOK
<1>6. \A p \in Objs : timers'[p] \subseteq timers[p] /\ (p \notin {o} => timers'[p] = timers[p])
  BY <1>2 DEF Cleared
<1>7. ASSUME NEW d \in Conns
      PROVE  /\ ws'[d].key = ws[d].key /\ ws'[d].obj = ws[d].obj
             /\ (\E p \in {o} : d \in clients[p]) => ws'[d].state \in {"closing", "done"}
             /\ (\A p \in {o} : d \notin clients[p]) =>
                    \/ ws'[d].state = ws[d].state
                    \/ ws'[d].state = "done" /\ ws[d].state = "closing"
  <2> DEFINE w == ClosesClients({o}, ws)
  <2>0. ws' = [w EXCEPT ![c].state = "done"]
    BY <1>2
  <2>1. w \in [Conns -> WsType]
    <3>1. {o} \in SUBSET (Objs \cup {None}) /\ ws \in [Conns -> WsType]
      BY <1>1 DEF TypeOK, WsType
    <3> QED
      BY <1>2, <3>1, KillTypes
  <2>2. /\ w[d].key = ws[d].key /\ w[d].obj = ws[d].obj
        /\ (\E p \in {o} : d \in clients[p]) => w[d].state = "closing"
        /\ (\A p \in {o} : d \notin clients[p]) => w[d] = ws[d]
    BY <1>3, ClosesEffect
  <2> HIDE DEF w
  <2>3. CASE d # c
    <3>1. ws'[d] = w[d]
      BY <2>0, <2>1, <2>3
    <3> QED
      BY <2>2, <3>1
  <2>4. CASE d = c
    <3>1. ws'[c].state = "done" /\ ws'[c].key = w[c].key /\ ws'[c].obj = w[c].obj
      BY <2>0, <2>1 DEF WsType
    <3>2. (\A p \in {o} : c \notin clients[p]) => ws[c].state = "closing"
      <4>1. ws[c].state = "open" => c \in clients[o]
        BY <1>1 DEF AttachedBothWays, o
      <4> QED
        BY <1>1, <4>1
    <3> QED
      BY <2>2, <2>4, <3>1, <3>2
  <2> QED
    BY <2>3, <2>4
<1>8. Killing({o})
  BY <1>2, <1>3, <1>4, <1>5, <1>6, <1>7 DEF Killing
<1> QED
  BY <1>8 DEF o

LEMMA DeleteKills ==
    ASSUME TypeOK, MapIsCoherent, NEW k \in Keys, Delete(k),
           \A o \in Objs : o # sessions[k] => (orphan'[o] = orphan[o] \/ sessions[Prewarm] # o)
    PROVE  \E S \in SUBSET Objs : Killing(S)
<1> DEFINE S == {sessions[k]}
<1> USE Names
<1>1. /\ S \in SUBSET Objs /\ Kill(S) /\ timers' = Cleared(S) /\ ws' = ClosesClients(S, ws)
      /\ sessions' = [sessions EXCEPT ![k] = None] /\ UNCHANGED <<server, name>>
  BY DEF Delete, TypeOK
<1>2. \A j \in Keys : sessions'[j] \in {sessions[j], None} /\ sessions'[j] \notin S
  BY <1>1 DEF TypeOK, MapIsCoherent
<1>3. sessions[Prewarm] \notin S => sessions'[Prewarm] = sessions[Prewarm]
  BY <1>1 DEF TypeOK
<1>4. \A o \in Objs : o \notin S => (orphan'[o] = orphan[o] \/ sessions[Prewarm] # o)
  OBVIOUS
<1> HIDE DEF S
<1>5. \A o \in Objs : timers'[o] \subseteq timers[o] /\ (o \notin S => timers'[o] = timers[o])
  BY <1>1 DEF Cleared
<1>6. \A c \in Conns :
        /\ ws'[c].key = ws[c].key /\ ws'[c].obj = ws[c].obj
        /\ (\E o \in S : c \in clients[o]) => ws'[c].state \in {"closing", "done"}
        /\ (\A o \in S : c \notin clients[o]) => ws'[c].state = ws[c].state
  BY <1>1, ClosesEffect
<1> QED
  BY <1>1, <1>2, <1>3, <1>4, <1>5, <1>6 DEF Killing

\* What neither kills nor attaches nor detaches
Resting ==
    /\ UNCHANGED <<name, clients, away, handle, server>>
    /\ \A k \in Keys : \/ sessions'[k] = sessions[k]
                       \/ sessions'[k] = None /\ \E o \in Objs : sessions[k] = o /\ ~pty[o]
    /\ \A o \in Objs : /\ pty'[o] => pty[o]
                       /\ timers'[o] \subseteq timers[o]
                       /\ (pty[o] /\ clients[o] = {}) => timers'[o] = timers[o]
                       /\ orphan'[o] = orphan[o] \/ sessions[Prewarm] # o
    /\ \A c \in Conns : ws'[c] = ws[c] \/ (ws'[c] = Gone /\ ws[c].state = "new")

LEMMA KeepaliveEffect ==
    ASSUME TypeOK, MapIsCoherent, TimersAreNamed, NEW o \in Objs, NEW t \in Timers, KeepaliveFires(o, t)
    PROVE  Killing({o}) \/ (Resting /\ UNCHANGED authority)
<1> USE Names
<1>1. CASE /\ clients[o] = {} /\ pty[o] /\ Kill({o})
           /\ timers' = [timers EXCEPT ![o] = @ \ {t, handle[o]}]
           /\ sessions' = [sessions EXCEPT ![name[o]] = None]
           /\ UNCHANGED <<server, name, orphan, ws>>
  <2>1. name[o] \in Ids
    BY DEF TimersAreNamed, KeepaliveFires
  <2>2. \A k \in Keys : sessions'[k] \in {sessions[k], None} /\ sessions'[k] \notin {o}
    BY <1>1, <2>1 DEF TypeOK, MapIsCoherent
  <2>3. sessions'[Prewarm] = sessions[Prewarm]
    BY <1>1, <2>1 DEF TypeOK
  <2>4. \A p \in Objs : timers'[p] \subseteq timers[p] /\ (p \notin {o} => timers'[p] = timers[p])
    BY <1>1 DEF TypeOK
  <2>5. \A c \in Conns : ~\E p \in {o} : c \in clients[p]
    BY <1>1
  <2>6. \A c \in Conns : ws'[c] = ws[c]
    BY <1>1
  <2> QED
    BY <1>1, <2>2, <2>3, <2>4, <2>5, <2>6 DEF Killing
<1>2. CASE /\ ~(clients[o] = {} /\ pty[o])
           /\ timers' = [timers EXCEPT ![o] = @ \ {t}]
           /\ UNCHANGED <<server, sessions, name, pty, clients, owner, away, handle, orphan, ws>>
  <2>1. \A p \in Objs : /\ timers'[p] \subseteq timers[p]
                        /\ (pty[p] /\ clients[p] = {}) => timers'[p] = timers[p]
    BY <1>2 DEF TypeOK
  <2> QED
    BY <1>2, <2>1 DEF Resting, owner
<1> QED
  BY <1>1, <1>2 DEF KeepaliveFires

\* Who leaves is no client any more; the last of a PTY leaves a timer.
Leaving(c) ==
    /\ ws[c].state \notin {"new", "closed"}
    /\ UNCHANGED <<server, sessions, name, pty, orphan>>
    /\ \A o \in Objs :
        /\ clients'[o] = (IF o = ws[c].obj THEN clients[o] \ {c} ELSE clients[o])
        /\ o # ws[c].obj => (away'[o] = away[o] /\ timers'[o] = timers[o] /\ handle'[o] = handle[o])
        /\ (o = ws[c].obj /\ pty[o] /\ clients'[o] = {}) => (away'[o] /\ handle'[o] \in timers'[o])
    /\ \/ ws'[c].state = "errored" /\ ws'[c].key = ws[c].key /\ ws'[c].obj = ws[c].obj
       \/ ws'[c].state = "closed"
    /\ \A d \in Conns \ {c} : ws'[d] = ws[d]

LEMMA LeavingEffect ==
    ASSUME TypeOK, Served, NEW c \in Conns, Error(c) \/ Close(c)
    PROVE  Leaving(c)
<1>0. ws \in [Conns -> WsType] /\ ws[c] \in WsType
  BY DEF TypeOK, WsType
<1>1. PICK event \in {"error", "close"} : Detach(c, ws[c].obj, event)
  BY DEF Error, Close
<1>2. ws[c].state \notin {"new", "closed"}
  BY DEF Error, Close, Receives
<1>3. ws[c].obj \in Objs
  BY <1>2 DEF Served
<1> DEFINE o == ws[c].obj
           t == <<c, event>>
<1>4. /\ clients' = [clients EXCEPT ![o] = clients[o] \ {c}]
      /\ UNCHANGED <<server, sessions, name, pty, orphan>>
      /\ \/ /\ clients[o] \ {c} = {} /\ pty[o]
            /\ away' = [away EXCEPT ![o] = TRUE]
            /\ timers' = [timers EXCEPT ![o] = @ \cup {t}]
            /\ handle' = [handle EXCEPT ![o] = t]
         \/ ~(clients[o] \ {c} = {} /\ pty[o]) /\ UNCHANGED <<away, timers, handle>>
  BY <1>1 DEF Detach
<1>5. o \in Objs
  BY <1>3
<1>6. \A d \in Conns \ {c} : ws'[d] = ws[d]
  BY <1>0 DEF Error, Close
<1>7. \/ ws'[c].state = "errored" /\ ws'[c].key = ws[c].key /\ ws'[c].obj = ws[c].obj
      \/ ws'[c].state = "closed"
  <2>1. CASE Error(c)
    BY <1>0, <2>1 DEF Error, WsType
  <2>2. CASE Close(c)
    BY <1>0, <2>2 DEF Close, Gone
  <2> QED
    BY <2>1, <2>2
<1> HIDE DEF t
<1>8. \A p \in Objs :
        /\ clients'[p] = (IF p = o THEN clients[p] \ {c} ELSE clients[p])
        /\ p # o => (away'[p] = away[p] /\ timers'[p] = timers[p] /\ handle'[p] = handle[p])
        /\ (p = o /\ pty[p] /\ clients'[p] = {}) => (away'[p] /\ handle'[p] \in timers'[p])
  <2> HIDE DEF o
  <2>1. \A p \in Objs : clients'[p] = (IF p = o THEN clients[p] \ {c} ELSE clients[p])
    BY <1>4, <1>5 DEF TypeOK
  <2>2. CASE UNCHANGED <<away, timers, handle>> /\ ~(clients[o] \ {c} = {} /\ pty[o])
    BY <2>1, <2>2
  <2>3. CASE /\ away' = [away EXCEPT ![o] = TRUE]
             /\ timers' = [timers EXCEPT ![o] = @ \cup {t}]
             /\ handle' = [handle EXCEPT ![o] = t]
    <3>1. away'[o] /\ t \in timers'[o] /\ handle'[o] = t
      BY <1>5, <2>3 DEF TypeOK
    <3>2. \A p \in Objs \ {o} : away'[p] = away[p] /\ timers'[p] = timers[p] /\ handle'[p] = handle[p]
      BY <1>5, <2>3 DEF TypeOK
    <3> QED
      BY <2>1, <3>1, <3>2
  <2> QED
    BY <1>4, <2>2, <2>3
<1> QED
  BY <1>2, <1>4, <1>6, <1>7, <1>8 DEF Leaving

LEMMA RestingEffect ==
    ASSUME TypeOK,
           \/ Cleanup \/ UNCHANGED vars
           \/ \E c \in Conns : \E id \in Ids : TurnAway(c, id)
           \/ \E c \in Conns : Resize(c) \/ Focus(c)
           \/ \E o \in Objs : PtyExit(o)
    PROVE  Resting
<1> USE Names
<1>1. CASE Cleanup
  <2>1. \A k \in Keys : \/ sessions'[k] = sessions[k]
                        \/ sessions'[k] = None /\ \E o \in Objs : sessions[k] = o /\ ~pty[o]
    BY <1>1 DEF Cleanup
  <2> QED
    BY <1>1, <2>1 DEF Cleanup, Resting, lease
<1>2. CASE UNCHANGED vars
  BY <1>2 DEF vars, lease, Resting
<1>3. ASSUME NEW c \in Conns, NEW id \in Ids, TurnAway(c, id) PROVE Resting
  <2>1. \A d \in Conns : ws'[d] = ws[d] \/ (ws'[d] = Gone /\ ws[d].state = "new")
    BY <1>3 DEF TurnAway, TypeOK
  <2> QED
    BY <1>3, <2>1 DEF TurnAway, Resting, lease
<1>4. ASSUME NEW c \in Conns, Resize(c) \/ Focus(c) PROVE Resting
  BY <1>4 DEF Resize, Focus, Resting, lease
<1>5. ASSUME NEW o \in Objs, PtyExit(o) PROVE Resting
  <2>1. \A p \in Objs : pty'[p] => pty[p]
    BY <1>5 DEF PtyExit, TypeOK
  <2> QED
    BY <1>5, <2>1 DEF PtyExit, Resting, lease
<1> QED
  BY <1>1, <1>2, <1>3, <1>4, <1>5

\* getOrCreate() gives an object the id, and takes it from nobody else.
LEMMA CreateEffect ==
    ASSUME TypeOK, MapIsCoherent, NEW id \in Ids, NEW o \in Objs, GetOrCreate(id, o)
    PROVE  /\ name'[o] = id /\ sessions'[id] = o
           /\ name[o] = id \/ name[o] = None \/ (name[o] = Prewarm /\ id \in FirstTabs)
           /\ orphan'[o] = orphan[o] \/ id \in FirstTabs
           /\ \A p \in Objs \ {o} : name'[p] = name[p] /\ orphan'[p] = orphan[p]
           /\ \A k \in Keys \ {id} : /\ sessions[k] = o => sessions'[k] = None
                                     /\ sessions[k] # o => sessions'[k] = sessions[k]
           /\ (\E k \in Keys : sessions[k] = o) \/ name[o] = None
<1> USE Names
<1>1. CASE Found(id, o) /\ UNCHANGED <<sessions, name, orphan>>
  BY <1>1 DEF Found, TypeOK, MapIsCoherent
<1>2. CASE /\ Adopted(id, o)
           /\ sessions' = [sessions EXCEPT ![Prewarm] = None, ![id] = o]
           /\ name' = [name EXCEPT ![o] = id]
           /\ orphan' = [orphan EXCEPT ![o] = FALSE]
  <2>1. name[o] = Prewarm /\ id \in FirstTabs /\ sessions[Prewarm] = o
    BY <1>2 DEF Adopted, MapIsCoherent
  <2>2. \A k \in Keys \ {Prewarm} : sessions[k] # o
    BY <2>1 DEF MapIsCoherent
  <2>3. sessions'[id] = o /\ sessions'[Prewarm] = None
        /\ \A k \in Keys \ {id, Prewarm} : sessions'[k] = sessions[k]
    BY <1>2 DEF TypeOK
  <2>4. name'[o] = id /\ \A p \in Objs \ {o} : name'[p] = name[p] /\ orphan'[p] = orphan[p]
    BY <1>2 DEF TypeOK
  <2> QED
    BY <2>1, <2>2, <2>3, <2>4
<1>3. CASE /\ Created(id, o)
           /\ sessions' = [sessions EXCEPT ![id] = o]
           /\ name' = [name EXCEPT ![o] = id]
           /\ UNCHANGED orphan
  <2>1. name[o] = None /\ \A k \in Keys : sessions[k] # o
    BY <1>3 DEF Created, MapIsCoherent
  <2>2. sessions'[id] = o /\ \A k \in Keys \ {id} : sessions'[k] = sessions[k]
    BY <1>3 DEF TypeOK
  <2>3. name'[o] = id /\ \A p \in Objs \ {o} : name'[p] = name[p]
    BY <1>3 DEF TypeOK
  <2> QED
    BY <1>3, <2>1, <2>2, <2>3
<1> QED
  BY <1>1, <1>2, <1>3 DEF GetOrCreate

\* The first client of an object starts its PTY and stops its timer.
LEMMA AttachEffect ==
    ASSUME TypeOK, NEW c \in Conns, NEW o \in Objs, Attach(c, o)
    PROVE  /\ clients'[o] = clients[o] \cup {c}
           /\ authority'[o] = (IF authority[o] = None THEN c ELSE authority[o])
           /\ timers'[o] \subseteq timers[o]
           /\ \A p \in Objs \ {o} : /\ clients'[p] = clients[p] /\ authority'[p] = authority[p]
                                    /\ timers'[p] = timers[p] /\ handle'[p] = handle[p]
                                    /\ away'[p] = away[p] /\ pty'[p] = pty[p]
<1>1. clients'[o] = clients[o] \cup {c} /\ \A p \in Objs \ {o} : clients'[p] = clients[p]
  BY DEF Attach, TypeOK
<1>2. authority'[o] = (IF authority[o] = None THEN c ELSE authority[o])
      /\ \A p \in Objs \ {o} : authority'[p] = authority[p]
  BY DEF Attach, TypeOK
<1>3. timers'[o] \subseteq timers[o] /\ \A p \in Objs \ {o} : timers'[p] = timers[p]
  BY DEF Attach, Cleared
<1>4. \A p \in Objs \ {o} : handle'[p] = handle[p] /\ away'[p] = away[p] /\ pty'[p] = pty[p]
  BY DEF Attach, TypeOK
<1> QED
  BY <1>1, <1>2, <1>3, <1>4

\* The host makes the pre-warmed session and its PTY once.
LEMMA BootEffect ==
    ASSUME TypeOK, Boot
    PROVE  \E o \in Objs :
              /\ name[o] = None /\ name'[o] = Prewarm /\ sessions'[Prewarm] = o /\ orphan'[o]
              /\ server = "booting" /\ server' = "ready"
              /\ \A p \in Objs \ {o} : name'[p] = name[p] /\ pty'[p] = pty[p] /\ orphan'[p] = orphan[p]
              /\ \A k \in Keys \ {Prewarm} : sessions'[k] = sessions[k]
              /\ UNCHANGED <<clients, authority, sizedBy, away, timers, handle, ws>>
<1>1. PICK o \in Objs :
        /\ server = "booting" /\ name[o] = None /\ server' = "ready"
        /\ sessions' = [sessions EXCEPT ![Prewarm] = o]
        /\ name' = [name EXCEPT ![o] = Prewarm]
        /\ pty' = [pty EXCEPT ![o] = TRUE]
        /\ orphan' = [orphan EXCEPT ![o] = TRUE]
        /\ UNCHANGED <<clients, owner, away, timers, handle, ws>>
  BY DEF Boot
<1>2. name'[o] = Prewarm /\ \A p \in Objs \ {o} : name'[p] = name[p]
  BY <1>1, Names DEF TypeOK
<1>3. orphan'[o] /\ \A p \in Objs \ {o} : orphan'[p] = orphan[p]
  BY <1>1 DEF TypeOK
<1>4. \A p \in Objs \ {o} : pty'[p] = pty[p]
  BY <1>1 DEF TypeOK
<1>5. sessions'[Prewarm] = o /\ \A k \in Keys \ {Prewarm} : sessions'[k] = sessions[k]
  BY <1>1, Names DEF TypeOK
<1> QED
  BY <1>1, <1>2, <1>3, <1>4, <1>5 DEF owner

\* The six kinds of steps of the host
LEMMA Kinds ==
    ASSUME Books, TimersAreNamed, [Next]_vars
    PROVE  \/ Boot
           \/ \E c \in Conns : \E id \in Ids : Connect(c, id)
           \/ \E id \in Ids : HttpCreate(id)
           \/ \E S \in SUBSET Objs : Killing(S)
           \/ \E c \in Conns : Error(c) \/ Close(c)
           \/ Resting /\ (UNCHANGED authority \/ \E c \in Conns : Resize(c) \/ Focus(c))
<1> USE DEF Books
<1>1. ASSUME NEW o \in Objs, OrphanFires(o)
      PROVE  (\E S \in SUBSET Objs : Killing(S)) \/ (Resting /\ UNCHANGED authority)
  <2>1. \A p \in Objs \ {o} : orphan'[p] = orphan[p]
    BY <1>1 DEF OrphanFires, TypeOK
  <2>2. CASE Delete(Prewarm)
    <3>1. \A p \in Objs : p # sessions[Prewarm] => (orphan'[p] = orphan[p] \/ sessions[Prewarm] # p)
      OBVIOUS
    <3> QED
      BY <2>2, <3>1, DeleteKills, Names
  <2>3. CASE /\ sessions[Prewarm] = None
             /\ UNCHANGED <<server, sessions, name, pty, clients, owner, away, timers, handle, ws>>
    BY <2>3, Names DEF Resting, owner
  <2> QED
    BY <1>1, <2>2, <2>3 DEF OrphanFires
<1>2. ASSUME NEW id \in Ids, HttpDelete(id) PROVE \E S \in SUBSET Objs : Killing(S)
  BY <1>2, DeleteKills, Names DEF HttpDelete
<1>3. ASSUME NEW c \in Conns, KillMessage(c) PROVE \E S \in SUBSET Objs : Killing(S)
  <2>1. Killing({ws[c].obj})
    BY <1>3, KillMessageKills
  <2>2. {ws[c].obj} \in SUBSET Objs
    BY <2>1 DEF Killing
  <2> QED
    BY <2>1, <2>2
<1>4. ASSUME NEW o \in Objs, NEW t \in Timers, KeepaliveFires(o, t)
      PROVE  (\E S \in SUBSET Objs : Killing(S)) \/ (Resting /\ UNCHANGED authority)
  <2>1. Killing({o}) \/ (Resting /\ UNCHANGED authority)
    BY <1>4, KeepaliveEffect
  <2>2. {o} \in SUBSET Objs
    OBVIOUS
  <2> QED
    BY <2>1, <2>2
<1>5. Shutdown => \E S \in SUBSET Objs : Killing(S)
  BY ShutdownKills
<1>6. (Cleanup \/ UNCHANGED vars) => Resting /\ UNCHANGED authority
  BY RestingEffect DEF Cleanup, vars, owner
<1>7. ASSUME NEW c \in Conns, NEW id \in Ids, TurnAway(c, id) PROVE Resting /\ UNCHANGED authority
  BY <1>7, RestingEffect DEF TurnAway, owner
<1>8. ASSUME NEW o \in Objs, PtyExit(o) PROVE Resting /\ UNCHANGED authority
  BY <1>8, RestingEffect DEF PtyExit
<1>9. ASSUME NEW c \in Conns, Resize(c) \/ Focus(c) PROVE Resting
  BY <1>9, RestingEffect
<1> QED
  BY <1>1, <1>2, <1>3, <1>4, <1>5, <1>6, <1>7, <1>8, <1>9 DEF Next

-----------------------------------------------------------------------------
(* The Map, the names and the connections                                  *)

\* What a step that makes or finds an object does to the names
LEMMA CreateKeepsNames ==
    ASSUME TypeOK, MapIsCoherent, Served, NEW id \in Ids, NEW o \in Objs, GetOrCreate(id, o)
    PROVE  /\ MapIsCoherent'
           /\ \A d \in Conns : (ws[d].state \notin {"new", "closed"}) => name'[ws[d].obj] = ws[d].key
<1> USE Names
<1>1. /\ name'[o] = id /\ sessions'[id] = o
      /\ name[o] = id \/ name[o] = None \/ name[o] = Prewarm
      /\ \A p \in Objs \ {o} : name'[p] = name[p]
      /\ \A k \in Keys \ {id} : /\ sessions[k] = o => sessions'[k] = None
                                /\ sessions[k] # o => sessions'[k] = sessions[k]
  BY CreateEffect
<1>2. MapIsCoherent'
  BY <1>1 DEF MapIsCoherent
<1>3. \A d \in Conns : (ws[d].state \notin {"new", "closed"}) => name'[ws[d].obj] = ws[d].key
  BY <1>1 DEF Served
<1> QED
  BY <1>2, <1>3

\* Each id has one object, each connection that was let in has its own, and both
\* ends agree on who is attached.
LEMMA BooksStep == ASSUME Books, TimersAreNamed, [Next]_vars PROVE Books'
<1> USE Names
<1>0. TypeOK /\ MapIsCoherent /\ Served /\ AttachedBothWays /\ TypeOK'
  BY TypeStep DEF Books
<1>1. ASSUME Boot PROVE MapIsCoherent' /\ Served' /\ AttachedBothWays'
  <2>1. PICK o \in Objs :
          /\ name[o] = None /\ name'[o] = Prewarm /\ sessions'[Prewarm] = o
          /\ \A p \in Objs \ {o} : name'[p] = name[p]
          /\ \A k \in Keys \ {Prewarm} : sessions'[k] = sessions[k]
          /\ UNCHANGED <<clients, ws>>
    BY <1>0, <1>1, BootEffect
  <2>2. MapIsCoherent'
    BY <1>0, <2>1 DEF MapIsCoherent
  <2>3. Served'
    BY <1>0, <2>1 DEF Served
  <2>4. AttachedBothWays'
    BY <1>0, <2>1 DEF AttachedBothWays
  <2> QED
    BY <2>2, <2>3, <2>4
<1>2. ASSUME NEW c \in Conns, NEW id \in Ids, Connect(c, id)
      PROVE  MapIsCoherent' /\ Served' /\ AttachedBothWays'
  <2>1. PICK o \in Objs : /\ GetOrCreate(id, o) /\ Attach(c, o) /\ ws[c].state = "new"
                          /\ ws' = [ws EXCEPT ![c] = [state |-> "open", key |-> id, obj |-> o]]
    BY <1>2 DEF Connect
  <2>2. ws'[c] = [state |-> "open", key |-> id, obj |-> o] /\ \A d \in Conns \ {c} : ws'[d] = ws[d]
    BY <1>0, <2>1 DEF TypeOK
  <2>3. /\ MapIsCoherent' /\ name'[o] = id
        /\ \A d \in Conns : (ws[d].state \notin {"new", "closed"}) => name'[ws[d].obj] = ws[d].key
    BY <1>0, <2>1, CreateKeepsNames, CreateEffect
  <2>4. Served'
    BY <1>0, <2>2, <2>3 DEF Served
  <2>5. clients'[o] = clients[o] \cup {c} /\ \A p \in Objs \ {o} : clients'[p] = clients[p]
    BY <1>0, <2>1, AttachEffect
  <2>6. AttachedBothWays'
    BY <1>0, <2>1, <2>2, <2>5 DEF AttachedBothWays
  <2> QED
    BY <2>3, <2>4, <2>6
<1>3. ASSUME NEW id \in Ids, HttpCreate(id) PROVE MapIsCoherent' /\ Served' /\ AttachedBothWays'
  <2>1. PICK o \in Objs : GetOrCreate(id, o) /\ UNCHANGED <<clients, ws>>
    BY <1>3 DEF HttpCreate
  <2>2. /\ MapIsCoherent'
        /\ \A d \in Conns : (ws[d].state \notin {"new", "closed"}) => name'[ws[d].obj] = ws[d].key
    BY <1>0, <2>1, CreateKeepsNames
  <2>3. Served'
    BY <1>0, <2>1, <2>2 DEF Served
  <2>4. AttachedBothWays'
    BY <1>0, <2>1 DEF AttachedBothWays
  <2> QED
    BY <2>2, <2>3, <2>4
<1>4. ASSUME NEW S \in SUBSET Objs, Killing(S) PROVE MapIsCoherent' /\ Served' /\ AttachedBothWays'
  <2>1. MapIsCoherent'
    BY <1>0, <1>4 DEF MapIsCoherent, Killing
  <2>2. \A c \in Conns : /\ (\E o \in S : c \in clients[o]) => ws[c].state = "open" /\ ws'[c].state \in {"closing", "done"}
                         /\ (\A o \in S : c \notin clients[o]) =>
                                ws'[c].state = ws[c].state \/ (ws'[c].state = "done" /\ ws[c].state = "closing")
                         /\ ws'[c].key = ws[c].key /\ ws'[c].obj = ws[c].obj
    BY <1>0, <1>4 DEF Killing, AttachedBothWays
  <2>3. Served'
    BY <1>0, <1>4, <2>2 DEF Served, Killing
  <2>4. \A o \in Objs : clients'[o] = IF o \in S THEN {} ELSE clients[o]
    BY <1>4 DEF Killing, Kill
  <2>5. AttachedBothWays'
    <3>1. \A c \in Conns : \A o \in Objs : c \in clients'[o] <=> (ws'[c].state = "open" /\ ws'[c].obj = o)
      BY <1>0, <2>2, <2>4 DEF AttachedBothWays
    <3>2. \A c \in Conns : ws'[c].state = "open" => ws'[c].obj \in Objs
      BY <2>3 DEF Served
    <3> QED
      BY <3>1, <3>2 DEF AttachedBothWays
  <2> QED
    BY <2>1, <2>3, <2>5
<1>5. ASSUME NEW c \in Conns, Leaving(c) PROVE MapIsCoherent' /\ Served' /\ AttachedBothWays'
  <2>1. MapIsCoherent' /\ Served'
    BY <1>0, <1>5 DEF MapIsCoherent, Served, Leaving
  <2>2. \A o \in Objs : clients'[o] = (IF o = ws[c].obj THEN clients[o] \ {c} ELSE clients[o])
    BY <1>5 DEF Leaving
  <2>3. \A d \in Conns \ {c} : ws'[d] = ws[d] /\ \A o \in Objs : d \in clients'[o] <=> d \in clients[o]
    BY <1>5, <2>2 DEF Leaving
  <2>4. ws'[c].state # "open"
    <3>1. ws'[c].state = "errored" \/ ws'[c].state = "closed"
      BY <1>5 DEF Leaving
    <3> QED
      BY <3>1
  <2>5. ASSUME NEW o \in Objs PROVE c \notin clients'[o]
    <3>1. CASE o = ws[c].obj
      <4>1. clients'[o] = clients[o] \ {c}
        BY <2>2, <3>1
      <4> QED
        BY <4>1
    <3>2. CASE o # ws[c].obj
      <4>1. clients'[o] = clients[o]
        BY <2>2, <3>2
      <4>2. c \notin clients[o]
        BY <1>0, <3>2 DEF AttachedBothWays
      <4> QED
        BY <4>1, <4>2
    <3> QED
      BY <3>1, <3>2
  <2>6. AttachedBothWays'
    BY <1>0, <2>3, <2>4, <2>5 DEF AttachedBothWays
  <2> QED
    BY <2>1, <2>6
<1>6. ASSUME Resting PROVE MapIsCoherent' /\ Served' /\ AttachedBothWays'
  <2>1. Gone.state = "closed"
    BY DEF Gone
  <2>2. MapIsCoherent'
    BY <1>0, <1>6 DEF MapIsCoherent, Resting
  <2>3. Served'
    BY <1>0, <1>6, <2>1 DEF Served, Resting
  <2>4. AttachedBothWays'
    BY <1>0, <1>6, <2>1 DEF AttachedBothWays, Resting
  <2> QED
    BY <2>2, <2>3, <2>4
<1> QED
  BY <1>0, <1>1, <1>2, <1>3, <1>4, <1>5, <1>6, Kinds, LeavingEffect DEF Books

\* What was closed by the host stays out of the Map and without a PTY.
LEMMA BuriedStep == ASSUME Books, TimersAreNamed, Fresh, Buried, [Next]_vars PROVE Buried'
<1> USE Names
<1>0. TypeOK /\ MapIsCoherent /\ Served /\ AttachedBothWays
  BY DEF Books
<1>1. ASSUME Boot PROVE Buried'
  <2>1. PICK o \in Objs :
          /\ name[o] = None /\ sessions'[Prewarm] = o
          /\ \A p \in Objs \ {o} : pty'[p] = pty[p]
          /\ \A k \in Keys \ {Prewarm} : sessions'[k] = sessions[k]
          /\ UNCHANGED ws
    BY <1>0, <1>1, BootEffect
  <2>2. \A c \in Conns : ws[c].state = "closing" => ws[c].obj \in Objs \ {o}
    BY <1>0, <2>1 DEF Served
  <2> QED
    BY <2>1, <2>2 DEF Buried
\* (a step that finds or makes an object takes none that was buried)
<1>2. ASSUME NEW id \in Ids, NEW o \in Objs, GetOrCreate(id, o)
      PROVE  \A c \in Conns : (ws[c].state = "closing") =>
                /\ ws[c].obj # o /\ ws[c].obj \in Objs /\ \A k \in Keys : sessions'[k] # ws[c].obj
  <2>1. /\ sessions'[id] = o
        /\ \A k \in Keys \ {id} : /\ sessions[k] = o => sessions'[k] = None
                                  /\ sessions[k] # o => sessions'[k] = sessions[k]
        /\ (\E k \in Keys : sessions[k] = o) \/ name[o] = None
    BY <1>0, <1>2, CreateEffect
  <2> TAKE c \in Conns
  <2> HAVE ws[c].state = "closing"
  <2>2. ws[c].obj \in Objs /\ name[ws[c].obj] # None
    BY <1>0 DEF Served
  <2>3. ws[c].obj # o
    BY <2>1, <2>2 DEF Buried
  <2> QED
    BY <2>1, <2>2, <2>3 DEF Buried
<1>3. ASSUME NEW c \in Conns, NEW id \in Ids, Connect(c, id) PROVE Buried'
  <2>1. PICK o \in Objs : /\ GetOrCreate(id, o) /\ Attach(c, o)
                          /\ ws' = [ws EXCEPT ![c] = [state |-> "open", key |-> id, obj |-> o]]
    BY <1>3 DEF Connect
  <2>2. ws'[c].state = "open" /\ \A d \in Conns \ {c} : ws'[d] = ws[d]
    BY <1>0, <2>1 DEF TypeOK
  <2>3. \A p \in Objs \ {o} : pty'[p] = pty[p]
    BY <1>0, <2>1, AttachEffect
  <2>4. \A d \in Conns : (ws[d].state = "closing") =>
                /\ ws[d].obj # o /\ ws[d].obj \in Objs /\ \A k \in Keys : sessions'[k] # ws[d].obj
    BY <1>2, <2>1
  <2> QED
    BY <2>2, <2>3, <2>4 DEF Buried
<1>4. ASSUME NEW id \in Ids, HttpCreate(id) PROVE Buried'
  <2>1. PICK o \in Objs : GetOrCreate(id, o) /\ UNCHANGED <<pty, ws>>
    BY <1>4 DEF HttpCreate
  <2>2. \A d \in Conns : (ws[d].state = "closing") => \A k \in Keys : sessions'[k] # ws[d].obj
    BY <1>2, <2>1
  <2> QED
    BY <2>1, <2>2 DEF Buried
<1>5. ASSUME NEW S \in SUBSET Objs, Killing(S) PROVE Buried'
  <2> SUFFICES ASSUME NEW c \in Conns, ws'[c].state = "closing"
               PROVE  ~pty'[ws'[c].obj] /\ \A k \in Keys : sessions'[k] # ws'[c].obj
    BY DEF Buried
  <2>1. ws'[c].obj = ws[c].obj
    BY <1>5 DEF Killing
  <2>2. CASE \E o \in S : c \in clients[o]
    <3>1. ws[c].obj \in S
      BY <1>0, <2>2 DEF AttachedBothWays
    <3>2. ~pty'[ws[c].obj]
      BY <1>5, <3>1 DEF Killing, Kill
    <3>3. \A k \in Keys : sessions'[k] # ws[c].obj
      BY <1>5, <3>1 DEF Killing
    <3> QED
      BY <2>1, <3>2, <3>3
  <2>3. CASE \A o \in S : c \notin clients[o]
    <3>1. ws[c].state = "closing"
      BY <1>5, <2>3 DEF Killing
    <3>2. ws[c].obj \in Objs
      BY <1>0, <3>1 DEF Served
    <3>3. ~pty'[ws[c].obj]
      BY <1>5, <3>1, <3>2 DEF Killing, Kill, Buried
    <3>4. \A k \in Keys : sessions'[k] # ws[c].obj
      BY <1>5, <3>1, <3>2 DEF Killing, Buried
    <3> QED
      BY <2>1, <3>3, <3>4
  <2> QED
    BY <2>2, <2>3
<1>6. ASSUME NEW c \in Conns, Leaving(c) PROVE Buried'
  BY <1>6 DEF Buried, Leaving
<1>7. ASSUME Resting PROVE Buried'
  <2>1. \A c \in Conns : ws'[c].state = "closing" => ws'[c] = ws[c]
    BY <1>7 DEF Resting, Gone
  <2>2. \A c \in Conns : ws[c].state = "closing" => ws[c].obj \in Objs
    BY <1>0 DEF Served
  <2> QED
    BY <1>7, <2>1, <2>2 DEF Buried, Resting
<1> QED
  BY <1>0, <1>1, <1>3, <1>4, <1>5, <1>6, <1>7, Kinds, LeavingEffect

-----------------------------------------------------------------------------
(* Leases                                                                  *)

LEMMA FreshStep == ASSUME Books, TimersAreNamed, Fresh, [Next]_vars PROVE Fresh' /\ TimersAreNamed'
<1> USE Names
<1>0. TypeOK /\ MapIsCoherent /\ Served
  BY DEF Books
<1>1. ASSUME Boot PROVE Fresh' /\ TimersAreNamed'
  <2>1. PICK o \in Objs :
          /\ name[o] = None /\ name'[o] = Prewarm
          /\ \A p \in Objs \ {o} : name'[p] = name[p] /\ pty'[p] = pty[p]
          /\ UNCHANGED <<away, timers>>
    BY <1>0, <1>1, BootEffect
  <2> QED
    BY <2>1 DEF Fresh, TimersAreNamed
<1>2. ASSUME NEW c \in Conns, NEW id \in Ids, Connect(c, id) PROVE Fresh' /\ TimersAreNamed'
  <2>1. PICK o \in Objs : GetOrCreate(id, o) /\ Attach(c, o)
    BY <1>2 DEF Connect
  <2>2. name'[o] = id /\ \A p \in Objs \ {o} : name'[p] = name[p]
    BY <1>0, <2>1, CreateEffect
  <2>3. \A p \in Objs \ {o} : timers'[p] = timers[p] /\ away'[p] = away[p] /\ pty'[p] = pty[p]
    BY <1>0, <2>1, AttachEffect
  <2> QED
    BY <2>2, <2>3 DEF Fresh, TimersAreNamed
<1>3. ASSUME NEW id \in Ids, HttpCreate(id) PROVE Fresh' /\ TimersAreNamed'
  <2>1. PICK o \in Objs : GetOrCreate(id, o) /\ UNCHANGED <<pty, away, timers>>
    BY <1>3 DEF HttpCreate
  <2>2. name'[o] = id /\ \A p \in Objs \ {o} : name'[p] = name[p]
    BY <1>0, <2>1, CreateEffect
  <2> QED
    BY <2>1, <2>2 DEF Fresh, TimersAreNamed
<1>4. ASSUME NEW S \in SUBSET Objs, Killing(S) PROVE Fresh' /\ TimersAreNamed'
  <2>1. \A o \in Objs : (pty'[o] => pty[o]) /\ (away'[o] => away[o]) /\ timers'[o] \subseteq timers[o]
    BY <1>4 DEF Killing, Kill
  <2> QED
    BY <1>4, <2>1 DEF Killing, Fresh, TimersAreNamed
<1>5. ASSUME NEW c \in Conns, Leaving(c) PROVE Fresh' /\ TimersAreNamed'
  <2>1. ws[c].obj \in Objs /\ name[ws[c].obj] \in Ids
    BY <1>0, <1>5 DEF Leaving, Served
  <2> QED
    BY <1>5, <2>1 DEF Leaving, Fresh, TimersAreNamed
<1>6. ASSUME Resting PROVE Fresh' /\ TimersAreNamed'
  BY <1>6 DEF Resting, Fresh, TimersAreNamed
<1> QED
  BY <1>0, <1>1, <1>2, <1>3, <1>4, <1>5, <1>6, Kinds, LeavingEffect

LEMMA WarmStep == ASSUME Books, TimersAreNamed, NotYetWarm, [Next]_vars PROVE NotYetWarm'
<1> USE Names
<1>0. TypeOK /\ MapIsCoherent /\ Served
  BY DEF Books
<1>1. Boot => NotYetWarm'
  BY DEF Boot, NotYetWarm
<1>2. ASSUME NEW c \in Conns, NEW id \in Ids, Connect(c, id) PROVE NotYetWarm'
  BY <1>2 DEF Connect, NotYetWarm
<1>3. ASSUME NEW id \in Ids, HttpCreate(id) PROVE NotYetWarm'
  <2>1. PICK o \in Objs : GetOrCreate(id, o) /\ server' = server
    BY <1>3 DEF HttpCreate
  <2>2. sessions[Prewarm] # o => sessions'[Prewarm] = sessions[Prewarm]
    BY <1>0, <2>1, CreateEffect
  <2> QED
    BY <2>1, <2>2 DEF NotYetWarm
<1>4. ASSUME NEW S \in SUBSET Objs, Killing(S) PROVE NotYetWarm'
  BY <1>4 DEF Killing, NotYetWarm
<1>5. ASSUME NEW c \in Conns, Leaving(c) PROVE NotYetWarm'
  BY <1>5 DEF Leaving, NotYetWarm
<1>6. ASSUME Resting PROVE NotYetWarm'
  BY <1>6 DEF Resting, NotYetWarm
<1> QED
  BY <1>0, <1>1, <1>2, <1>3, <1>4, <1>5, <1>6, Kinds, LeavingEffect

\* Whoever leaves a PTY alone leaves it a timer, and nothing takes the timer away
\* but what ends the PTY or attaches to it.
LEMMA LeaseStep ==
    ASSUME Books, TimersAreNamed, Fresh, NotYetWarm, UnattendedIsLeased, [Next]_vars
    PROVE  UnattendedIsLeased'
<1> USE Names
<1>0. TypeOK /\ MapIsCoherent /\ Served /\ FirstTabs \subseteq Ids
  BY PtyAssumption DEF Books, PtyAssumption
<1>1. ASSUME Boot PROVE UnattendedIsLeased'
  <2>1. PICK o \in Objs :
          /\ name[o] = None /\ sessions'[Prewarm] = o /\ orphan'[o] /\ server = "booting"
          /\ \A p \in Objs \ {o} : name'[p] = name[p] /\ pty'[p] = pty[p] /\ orphan'[p] = orphan[p]
          /\ UNCHANGED <<clients, away, timers, handle>>
    BY <1>0, <1>1, BootEffect
  <2>2. ~away'[o]
    BY <2>1 DEF Fresh
  <2>3. \A p \in Objs : sessions[Prewarm] # p
    BY <2>1 DEF NotYetWarm
  <2> QED
    BY <2>1, <2>2, <2>3 DEF UnattendedIsLeased, Leased
<1>2. ASSUME NEW c \in Conns, NEW id \in Ids, Connect(c, id) PROVE UnattendedIsLeased'
  <2>1. PICK o \in Objs : GetOrCreate(id, o) /\ Attach(c, o)
    BY <1>2 DEF Connect
  <2>2. /\ \A p \in Objs \ {o} : name'[p] = name[p] /\ orphan'[p] = orphan[p]
        /\ sessions[Prewarm] # o => sessions'[Prewarm] = sessions[Prewarm]
    BY <1>0, <2>1, CreateEffect
  <2>3. /\ clients'[o] # {}
        /\ \A p \in Objs \ {o} : /\ clients'[p] = clients[p] /\ timers'[p] = timers[p]
                                 /\ handle'[p] = handle[p] /\ away'[p] = away[p] /\ pty'[p] = pty[p]
    BY <1>0, <2>1, AttachEffect
  <2> QED
    BY <2>2, <2>3 DEF UnattendedIsLeased, Leased
<1>3. ASSUME NEW id \in Ids, HttpCreate(id) PROVE UnattendedIsLeased'
  <2>1. PICK o \in Objs : GetOrCreate(id, o) /\ UNCHANGED <<pty, clients, away, timers, handle>>
    BY <1>3 DEF HttpCreate
  <2>2. /\ name'[o] = id
        /\ name[o] = id \/ name[o] = None \/ (name[o] = Prewarm /\ id \in FirstTabs)
        /\ \A p \in Objs \ {o} : name'[p] = name[p] /\ orphan'[p] = orphan[p]
        /\ sessions[Prewarm] # o => sessions'[Prewarm] = sessions[Prewarm]
    BY <1>0, <2>1, CreateEffect
  <2>3. \A p \in Objs \ {o} : (pty'[p] /\ clients'[p] = {}) =>
            IF away'[p] THEN handle'[p] \in timers'[p]
            ELSE name'[p] \in FirstTabs \/ (orphan'[p] /\ sessions'[Prewarm] = p)
    BY <2>1, <2>2 DEF UnattendedIsLeased, Leased
  <2>4. (name[o] \in FirstTabs \/ sessions[Prewarm] = o) => id \in FirstTabs
    BY <1>0, <2>2 DEF MapIsCoherent
  <2>5. (pty'[o] /\ clients'[o] = {}) =>
            IF away'[o] THEN handle'[o] \in timers'[o] ELSE name'[o] \in FirstTabs
    BY <2>1, <2>2, <2>4 DEF UnattendedIsLeased, Leased
  <2> QED
    BY <2>3, <2>5 DEF UnattendedIsLeased, Leased
<1>4. ASSUME NEW S \in SUBSET Objs, Killing(S) PROVE UnattendedIsLeased'
  <2> SUFFICES ASSUME NEW o \in Objs, pty'[o], clients'[o] = {}
               PROVE  IF away'[o] THEN handle'[o] \in timers'[o]
                      ELSE name'[o] \in FirstTabs \/ (orphan'[o] /\ sessions'[Prewarm] = o)
    BY DEF UnattendedIsLeased, Leased
  <2>1. o \notin S /\ pty[o]
    BY <1>4 DEF Killing, Kill
  <2>2. clients'[o] = clients[o] /\ handle'[o] = handle[o] /\ (away'[o] <=> away[o])
    BY <1>4, <2>1 DEF Killing, Kill
  <2>3. timers'[o] = timers[o] /\ name'[o] = name[o]
        /\ (orphan'[o] = orphan[o] \/ sessions[Prewarm] # o)
        /\ (sessions[Prewarm] = o => sessions'[Prewarm] = o)
    BY <1>4, <2>1 DEF Killing
  <2> QED
    BY <2>1, <2>2, <2>3 DEF UnattendedIsLeased, Leased
<1>5. ASSUME NEW c \in Conns, Leaving(c) PROVE UnattendedIsLeased'
  <2>1. \A o \in Objs \ {ws[c].obj} :
          /\ clients'[o] = clients[o] /\ away'[o] = away[o] /\ timers'[o] = timers[o]
          /\ handle'[o] = handle[o]
    BY <1>5 DEF Leaving
  <2>2. UNCHANGED <<sessions, name, pty, orphan>>
    BY <1>5 DEF Leaving
  <2>3. \A o \in Objs : (o = ws[c].obj /\ pty[o] /\ clients'[o] = {}) => (away'[o] /\ handle'[o] \in timers'[o])
    BY <1>5 DEF Leaving
  <2> QED
    BY <2>1, <2>2, <2>3 DEF UnattendedIsLeased, Leased
<1>6. ASSUME Resting PROVE UnattendedIsLeased'
  <2>1. \A o \in Objs : pty[o] /\ sessions[Prewarm] = o => sessions'[Prewarm] = o
    BY <1>6 DEF Resting
  <2> QED
    BY <1>6, <2>1 DEF Resting, UnattendedIsLeased, Leased
<1> QED
  BY <1>0, <1>1, <1>2, <1>3, <1>4, <1>5, <1>6, Kinds, LeavingEffect

-----------------------------------------------------------------------------
(* The owner of the size                                                   *)

LEMMA OwnerStep == ASSUME Books, TimersAreNamed, OwnerIsAttached, [Next]_vars PROVE OwnerIsAttached'
<1> USE Names
<1>0. TypeOK /\ MapIsCoherent /\ Served
  BY DEF Books
<1>1. ASSUME Boot PROVE OwnerIsAttached'
  BY <1>0, <1>1, BootEffect DEF OwnerIsAttached
<1>2. ASSUME NEW c \in Conns, NEW id \in Ids, Connect(c, id) PROVE OwnerIsAttached'
  <2>1. PICK o \in Objs : Attach(c, o)
    BY <1>2 DEF Connect
  <2>2. /\ clients'[o] = clients[o] \cup {c}
        /\ authority'[o] = (IF authority[o] = None THEN c ELSE authority[o])
        /\ \A p \in Objs \ {o} : clients'[p] = clients[p] /\ authority'[p] = authority[p]
    BY <1>0, <2>1, AttachEffect
  <2> QED
    BY <2>2 DEF OwnerIsAttached
<1>3. ASSUME NEW id \in Ids, HttpCreate(id) PROVE OwnerIsAttached'
  BY <1>3 DEF HttpCreate, OwnerIsAttached, owner
<1>4. ASSUME NEW S \in SUBSET Objs, Killing(S) PROVE OwnerIsAttached'
  BY <1>4 DEF Killing, Kill, OwnerIsAttached
<1>5. ASSUME NEW c \in Conns, Error(c) \/ Close(c) PROVE OwnerIsAttached'
  <2>1. ws[c].obj \in Objs
    BY <1>0, <1>5 DEF Error, Close, Receives, Served
  <2>2. PICK event \in {"error", "close"} : Detach(c, ws[c].obj, event)
    BY <1>5 DEF Error, Close
  <2> DEFINE o == ws[c].obj
             left == clients[o] \ {c}
  <2>3. /\ o \in Objs /\ clients' = [clients EXCEPT ![o] = left]
        /\ \/ authority[o] # c /\ UNCHANGED authority
           \/ authority[o] = c /\ left = {} /\ authority' = [authority EXCEPT ![o] = None]
           \/ authority[o] = c /\ \E d \in left : authority' = [authority EXCEPT ![o] = d]
    BY <2>1, <2>2 DEF Detach
  <2>4. clients'[o] = left /\ \A p \in Objs \ {o} : clients'[p] = clients[p]
    BY <1>0, <2>3 DEF TypeOK
  <2>5. \A p \in Objs \ {o} : authority'[p] = authority[p]
    BY <1>0, <2>3 DEF TypeOK
  <2>6. IF left = {} THEN authority'[o] = None ELSE authority'[o] \in left
    <3>1. CASE authority[o] # c /\ UNCHANGED authority
      BY <2>3, <3>1 DEF OwnerIsAttached
    <3>2. CASE left = {} /\ authority' = [authority EXCEPT ![o] = None]
      BY <1>0, <2>3, <3>2 DEF TypeOK
    <3>3. CASE \E d \in left : authority' = [authority EXCEPT ![o] = d]
      BY <1>0, <2>3, <3>3 DEF TypeOK
    <3> QED
      BY <2>3, <3>1, <3>2, <3>3
  <2> QED
    BY <2>4, <2>5, <2>6 DEF OwnerIsAttached
<1>6. ASSUME Resting, UNCHANGED authority PROVE OwnerIsAttached'
  BY <1>6 DEF Resting, OwnerIsAttached
<1>7. ASSUME Resting, NEW c \in Conns, Resize(c) \/ Focus(c) PROVE OwnerIsAttached'
  <2>1. ws[c].obj \in Objs /\ clients' = clients
    BY <1>0, <1>7 DEF Resize, Focus, Receives, Served
  <2>2. CASE Focus(c)
    BY <1>0, <2>1, <2>2 DEF Focus, OwnerIsAttached, TypeOK
  <2>3. CASE Resize(c)
    BY <1>0, <2>1, <2>3 DEF Resize, OwnerIsAttached, TypeOK
  <2> QED
    BY <1>7, <2>2, <2>3
<1> QED
  BY <1>0, <1>1, <1>2, <1>3, <1>4, <1>5, <1>6, <1>7, Kinds

\* A resize that is applied comes from the owner, who is attached: a connection
\* that is not attached any more has an object without a PTY.
LEMMA ResizeStep ==
    ASSUME Books, Buried, OwnerIsAttached, NEW c \in Conns, Resize(c), NEW o \in Objs,
           sizedBy'[o] \notin {sizedBy[o], None}
    PROVE  sizedBy'[o] \in clients[o] /\ authority'[o] = sizedBy'[o]
<1> USE Names
<1>0. TypeOK /\ Served /\ AttachedBothWays
  BY DEF Books
<1>1. ws[c].obj \in Objs /\ ws[c].state \in {"open", "closing"} /\ pty[ws[c].obj]
  BY <1>0 DEF Resize, Receives, Served
<1>2. o = ws[c].obj /\ sizedBy'[o] = c
  BY <1>0, <1>1 DEF Resize, TypeOK
<1>3. c \in clients[o]
  BY <1>0, <1>1, <1>2 DEF Buried, AttachedBothWays
<1>4. authority[o] # None
  <2>1. authority[o] \in clients[o] /\ clients[o] \subseteq Conns
    BY <1>0, <1>1, <1>2, <1>3 DEF OwnerIsAttached, TypeOK
  <2> QED
    BY <2>1
<1>5. authority[o] = c /\ authority'[o] = c
  BY <1>0, <1>1, <1>2, <1>4 DEF Resize, TypeOK
<1> QED
  BY <1>2, <1>3, <1>5

\* Nothing else sets the size to somebody's.
LEMMA SizeStep ==
    ASSUME Books, Buried, OwnerIsAttached, [Next]_vars, NEW o \in Objs,
           sizedBy'[o] \notin {sizedBy[o], None}
    PROVE  sizedBy'[o] \in clients[o] /\ authority'[o] = sizedBy'[o]
<1>1. ASSUME NEW S, Kill(S) PROVE FALSE
  BY <1>1 DEF Kill
<1>2. ASSUME UNCHANGED sizedBy PROVE FALSE
  BY <1>2
<1>3. ASSUME NEW p \in Objs, PtyExit(p) PROVE FALSE
  BY <1>3 DEF PtyExit, Books, TypeOK
<1>4. PICK c \in Conns : Resize(c)
  BY <1>1, <1>2, <1>3
  DEF Next, Boot, Shutdown, Cleanup, Connect, Attach, TurnAway, Focus, KillMessage, Error, Close,
      Detach, OrphanFires, Delete, KeepaliveFires, HttpCreate, HttpDelete, vars, owner
<1> QED
  BY <1>4, ResizeStep

\* The session under the pre-warm id has no clients: they belong to sessions with a tab's id.
LEMMA NobodySeesThePrewarmed ==
    ASSUME Books, NEW o \in Objs, name[o] = Prewarm
    PROVE  clients[o] = {}
<1>1. ASSUME NEW c \in clients[o] PROVE FALSE
  <2>1. c \in Conns
    BY <1>1 DEF Books, TypeOK
  <2>2. ws[c].state = "open" /\ ws[c].obj = o
    BY <1>1, <2>1 DEF Books, AttachedBothWays
  <2>3. name[o] \in Ids
    BY <2>1, <2>2 DEF Books, Served
  <2> QED
    BY <2>3, Names
<1> QED
  BY <1>1

\* What Kill leaves of the PTYs.
LEMMA KillEnds ==
    ASSUME TypeOK, NEW S, Kill(S), NEW o \in Objs, pty[o], ~pty'[o]
    PROVE  o \in S
BY DEF Kill, TypeOK

\* The PTY of an attached session ends only by its exit, the host's end, or a kill or
\* DELETE of that session.
LEMMA EndStep ==
    ASSUME Books, [Next]_vars, NEW o \in Objs, pty[o], clients[o] # {}, ~pty'[o]
    PROVE  \/ PtyExit(o) \/ Shutdown
           \/ \E c \in Conns : ws[c].obj = o /\ KillMessage(c)
           \/ \E id \in Ids : name[o] = id /\ HttpDelete(id)
<1> USE Names
<1>0. TypeOK /\ MapIsCoherent
  BY DEF Books
<1>1. ASSUME NEW c \in Conns, KillMessage(c) PROVE ws[c].obj = o
  <2>1. Kill({ws[c].obj})
    BY <1>1 DEF KillMessage
  <2> QED
    BY <1>0, <2>1, KillEnds
<1>2. ASSUME NEW id \in Keys, Delete(id) PROVE name[o] = id
  <2>1. Kill({sessions[id]})
    BY <1>2 DEF Delete
  <2>2. sessions[id] = o
    BY <1>0, <2>1, KillEnds
  <2> QED
    BY <1>0, <2>2 DEF MapIsCoherent
<1>3. ASSUME NEW p \in Objs, OrphanFires(p) PROVE FALSE
  <2>1. CASE Delete(Prewarm)
    BY <1>2, <2>1, NobodySeesThePrewarmed
  <2>2. CASE UNCHANGED pty
    BY <2>2
  <2> QED
    BY <1>3, <2>1, <2>2 DEF OrphanFires
<1>4. ASSUME NEW p \in Objs, NEW t \in Timers, KeepaliveFires(p, t) PROVE FALSE
  <2>1. CASE clients[p] = {} /\ Kill({p})
    BY <1>0, <2>1, KillEnds
  <2>2. CASE UNCHANGED pty
    BY <2>2
  <2> QED
    BY <1>4, <2>1, <2>2 DEF KeepaliveFires
<1>5. ASSUME NEW p \in Objs, PtyExit(p) PROVE p = o
  BY <1>0, <1>5 DEF PtyExit, TypeOK
<1>6. ASSUME NEW c \in Conns, NEW id \in Ids, Connect(c, id) PROVE FALSE
  BY <1>0, <1>6 DEF Connect, Attach, TypeOK
<1>7. Boot => FALSE
  BY <1>0 DEF Boot, TypeOK
<1>8. ~UNCHANGED pty
  OBVIOUS
<1>9. /\ ~Cleanup /\ ~UNCHANGED vars
      /\ \A c \in Conns : /\ ~Resize(c) /\ ~Focus(c) /\ ~Error(c) /\ ~Close(c)
                          /\ \A id \in Ids : ~TurnAway(c, id)
      /\ \A id \in Ids : ~HttpCreate(id)
  BY <1>8 DEF Cleanup, vars, Resize, Focus, Error, Close, Detach, TurnAway, HttpCreate
<1>10. ASSUME NEW id \in Ids, HttpDelete(id) PROVE name[o] = id
  BY <1>2, <1>10 DEF HttpDelete
<1> QED
  BY <1>1, <1>3, <1>4, <1>5, <1>6, <1>7, <1>9, <1>10 DEF Next

-----------------------------------------------------------------------------
(* The theorems                                                            *)

LEMMA Starts == Init => IInv
<1> SUFFICES ASSUME Init PROVE IInv
  OBVIOUS
<1> USE Names
<1>1. \A c \in Conns : ws[c] = Unopened /\ Unopened.state = "new"
  BY DEF Init, Unopened
<1>2. TypeOK
  <2>1. Unopened \in WsType
    BY DEF Unopened, WsType, States
  <2>2. ws \in [Conns -> WsType]
    BY <2>1 DEF Init
  <2>3. /\ sessions \in [Keys -> Objs \cup {None}] /\ name \in [Objs -> Keys \cup {None}]
        /\ clients \in [Objs -> SUBSET Conns] /\ timers \in [Objs -> SUBSET Timers]
    BY DEF Init
  <2>4. /\ pty \in [Objs -> BOOLEAN] /\ away \in [Objs -> BOOLEAN] /\ orphan \in [Objs -> BOOLEAN]
    BY DEF Init
  <2>5. /\ authority \in [Objs -> Conns \cup {None}] /\ sizedBy \in [Objs -> Conns \cup {None}]
        /\ handle \in [Objs -> Timers \cup {None}] /\ server = "booting"
    BY DEF Init
  <2> QED
    BY <2>2, <2>3, <2>4, <2>5 DEF TypeOK, WsType
<1>3. MapIsCoherent /\ Served /\ Buried /\ NotYetWarm
  BY <1>1 DEF Init, MapIsCoherent, Served, Buried, NotYetWarm
<1>4. AttachedBothWays
  BY <1>1 DEF Init, AttachedBothWays
<1>5. Fresh /\ TimersAreNamed /\ OwnerIsAttached /\ UnattendedIsLeased
  BY DEF Init, Fresh, TimersAreNamed, OwnerIsAttached, UnattendedIsLeased
<1> QED
  BY <1>2, <1>3, <1>4, <1>5 DEF IInv, Books

LEMMA Inductive == IInv /\ [Next]_vars => IInv'
BY BooksStep, BuriedStep, FreshStep, WarmStep, LeaseStep, OwnerStep DEF IInv

LEMMA Invariant == Spec => []IInv
BY Starts, Inductive, PTL DEF Spec

\* Type correctness of the host for any ids, connections, objects and cap
THEOREM HostTypeCorrect == Spec => []TypeOK
<1>1. IInv => TypeOK
  BY DEF IInv, Books
<1> QED
  BY <1>1, Invariant, PTL

\* Whatever connects, leaves, exits, is adopted or killed: a PTY that nobody looks at
\* has a timer that will end it.
THEOREM NoPtyIsForgotten == Spec => []UnattendedIsLeased
<1>1. IInv => UnattendedIsLeased
  BY DEF IInv
<1> QED
  BY <1>1, Invariant, PTL

\* The sessions and the connections agree on who is attached to what.
THEOREM AttachmentAgrees == Spec => []AttachedBothWays
<1>1. IInv => AttachedBothWays
  BY DEF IInv, Books
<1> QED
  BY <1>1, Invariant, PTL

\* A terminal that somebody looks at has one owner of its size, and one of them.
THEOREM OneOwner == Spec => []OwnerIsAttached
<1>1. IInv => OwnerIsAttached
  BY DEF IInv
<1> QED
  BY <1>1, Invariant, PTL

\* Only the attached owner ever sets the size, late messages of connections that
\* the host has closed included.
THEOREM OnlyTheOwnerResizes == Spec => SizedByOwner
<1>1. IInv /\ [Next]_vars =>
        [\A o \in Objs : (sizedBy'[o] \notin {sizedBy[o], None}) =>
            (sizedBy'[o] \in clients[o] /\ authority'[o] = sizedBy'[o])]_vars
  BY SizeStep DEF IInv
<1> QED
  BY <1>1, Invariant, PTL DEF Spec, SizedByOwner

\* No timer and no clean-up ends a terminal that somebody looks at, timers of an
\* earlier absence that a reconnect did not clear included.
THEOREM AttendedPtyIsTheUsers == Spec => OnlyItsUsersEndIt
<1>1. IInv /\ [Next]_vars =>
        [\A o \in Objs : (pty[o] /\ clients[o] # {} /\ ~pty'[o]) =>
            \/ PtyExit(o) \/ Shutdown
            \/ \E c \in Conns : ws[c].obj = o /\ KillMessage(c)
            \/ \E id \in Ids : name[o] = id /\ HttpDelete(id)]_vars
  BY EndStep DEF IInv
<1> QED
  BY <1>1, Invariant, PTL DEF Spec, OnlyItsUsersEndIt

=============================================================================
