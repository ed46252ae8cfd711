-------------------------- MODULE SessionLifecycle --------------------------
(***************************************************************************)
(* One Codeflare session: its KV record, its container process, the       *)
(* Durable Object (DO) that owns the container, and the Worker requests    *)
(* that create, start, stop, touch and delete the session.                 *)
(*                                                                         *)
(* A handler is cut where the code awaits something outside the DO (a KV   *)
(* read or write, a fetch into the container, another DO): between two     *)
(* such points other handlers run.  DO storage operations do not cut a     *)
(* handler, because the platform holds back other events while they run.   *)
(***************************************************************************)
EXTENDS Naturals

CONSTANTS
    Requests,   \* request identities, each used for one HTTP request
    Ops,        \* the requests a user may send
    Events,     \* the environment events that may happen
    MaxEvents,  \* bound: how many environment events happen
    MaxRuns     \* bound: how many times the container is started

AllOps == {"start", "stop", "delete", "touch", "destroy"}

\* "crash" is an exit the container monitor reports, "vanish" one it never
\* reports, "blip" a not-running reading of a live container (or a start that
\* fails), "evict" a reset of the DO that drops its memory and its handlers.
AllEvents == {"crash", "vanish", "blip", "evict", "idle", "quota", "bootfail"}

ASSUME OpsAssumption == Ops \subseteq AllOps
ASSUME EventsAssumption == Events \subseteq AllEvents
\* The DO's handlers that write the record; requests have other names.
Handlers == {"onStart", "onStop", "tick"}

ASSUME RequestsAssumption == Requests \cap Handlers = {}
ASSUME BoundsAssumption == MaxEvents \in Nat /\ MaxRuns \in Nat

VARIABLES
    kv,          \* status of the session's KV record
    up,          \* the container process exists
    run,         \* how many times it was started (history)
    term,        \* SIGTERM was sent to the current process
    notice,      \* an exit the SDK has still to report to the DO
    ids,         \* DO: _sessionId and bucketName are stored
    shutdownRequested,   \* DO storage: SHUTDOWN_REQUESTED_KEY is set
    notRunningSince,     \* DO storage: NOT_RUNNING_SINCE_KEY, and its age
    alarms,      \* DO storage: pending 'collectMetrics' schedule rows
    held,        \* DO storage: the row of the tick in flight is still there
    onStart,     \* DO: the onStart handler in flight
    onStop,      \* DO: the onStop handler in flight
    tick,        \* DO: the collectMetrics handler in flight
    req,         \* Worker: the requests, with the DO calls they wait for
    events,      \* environment events left
    streak,      \* history: not-running readings seen in a row
    calm         \* history: "asked" if the last request is a stop or delete that
                 \* came alone, "begun" once its destroy() has begun with no
                 \* record write in flight, "no" otherwise

rows    == <<alarms, held>>
storage == <<ids, shutdownRequested, notRunningSince, rows>>
process == <<up, run, term, notice>>
hooks   == <<onStart, onStop>>
vars == <<kv, process, storage, hooks, tick, req, events, streak, calm>>

-----------------------------------------------------------------------------
(* Values.                                                                 *)

Record == {"new", "running", "stopped"}      \* "new": created, no status yet
KvStatus == Record \cup {"absent", "deleted"}
Window == {"none", "open", "past"}           \* unset, < 90 s old, >= 90 s old
MaxAlarms == 2

Exists == kv \in Record

Idle == [pc |-> "idle", snap |-> "absent"]
StartPcs == {"idle", "due", "put1", "get2", "put2", "arm"}
StopPcs == {"idle", "put"}
TickPcs == {"idle", "activity", "health", "read", "write", "ping", "foot",
            "confirm", "idlePut", "drain"}
\* Where a request is; Destroying is inside the DO's destroy().  A start keeps
\* in need that the stored configuration differs, in live that the container ran.
ReqPcs == {"ready", "done", "name", "configure", "state", "reconfigure", "put",
           "boot", "ports", "rollbackGet", "rollbackPut", "mark", "remove",
           "touch", "destroy", "drain", "kill", "super"}
Destroying == {"destroy", "drain", "kill", "super"}
NoOp == "none"
Fresh == [op |-> NoOp, pc |-> "ready", snap |-> "absent", need |-> FALSE,
          live |-> FALSE]

ProcessTypeOK ==
    /\ kv \in KvStatus
    /\ up \in BOOLEAN /\ run \in Nat /\ term \in BOOLEAN
    /\ notice \in {"none", "stop", "error"}

StorageTypeOK ==
    /\ ids \in BOOLEAN /\ shutdownRequested \in BOOLEAN
    /\ notRunningSince \in Window /\ alarms \in 0..MaxAlarms /\ held \in BOOLEAN

HandlerTypeOK ==
    /\ onStart \in [pc : StartPcs, snap : KvStatus]
    /\ onStop \in StopPcs
    /\ tick \in [pc : TickPcs, snap : KvStatus]

RequestType == [op : Ops \cup {NoOp}, pc : ReqPcs, snap : KvStatus,
                need : BOOLEAN, live : BOOLEAN]

HistoryTypeOK ==
    /\ events \in Nat
    /\ streak \in [ever : 0..2, thisRun : 0..2]
    /\ calm \in {"no", "asked", "begun"}

TypeOK ==
    /\ ProcessTypeOK /\ StorageTypeOK /\ HandlerTypeOK
    /\ req \in [Requests -> RequestType]
    /\ HistoryTypeOK

Init ==
    /\ kv = "absent"
    /\ up = FALSE /\ run = 0 /\ term = FALSE /\ notice = "none"
    /\ ids = FALSE /\ shutdownRequested = FALSE
    /\ notRunningSince = "none" /\ alarms = 0 /\ held = FALSE
    /\ onStart = Idle /\ onStop = "idle" /\ tick = Idle
    /\ req = [r \in Requests |-> Fresh]
    /\ events = MaxEvents
    /\ streak = [ever |-> 0, thisRun |-> 0]
    /\ calm = "no"

-----------------------------------------------------------------------------
(* Shared steps.                                                           *)

Spend(e) == e \in Events /\ events > 0 /\ events' = events - 1

\* ctx.container.running as a handler reads it: TRUE only for a live process,
\* FALSE for a dead one and, transiently, for a live one.
SeesUp == up /\ events' = events
SeesDown == IF up THEN Spend("blip") ELSE events' = events

\* schedule(60, 'collectMetrics') inserts one more row; deleteSchedules drops
\* them all, the one being handled included.
OneMore == IF alarms < MaxAlarms THEN alarms + 1 ELSE alarms
Arm == alarms' = OneMore /\ UNCHANGED held
DropRowsThenArm(n) == alarms' = n /\ held' = FALSE

\* The alarm hands a row to collectMetrics; the row goes when that returns.
TakeRow == alarms' = alarms - 1 /\ held' = TRUE

\* updateKvStatus up to its KV read: the identifiers come from DO storage and
\* the record must exist, otherwise nothing is written.
MayUpdateKv == ids /\ Exists

\* The DO handlers that found the identifiers and may still write the record.
Writers == {h \in {"onStart", "onStop", "tick"} :
               \/ h = "onStart" /\ onStart.pc \in {"put1", "put2"}
               \/ h = "onStop" /\ onStop = "put"
               \/ h = "tick" /\ tick.pc \in {"read", "write", "confirm", "idlePut"}}

Plus1(n) == IF n < 2 THEN n + 1 ELSE n
SawDown == streak' = [ever |-> Plus1(streak.ever), thisRun |-> Plus1(streak.thisRun)]

\* The process ends; the SDK will report it as how (or never).
Exit(how) == up' = FALSE /\ term' = FALSE /\ notice' = how /\ UNCHANGED run

(***************************************************************************)
(* DO hooks.                                                               *)
(***************************************************************************)

\* onStart: clear the marker, then two updateKvStatus calls, then re-arm.
\* Each call reads the record and writes the whole record back.
OnStartMark ==
    /\ onStart.pc = "due"
    /\ shutdownRequested' = FALSE
    /\ onStart' = [Idle EXCEPT !.pc = IF MayUpdateKv THEN "put1" ELSE "get2"]
    /\ UNCHANGED <<kv, process, ids, notRunningSince, rows, onStop, tick, req, events, streak, calm>>

OnStartRunning ==
    /\ onStart.pc = "put1"
    /\ kv' = "running"
    /\ onStart' = [onStart EXCEPT !.pc = "get2"]
    /\ UNCHANGED <<process, storage, onStop, tick, req, events, streak, calm>>

OnStartRead ==
    /\ onStart.pc = "get2"
    /\ onStart' = IF MayUpdateKv THEN [pc |-> "put2", snap |-> kv]
                                 ELSE [Idle EXCEPT !.pc = "arm"]
    /\ UNCHANGED <<kv, process, storage, onStop, tick, req, events, streak, calm>>

OnStartActive ==
    /\ onStart.pc = "put2"
    /\ kv' = onStart.snap
    /\ onStart' = [Idle EXCEPT !.pc = "arm"]
    /\ UNCHANGED <<process, storage, onStop, tick, req, events, streak, calm>>

OnStartArm ==
    /\ onStart.pc = "arm"
    /\ DropRowsThenArm(1)
    /\ onStart' = Idle
    /\ UNCHANGED <<kv, process, ids, shutdownRequested, notRunningSince, onStop, tick, req, events, streak, calm>>

\* onStop: drop the schedule rows, then updateKvStatus('stopped').
OnStopBegin ==
    /\ notice = "stop" /\ onStop = "idle"
    /\ notice' = "none"
    /\ DropRowsThenArm(0)
    /\ onStop' = IF MayUpdateKv THEN "put" ELSE "idle"
    /\ UNCHANGED <<kv, up, run, term, ids, shutdownRequested, notRunningSince, onStart, tick, req, events, streak, calm>>

OnStopWrite ==
    /\ onStop = "put"
    /\ kv' = "stopped"
    /\ onStop' = "idle"
    /\ UNCHANGED <<process, storage, onStart, tick, req, events, streak, calm>>

\* openNotRunningConfirmation: the marker is set once per streak.
OpenWindow == notRunningSince' = IF notRunningSince = "none" THEN "open" ELSE notRunningSince

\* (mutant: the window is opened but no tick is armed to close it)
OnErrorNoTick ==
    /\ notice = "error" \/ up
    /\ SeesDown
    /\ OpenWindow /\ SawDown
    /\ DropRowsThenArm(0)
    /\ notice' = IF notice = "error" THEN "none" ELSE notice
    /\ UNCHANGED <<kv, up, run, term, ids, shutdownRequested, hooks, tick, req, calm>>

\* onError: on a not-running reading open the window and re-arm one tick; on a
\* running reading do nothing.  It is also called for errors the container
\* survives, which only matters when the reading is the transient FALSE.
OnError ==
    /\ notice = "error" \/ up
    /\ SeesDown
    /\ OpenWindow /\ SawDown
    /\ DropRowsThenArm(1)
    /\ notice' = IF notice = "error" THEN "none" ELSE notice
    /\ UNCHANGED <<kv, up, run, term, ids, shutdownRequested, hooks, tick, req, calm>>

OnErrorAlive ==
    /\ notice = "error" /\ SeesUp
    /\ notice' = "none"
    /\ UNCHANGED <<kv, up, run, term, storage, hooks, tick, req, streak, calm>>

-----------------------------------------------------------------------------
(***************************************************************************)
(* collectMetrics, once per alarm.                                         *)
(***************************************************************************)

Fire == alarms > 0 /\ tick.pc = "idle"

\* (mutant: the loop ends inside the window)
TickUnconfirmedNoRearm ==
    /\ Fire /\ notRunningSince # "past"
    /\ SeesDown /\ SawDown
    /\ OpenWindow /\ TakeRow
    /\ UNCHANGED <<tick, kv, process, ids, shutdownRequested, hooks, req, calm>>

\* Not running, window not over: open it or leave it, and re-arm.
TickUnconfirmed ==
    /\ Fire /\ notRunningSince # "past"
    /\ SeesDown /\ SawDown
    /\ OpenWindow
    /\ UNCHANGED <<rows, tick, kv, process, ids, shutdownRequested, hooks, req, calm>>

\* Not running past the window: updateKvStatus('stopped'), no re-arm.
TickConfirm ==
    /\ Fire /\ notRunningSince = "past"
    /\ SeesDown /\ SawDown
    /\ TakeRow
    /\ notRunningSince' = "none"
    /\ tick' = IF MayUpdateKv THEN [Idle EXCEPT !.pc = "confirm"] ELSE Idle
    /\ UNCHANGED <<kv, process, ids, shutdownRequested, hooks, req, calm>>

\* (mutant: a running reading does not close the window)
TickRunningKeepsWindow ==
    /\ Fire /\ SeesUp
    /\ TakeRow
    /\ tick' = [Idle EXCEPT !.pc = "activity"]
    /\ streak' = [ever |-> 0, thisRun |-> 0]
    /\ UNCHANGED <<notRunningSince, kv, process, ids, shutdownRequested, hooks, req, calm>>

TickRunning ==
    /\ Fire /\ SeesUp
    /\ TakeRow
    /\ notRunningSince' = "none"
    /\ tick' = [Idle EXCEPT !.pc = "activity"]
    /\ streak' = [ever |-> 0, thisRun |-> 0]
    /\ UNCHANGED <<kv, process, ids, shutdownRequested, hooks, req, calm>>

\* The write of updateKvStatus('stopped'), on the confirm and idle-stop paths.
TickStopped ==
    /\ tick.pc \in {"confirm", "idlePut"}
    /\ kv' = "stopped"
    /\ tick' = IF tick.pc = "confirm" THEN Idle ELSE [Idle EXCEPT !.pc = "drain"]
    /\ UNCHANGED <<process, storage, hooks, req, events, streak, calm>>

\* /activity says the user has been idle too long: mark stopped, drain, stop.
TickIdle ==
    /\ tick.pc = "activity" /\ up /\ Spend("idle")
    /\ tick' = [Idle EXCEPT !.pc = IF MayUpdateKv THEN "idlePut" ELSE "drain"]
    /\ UNCHANGED <<kv, process, storage, hooks, req, streak, calm>>

TickNotIdle ==
    /\ tick.pc = "activity"
    /\ tick' = [Idle EXCEPT !.pc = "health"]
    /\ UNCHANGED <<kv, process, storage, hooks, req, events, streak, calm>>

\* /health failed, or a transient not-running reading after it: no KV write.
TickNoHealth ==
    /\ tick.pc = "health"
    /\ SeesDown
    /\ tick' = [Idle EXCEPT !.pc = "ping"]
    /\ UNCHANGED <<kv, process, storage, hooks, req, streak, calm>>

\* The identifiers are gone: a zombie DO, let the loop die.
TickZombie ==
    /\ tick.pc = "health" /\ up /\ ~ids
    /\ tick' = Idle
    /\ UNCHANGED <<kv, process, storage, hooks, req, events, streak, calm>>

TickHealth ==
    /\ tick.pc = "health" /\ ids /\ SeesUp
    /\ tick' = [Idle EXCEPT !.pc = "read"]
    /\ UNCHANGED <<kv, process, storage, hooks, req, streak, calm>>

\* (mutant: every stopped record is taken for a deliberate stop)
TickReadNoHeal ==
    /\ tick.pc = "read"
    /\ tick' = IF ~Exists \/ kv = "stopped"
               THEN [Idle EXCEPT !.pc = "ping"]
               ELSE [pc |-> "write", snap |-> kv]
    /\ UNCHANGED <<kv, process, storage, hooks, req, events, streak, calm>>

\* The record is read.  'stopped' on a live container is healed to 'running'
\* unless the shutdown marker is set; otherwise the status is written back.
TickRead ==
    /\ tick.pc = "read"
    /\ tick' = IF ~Exists \/ (kv = "stopped" /\ shutdownRequested)
               THEN [Idle EXCEPT !.pc = "ping"]
               ELSE [pc |-> "write", snap |-> IF kv = "stopped" THEN "running" ELSE kv]
    /\ UNCHANGED <<kv, process, storage, hooks, req, events, streak, calm>>

TickWrite ==
    /\ tick.pc = "write"
    /\ kv' = tick.snap
    /\ tick' = [Idle EXCEPT !.pc = "ping"]
    /\ UNCHANGED <<process, storage, hooks, req, events, streak, calm>>

\* The Timekeeper answered quotaExceeded: drain and stop; KV is not written.
TickQuota ==
    /\ tick.pc = "ping" /\ ids /\ Spend("quota")
    /\ tick' = [Idle EXCEPT !.pc = "drain"]
    /\ UNCHANGED <<kv, process, storage, hooks, req, streak, calm>>

TickPing ==
    /\ tick.pc = "ping"
    /\ tick' = [Idle EXCEPT !.pc = "foot"]
    /\ UNCHANGED <<kv, process, storage, hooks, req, events, streak, calm>>

\* The drain ended (synced, failed or timed out): SIGTERM, and no re-arm.
TickStop ==
    /\ tick.pc = "drain"
    /\ term' = up
    /\ tick' = Idle
    /\ UNCHANGED <<kv, up, run, notice, storage, hooks, req, events, streak, calm>>

\* Re-arm only if the container reads running.
TickRearm ==
    /\ tick.pc = "foot" /\ SeesUp
    /\ Arm
    /\ tick' = Idle
    /\ UNCHANGED <<kv, process, ids, shutdownRequested, notRunningSince, hooks, req, streak, calm>>

TickLast ==
    /\ tick.pc = "foot" /\ SeesDown
    /\ tick' = Idle
    /\ UNCHANGED <<kv, process, storage, hooks, req, streak, calm>>

CollectMetrics ==
    \/ TickUnconfirmed \/ TickConfirm \/ TickRunning \/ TickStopped \/ TickIdle
    \/ TickNotIdle \/ TickNoHealth \/ TickZombie \/ TickHealth \/ TickRead
    \/ TickWrite \/ TickQuota \/ TickPing \/ TickStop \/ TickRearm \/ TickLast

-----------------------------------------------------------------------------
(***************************************************************************)
(* Worker requests.  Go(r, pc) moves request r to its next step; End(r, pc) *)
(* also forgets what it had read.                                          *)
(***************************************************************************)

At(r, pc) == req[r].pc = pc
Go(r, pc) == req' = [req EXCEPT ![r].pc = pc]
End(r, pc) == req' = [req EXCEPT ![r] = [Fresh EXCEPT !.pc = pc]]
Others == <<process, storage, hooks, tick, events, streak, calm>>

FirstStep == [start |-> "name", stop |-> "mark", delete |-> "destroy",
              touch |-> "touch", destroy |-> "destroy"]

\* No other request is being served, and no hook is running.
Alone(r) ==
    /\ onStart.pc = "idle" /\ onStop = "idle"
    /\ \A q \in Requests \ {r} : req[q].pc \in {"ready", "done"}

\* POST /api/sessions: one write of a record nobody knows yet.
Create ==
    /\ kv = "absent"
    /\ kv' = "new"
    /\ UNCHANGED <<req, Others>>

\* Every other request first reads the record and answers 404 if it is gone;
\* only POST /api/container/destroy does not look at it.
Begin(r, op) ==
    /\ At(r, "ready") /\ op \in Ops /\ kv # "absent"
    /\ calm' = IF op \in {"stop", "delete"} /\ Alone(r) THEN "asked" ELSE "no"
    /\ \/ ~Exists /\ op # "destroy" /\ End(r, "done")
       \/ (Exists \/ op = "destroy") /\ req' = [req EXCEPT ![r] =
             [Fresh EXCEPT !.op = op,
                           !.pc = FirstStep[op],
                           !.snap = IF op \in {"start", "touch"} THEN kv ELSE "absent"]]
    /\ UNCHANGED <<kv, process, storage, hooks, tick, events, streak>>

\* configureContainerDO: getStoredBucketName, then setBucketName.
GetBucketName(r) ==
    /\ At(r, "name")
    /\ req' = [req EXCEPT ![r].pc = "configure", ![r].need = ~ids]
    /\ UNCHANGED <<kv, Others>>

SetBucketName(r) ==
    /\ At(r, "configure") \/ At(r, "reconfigure")
    /\ ids' = TRUE
    /\ Go(r, IF At(r, "configure") THEN "state" ELSE "put")
    /\ UNCHANGED <<kv, process, shutdownRequested, notRunningSince, rows, hooks, tick, events, streak, calm>>

\* getState: a running container under another configuration is destroyed first.
GetState(r) ==
    /\ At(r, "state")
    /\ req' = IF up /\ req[r].need
              THEN [req EXCEPT ![r].pc = "destroy"]
              ELSE [req EXCEPT ![r].pc = "put", ![r].live = up]
    /\ UNCHANGED <<kv, Others>>

\* The status read at validation decides whether 'running' is written, and the
\* write does not check that the record still exists.
PutRunning(r) ==
    /\ At(r, "put")
    /\ kv' = IF req[r].snap # "running" THEN "running" ELSE kv
    /\ End(r, IF req[r].live THEN "done" ELSE "boot")
    /\ UNCHANGED Others

\* startAndWaitForPorts in waitUntil: the process is created (nothing to do if
\* it is already up), its ports answer, the SDK calls onStart.
Boot(r) ==
    /\ At(r, "boot")
    /\ IF up
       THEN End(r, "done") /\ UNCHANGED <<process, streak>>
       ELSE /\ run < MaxRuns
            /\ up' = TRUE /\ run' = run + 1
            /\ streak' = [streak EXCEPT !.thisRun = 0]
            /\ End(r, "ports")
            /\ UNCHANGED <<term, notice>>
    /\ UNCHANGED <<kv, storage, hooks, tick, events, calm>>

PortsReady(r) ==
    /\ At(r, "ports") /\ up /\ onStart.pc = "idle"
    /\ onStart' = [Idle EXCEPT !.pc = "due"]
    /\ End(r, "done")
    /\ UNCHANGED <<kv, process, storage, onStop, tick, events, streak, calm>>

\* It throws: the process cannot be created, or is gone, or never listens.
BootFails(r) ==
    /\ \/ At(r, "boot") /\ ~up /\ (IF run < MaxRuns THEN Spend("bootfail") ELSE events' = events)
       \/ At(r, "ports") /\ (IF up THEN Spend("bootfail") ELSE events' = events)
    /\ End(r, "rollbackGet")
    /\ UNCHANGED <<kv, process, storage, hooks, tick, streak, calm>>

\* (mutant: the rollback does not look whether the record is there)
RollbackGetUnchecked(r) ==
    /\ At(r, "rollbackGet")
    /\ End(r, "rollbackPut")
    /\ UNCHANGED <<kv, Others>>

RollbackGet(r) ==
    /\ At(r, "rollbackGet")
    /\ End(r, IF Exists THEN "rollbackPut" ELSE "done")
    /\ UNCHANGED <<kv, Others>>

RollbackPut(r) ==
    /\ At(r, "rollbackPut")
    /\ kv' = "stopped"
    /\ End(r, "done")
    /\ UNCHANGED Others

\* POST /:id/stop writes 'stopped', then calls the DO's destroy().
MarkStopped(r) ==
    /\ At(r, "mark")
    /\ kv' = "stopped"
    /\ Go(r, "destroy")
    /\ UNCHANGED Others

\* DELETE removes the record after the destroy attempt, failed or not.
Remove(r) ==
    /\ At(r, "remove")
    /\ kv' = "deleted"
    /\ End(r, "done")
    /\ UNCHANGED Others

\* POST /:id/touch and PATCH write the record they read back, status included.
Touch(r) ==
    /\ At(r, "touch")
    /\ kv' = req[r].snap
    /\ End(r, "done")
    /\ UNCHANGED Others

-----------------------------------------------------------------------------
(* The DO's destroy(), inside the request that called it.                  *)

\* (mutant: the identifiers survive until the container is gone)
DestroyBeginKeepsIds(r) ==
    /\ At(r, "destroy")
    /\ shutdownRequested' = TRUE /\ DropRowsThenArm(0)
    /\ calm' = IF calm = "asked" /\ Writers = {} THEN "begun" ELSE "no"
    /\ Go(r, "drain")
    /\ UNCHANGED <<ids, kv, process, notRunningSince, hooks, tick, events, streak>>

\* Persist the marker, drop the rows, clear the identifiers; then drain.
DestroyBegin(r) ==
    /\ At(r, "destroy")
    /\ shutdownRequested' = TRUE /\ DropRowsThenArm(0) /\ ids' = FALSE
    /\ calm' = IF calm = "asked" /\ Writers = {} THEN "begun" ELSE "no"
    /\ Go(r, "drain")
    /\ UNCHANGED <<kv, process, notRunningSince, hooks, tick, events, streak>>

\* The drain ended one way or another: SIGTERM if the container reads running.
DestroyDrained(r) ==
    /\ At(r, "drain")
    /\ \/ SeesUp /\ term' = TRUE /\ Go(r, "kill")
       \/ SeesDown /\ term' = term /\ Go(r, "super")
    /\ UNCHANGED <<kv, up, run, notice, storage, hooks, tick, streak, calm>>

\* (mutant: the poll has no ceiling)
DestroyPolledForever(r) ==
    /\ At(r, "kill") /\ ~up
    /\ Go(r, "super")
    /\ UNCHANGED <<kv, Others>>

\* The poll for the exit ends: a not-running reading, or the 135 s ceiling.
DestroyPolled(r) ==
    /\ At(r, "kill")
    /\ Go(r, "super")
    /\ UNCHANGED <<kv, Others>>

\* super.destroy() kills whatever is running by now.
SuperDestroy(r) ==
    /\ At(r, "super")
    /\ IF up THEN Exit("stop") ELSE UNCHANGED process
    /\ CASE req[r].op = "start"  -> Go(r, "reconfigure")
         [] req[r].op = "delete" -> End(r, "remove")
         [] OTHER                -> End(r, "done")
    /\ UNCHANGED <<kv, storage, hooks, tick, events, streak, calm>>

Destroy(r) == DestroyBegin(r) \/ DestroyDrained(r) \/ DestroyPolled(r) \/ SuperDestroy(r)

StartSteps(r) ==
    \/ GetBucketName(r) \/ SetBucketName(r) \/ GetState(r) \/ PutRunning(r)
    \/ Boot(r) \/ PortsReady(r) \/ BootFails(r) \/ RollbackGet(r) \/ RollbackPut(r)

RequestSteps(r) == StartSteps(r) \/ MarkStopped(r) \/ Remove(r) \/ Touch(r) \/ Destroy(r)

-----------------------------------------------------------------------------
(* The platform.                                                           *)

\* SIGTERM takes effect.
GracefulExit ==
    /\ up /\ term
    /\ Exit("stop")
    /\ UNCHANGED <<kv, storage, hooks, tick, req, events, streak, calm>>

Crash ==
    /\ up
    /\ \/ Spend("crash") /\ Exit("error")
       \/ Spend("vanish") /\ Exit("none")
    /\ UNCHANGED <<kv, storage, hooks, tick, req, streak, calm>>

WindowElapses ==
    /\ notRunningSince = "open"
    /\ notRunningSince' = "past"
    /\ UNCHANGED <<kv, process, ids, shutdownRequested, rows, hooks, tick, req, events, streak, calm>>

\* A request whose call into the DO was cut off: destroy() is best effort for
\* its callers, a start that was booting rolls back.
CutOff(q) ==
    CASE q.pc \in Destroying ->
            CASE q.op = "start"  -> [q EXCEPT !.pc = "put", !.live = TRUE]
              [] q.op = "delete" -> [Fresh EXCEPT !.pc = "remove"]
              [] OTHER           -> [Fresh EXCEPT !.pc = "done"]
      [] q.pc = "ports" -> [Fresh EXCEPT !.pc = "rollbackGet"]
      [] OTHER -> q

\* The DO is reset: storage stays, handlers in flight and an unreported exit
\* are lost, and the row of an interrupted tick is delivered again.
Evict ==
    /\ Spend("evict")
    /\ onStart' = Idle /\ onStop' = "idle" /\ tick' = Idle
    /\ notice' = "none"
    /\ req' = [r \in Requests |-> CutOff(req[r])]
    /\ alarms' = IF tick.pc # "idle" /\ held THEN OneMore ELSE alarms
    /\ UNCHANGED <<held, kv, up, run, term, ids, shutdownRequested, notRunningSince, streak, calm>>

-----------------------------------------------------------------------------

DoSteps ==
    \/ OnStartMark \/ OnStartRunning \/ OnStartRead \/ OnStartActive \/ OnStartArm
    \/ OnStopBegin \/ OnStopWrite \/ OnError \/ OnErrorAlive
    \/ CollectMetrics

Next ==
    \/ DoSteps
    \/ Create
    \/ \E r \in Requests : (\E op \in Ops : Begin(r, op)) \/ RequestSteps(r)
    \/ GracefulExit \/ Crash \/ WindowElapses \/ Evict

Spec == Init /\ [][Next]_vars

\* Every handler and request in flight goes on, pending alarms and exits are
\* delivered, time passes.  Nothing makes a user send a request, the environment
\* do harm, or the container obey SIGTERM.
Fairness ==
    /\ WF_vars(OnStartMark \/ OnStartRunning \/ OnStartRead \/ OnStartActive \/ OnStartArm)
    /\ WF_vars(OnStopBegin \/ OnStopWrite)
    /\ WF_vars(notice = "error" /\ (OnError \/ OnErrorAlive))
    /\ WF_vars(CollectMetrics)
    /\ WF_vars(WindowElapses)
    /\ \A r \in Requests : WF_vars(RequestSteps(r))

FairSpec == Spec /\ Fairness

-----------------------------------------------------------------------------
(***************************************************************************)
(* Properties.                                                             *)
(***************************************************************************)

\* A user's teardown is silent (destroy() clears the identifiers before it
\* stops the container): when it met no other request and no record write in
\* flight, no exit report, tick, crash report, eviction or late alarm changes
\* the record after destroy() began; only the request's own DELETE does.
TeardownIsSilent ==
    [][calm = "begun" /\ kv' # kv => \E r \in Requests : At(r, "remove")]_vars

\* collectMetrics gives up on a container only after an earlier not-running
\* reading that no tick has contradicted since (NOT_RUNNING_SINCE_KEY).
ConfirmNeedsStreak ==
    [][tick.pc = "idle" /\ tick'.pc = "confirm" => streak.ever >= 1]_vars

\* No request is being served and no hook is running, so nobody but
\* collectMetrics is about to write the record.
Undisturbed ==
    /\ onStart.pc = "idle" /\ onStop = "idle"
    /\ \A r \in Requests : req[r].pc \in {"ready", "done"}

\* A crash that the SDK reports is corrected: onError opens the window and arms
\* a tick, the tick confirms, and the record that says running says stopped
\* (REQ-SESSION-018 AC3), unless a request or a hook takes over.  The report is
\* lost if the DO is reset before it comes, so no more harm is to come.
CrashConverges ==
    (notice = "error" /\ ~up /\ kv = "running" /\ ids /\ events = 0 /\ Undisturbed)
        ~> (kv = "stopped" \/ up \/ ~Undisturbed)

\* The catch-all: while the loop is armed, a container that is gone is noticed
\* however it went, through evictions of the DO and unreported exits.
LoopNotices ==
    (kv = "running" /\ ~up /\ alarms > 0 /\ ids /\ Undisturbed)
        ~> (kv = "stopped" \/ up \/ ~Undisturbed)

\* The self-heal: an armed loop never leaves a live container showing stopped,
\* unless a deliberate stop is in flight (REQ-SESSION-018 AC4), once there is no
\* more harm to come.
SelfHeal ==
    (kv = "stopped" /\ up /\ alarms > 0 /\ ids /\ ~shutdownRequested
        /\ notice = "none" /\ events = 0 /\ Undisturbed)
        ~> (kv = "running" \/ ~up \/ ~Undisturbed)

\* A stop or delete brings the container down even if it ignores SIGTERM: the
\* 135 s ceiling and super.destroy() see to it, unless the DO is reset.
TeardownEnds ==
    \A r \in Requests :
        (req[r].op \in {"stop", "delete"} /\ At(r, "drain") /\ up /\ events = 0) ~> ~up

\* Who has found the record and may still write it: a start from its first read to
\* its write of "running", whatever destroy() it passes through, a DELETE to the end.
HandlerHolds(h) ==
    \/ h = "onStart" /\ onStart.pc \in {"put1", "put2"}
    \/ h = "onStop" /\ onStop = "put"
    \/ h = "tick" /\ tick.pc \in {"write", "confirm", "idlePut"}
RequestHolds(q) ==
    \/ q.pc \in {"name", "configure", "state", "reconfigure", "put", "mark", "touch",
                 "rollbackPut", "remove"}
    \/ q.pc \in Destroying /\ q.op \in {"start", "delete"}
Holders == {h \in Handlers : HandlerHolds(h)} \cup {r \in Requests : RequestHolds(req[r])}

\* The handlers and requests keep to the shared record's rules: whoever writes it has
\* found it before, and writes once.
Shared == INSTANCE SharedRecord WITH record <- kv, holders <- Holders,
                                     Writers <- Handlers \cup Requests, Statuses <- Record
RecordSpec == Shared!Spec

\* An onStop racing the exit cannot bring a deleted record back
\* (destroy(): the identifiers are cleared first).
OnStopCannotResurrect ==
    [][onStop = "put" /\ onStop' = "idle" /\ kv = "deleted" => kv' = "deleted"]_vars

(* What the documents say and TLC refutes (README, section 6). *)

\* Nothing is happening and nothing is going to happen.
Settled ==
    /\ onStart.pc = "idle" /\ onStop = "idle" /\ tick.pc = "idle"
    /\ alarms = 0 /\ notice = "none"
    /\ \A r \in Requests : req[r].pc \in {"ready", "done"}

\* Once everything has settled the record does not say running for a container
\* that is gone (spec REQ-SESSION-018: the record is the source of truth).
SettledStatus == Settled /\ kv = "running" => up

\* The same after a stop that met no other request and no record write in
\* flight (the residual the spec accepts is that one tick heals the record
\* "before destroy() settles it back to stopped").
StopSettles == calm = "begun" => SettledStatus

\* A single not-running reading of a live container never marks it stopped
\* (spec REQ-SESSION-018 AC2).
OneBlipNeverStops ==
    [][tick.pc = "idle" /\ tick'.pc = "confirm" /\ up => streak.thisRun >= 1]_vars

=============================================================================
