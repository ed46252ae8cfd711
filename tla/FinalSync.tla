----------------------------- MODULE FinalSync -----------------------------
(***************************************************************************)
(* The final sync of a workspace: the sync daemon of the container (a      *)
(* shell loop woken by SIGUSR1), the status file it stamps, and the host's *)
(* POST /internal/final-sync, which signals the daemon and polls the file  *)
(* until the run it asked for has ended.                                   *)
(*                                                                         *)
(* The daemon is cut between the commands of its loop, because a trap runs *)
(* there, and at the stamps, because the host reads the file at any time.  *)
(* Edits of the workspace are numbered: disk is the newest one made, store *)
(* the newest one such that it and all before it are in the object store.  *)
(***************************************************************************)
EXTENDS Integers

CONSTANTS
    Callers,      \* calls of POST /internal/final-sync
    MaxEdits,     \* bound: edits of the workspace
    MaxClock      \* bound: milliseconds that pass

ASSUME SyncAssumption == MaxEdits \in Nat /\ MaxClock \in Nat

VARIABLES
    disk, store,  \* the newest edit on disk, the newest in the object store
    clock,        \* Date.now()
    file,         \* /tmp/sync-status.json
    daemon,       \* where the loop is, what it is about to stamp, what it scanned
    requested, rerun, inFlight,   \* BISYNC_REQUESTED, _RERUN_REQUESTED, _IN_FLIGHT
    fails,        \* CONSECUTIVE_FAILURES
    call,         \* the calls of the endpoint
    signal        \* history: heard since the flags were reset; what the daemon
                  \* owes for a signal since its last scan ("nap": it came
                  \* between the test of the flags and the wait)

workspace == <<disk, store>>
flags == <<requested, rerun>>
cycle == <<inFlight, fails>>
vars == <<workspace, clock, file, daemon, flags, cycle, call, signal>>

-----------------------------------------------------------------------------

Stamps == {"none", "syncing", "success", "failed"}
StatusRecord == [status : Stamps, ts : Nat]
Unreadable == [status |-> "none", ts |-> 0]      \* what {} amounts to

Places == {"boot", "dead", "test", "nap", "wait", "reset", "enter", "publish", "scan",
           "sync", "ok", "broken", "resync", "baseline", "end"}
DaemonType == [pc : Places, then : Places, stamp : StatusRecord, scanned : Nat,
               retried : BOOLEAN]

\* A call keeps what the endpoint does (trigger time, start of its run, -1 until
\* it is seen) and, as history, the newest edit when it came in.
NotStarted == -1
CallType == [pc : {"idle", "signal", "poll", "synced", "failed", "timeout", "unavailable"},
             trigger : Nat, started : Nat \cup {NotStarted}, due : Nat]

TypeOK ==
    /\ disk \in Nat /\ store \in Nat /\ clock \in Nat
    /\ file \in StatusRecord
    /\ daemon \in DaemonType
    /\ requested \in BOOLEAN /\ rerun \in BOOLEAN /\ inFlight \in BOOLEAN
    /\ fails \in 0..3
    /\ call \in [Callers -> CallType]
    /\ signal \in [heard : BOOLEAN, owed : {"no", "yes", "nap"}]

Init ==
    /\ disk = 0 /\ store = 0 /\ clock = 1
    /\ file = [status |-> "success", ts |-> 0]
    /\ daemon = [pc |-> "boot", then |-> "boot", stamp |-> Unreadable, scanned |-> 0,
                 retried |-> FALSE]
    /\ requested = FALSE /\ rerun = FALSE /\ inFlight = FALSE
    /\ fails = 0
    /\ call = [c \in Callers |->
                  [pc |-> "idle", trigger |-> 0, started |-> NotStarted, due |-> 0]]
    /\ signal = [heard |-> FALSE, owed |-> "no"]

-----------------------------------------------------------------------------
(* The daemon.                                                              *)

At(place) == daemon.pc = place
Go(place) == daemon' = [daemon EXCEPT !.pc = place]

\* update_sync_status truncates the file, stamps the time and writes.
Publish(status, next) ==
    /\ daemon' = [daemon EXCEPT !.pc = "publish", !.then = next,
                                !.stamp = [status |-> status, ts |-> clock],
                                !.retried = FALSE]
    /\ file' = Unreadable

Published ==
    /\ At("publish")
    /\ file' = daemon.stamp
    /\ Go(daemon.then)
    /\ UNCHANGED <<workspace, clock, flags, cycle, call, signal>>

\* The first iteration zeroes the flags and installs the trap.
InstallTrap ==
    /\ At("boot")
    /\ requested' = FALSE /\ rerun' = FALSE /\ inFlight' = FALSE /\ fails' = 0
    /\ Go("test")
    /\ UNCHANGED <<workspace, clock, file, call, signal>>

\* Sleep only if no trigger is queued; the sleep is started, then waited for.
TestFlags ==
    /\ At("test")
    /\ Go(IF requested \/ rerun THEN "reset" ELSE "nap")
    /\ UNCHANGED <<workspace, clock, file, flags, cycle, call, signal>>

EnterWait ==
    /\ At("nap")
    /\ Go("wait")
    /\ UNCHANGED <<workspace, clock, file, flags, cycle, call, signal>>

\* The 15 minutes are over.
Cadence ==
    /\ At("wait")
    /\ Go("reset")
    /\ UNCHANGED <<workspace, clock, file, flags, cycle, call, signal>>

ResetFlags ==
    /\ At("reset")
    /\ requested' = FALSE /\ rerun' = FALSE
    /\ signal' = [signal EXCEPT !.heard = FALSE]
    /\ Go("enter")
    /\ UNCHANGED <<workspace, clock, file, cycle, call>>

\* From here on the trap asks for a rerun; 'syncing' is stamped before the scan.
BeginCycle ==
    /\ At("enter")
    /\ inFlight' = TRUE
    /\ Publish("syncing", "scan")
    /\ UNCHANGED <<workspace, clock, flags, fails, call, signal>>

Scan ==
    /\ At("scan")
    /\ daemon' = [daemon EXCEPT !.pc = "sync", !.scanned = disk]
    /\ signal' = [signal EXCEPT !.owed = "no"]
    /\ UNCHANGED <<workspace, clock, file, flags, cycle, call>>

Newer(a, b) == IF a < b THEN b ELSE a

SyncSucceeds ==
    /\ At("sync")
    /\ store' = Newer(store, daemon.scanned)
    /\ fails' = 0
    /\ Go("ok")
    /\ UNCHANGED <<disk, clock, file, flags, inFlight, call, signal>>

StampSuccess ==
    /\ At("ok")
    /\ Publish("success", "end")
    /\ UNCHANGED <<workspace, clock, flags, cycle, call, signal>>

\* It fails, and may have uploaded some or all of it.
SyncFails ==
    /\ At("sync")
    /\ store' \in store..Newer(store, daemon.scanned)
    /\ Go("broken")
    /\ UNCHANGED <<disk, clock, file, flags, cycle, call, signal>>

\* A vanished file explains it: exclude the file and run once more.
RecoverVanished ==
    /\ At("broken") /\ ~daemon.retried
    /\ daemon' = [daemon EXCEPT !.pc = "scan", !.retried = TRUE]
    /\ UNCHANGED <<workspace, clock, file, flags, cycle, call, signal>>

\* One failure more, or at once the three that ask for a resync when no listing
\* of an earlier sync exists.
CountFailure ==
    /\ At("broken")
    /\ fails' \in {fails + 1, 3}
    /\ Publish("failed", IF fails' >= 3 THEN "resync" ELSE "end")
    /\ UNCHANGED <<workspace, clock, flags, inFlight, call, signal>>

StampResync ==
    /\ At("resync")
    /\ Publish("failed", "baseline")
    /\ UNCHANGED <<workspace, clock, flags, cycle, call, signal>>

\* establish_bisync_baseline merges both sides (a timeout counts as done), or
\* fails and is retried after one failure more; either may upload in part.
Baseline ==
    /\ At("baseline")
    /\ store' \in store..disk
    /\ fails' \in {0, 2}
    /\ Go("end")
    /\ UNCHANGED <<disk, clock, file, flags, inFlight, call, signal>>

\* (mutant: the flags are reset at the end of the cycle)
EndCycleResets ==
    /\ At("end")
    /\ inFlight' = FALSE
    /\ requested' = FALSE /\ rerun' = FALSE
    /\ Go("test")
    /\ UNCHANGED <<workspace, clock, file, fails, call, signal>>

EndCycle ==
    /\ At("end")
    /\ inFlight' = FALSE
    /\ Go("test")
    /\ UNCHANGED <<workspace, clock, file, flags, fails, call, signal>>

Daemon ==
    \/ Published \/ InstallTrap \/ TestFlags \/ EnterWait \/ ResetFlags \/ BeginCycle
    \/ Scan \/ SyncSucceeds \/ StampSuccess \/ SyncFails \/ RecoverVanished
    \/ CountFailure \/ StampResync \/ Baseline \/ EndCycle

-----------------------------------------------------------------------------
(* Signals.                                                                 *)

\* process.kill(pid, 'SIGUSR1'): the trap sets a flag and ends the wait; before
\* the trap is installed the signal ends the daemon.
Sigusr1 ==
    IF At("boot")
    THEN Go("dead") /\ UNCHANGED <<flags, signal>>
    ELSE /\ rerun' = (rerun \/ inFlight) /\ requested' = (requested \/ ~inFlight)
         /\ Go(IF At("wait") THEN "reset" ELSE daemon.pc)
         /\ signal' = [heard |-> TRUE,
                       owed |-> IF At("nap") THEN "nap" ELSE "yes"]

\* POST /internal/bisync-trigger: signal and answer 202 (503 without a daemon).
BisyncTrigger ==
    /\ ~At("dead")
    /\ Sigusr1
    /\ UNCHANGED <<workspace, clock, file, cycle, call>>

-----------------------------------------------------------------------------
(* POST /internal/final-sync.                                               *)

Call(c) ==
    /\ call[c].pc = "idle"
    /\ call' = [call EXCEPT ![c] = [pc |-> "signal", trigger |-> clock,
                                    started |-> NotStarted, due |-> disk]]
    /\ UNCHANGED <<workspace, clock, file, daemon, flags, cycle, signal>>

SignalDaemon(c) ==
    /\ call[c].pc = "signal" /\ ~At("dead")
    /\ Sigusr1
    /\ call' = [call EXCEPT ![c].pc = "poll"]
    /\ UNCHANGED <<workspace, clock, file, cycle>>

\* There is no pid file yet, or no such process: 503.
NoDaemon(c) ==
    /\ call[c].pc = "signal" /\ (At("boot") \/ At("dead"))
    /\ call' = [call EXCEPT ![c].pc = "unavailable"]
    /\ UNCHANGED <<workspace, clock, file, daemon, flags, cycle, signal>>

\* (mutant: a run stamped in the millisecond of the trigger is taken for ours)
EvaluateNotStrict(c) ==
    IF call[c].started = NotStarted
    THEN [call[c] EXCEPT !.started = IF file.status = "syncing" /\ file.ts >= call[c].trigger
                                     THEN file.ts ELSE NotStarted]
    ELSE [call[c] EXCEPT !.pc = IF file.ts <= call[c].started THEN "poll"
                                ELSE IF file.status = "success" THEN "synced"
                                ELSE IF file.status = "failed" THEN "failed" ELSE "poll"]

\* evaluateFinalSync: first our run's 'syncing', then its end.
Evaluate(c) ==
    IF call[c].started = NotStarted
    THEN [call[c] EXCEPT !.started = IF file.status = "syncing" /\ file.ts > call[c].trigger
                                     THEN file.ts ELSE NotStarted]
    ELSE [call[c] EXCEPT !.pc = IF file.ts <= call[c].started THEN "poll"
                                ELSE IF file.status = "success" THEN "synced"
                                ELSE IF file.status = "failed" THEN "failed" ELSE "poll"]

Poll(c) ==
    /\ call[c].pc = "poll"
    /\ call' = [call EXCEPT ![c] = Evaluate(c)]
    /\ UNCHANGED <<workspace, clock, file, daemon, flags, cycle, signal>>

\* 125 s are over.
GiveUp(c) ==
    /\ call[c].pc = "poll"
    /\ call' = [call EXCEPT ![c].pc = "timeout"]
    /\ UNCHANGED <<workspace, clock, file, daemon, flags, cycle, signal>>

Endpoint(c) == Call(c) \/ SignalDaemon(c) \/ NoDaemon(c) \/ Poll(c) \/ GiveUp(c)

-----------------------------------------------------------------------------
(* The workspace and the clock, which is taken to be monotonic.            *)

Edit ==
    /\ disk < MaxEdits
    /\ disk' = disk + 1
    /\ UNCHANGED <<store, clock, file, daemon, flags, cycle, call, signal>>

TimePasses ==
    /\ clock < MaxClock
    /\ clock' = clock + 1
    /\ UNCHANGED <<workspace, file, daemon, flags, cycle, call, signal>>

Next ==
    \/ Daemon \/ Cadence \/ BisyncTrigger
    \/ \E c \in Callers : Endpoint(c)
    \/ Edit \/ TimePasses

Spec == Init /\ [][Next]_vars

\* The loop goes on; nothing waits for the 15 minutes to be over.
FairSpec == Spec /\ WF_vars(Daemon)

-----------------------------------------------------------------------------
(* Properties.                                                              *)

\* A final sync that reports success has every edit made before the call in the
\* object store, whatever run was in flight then and whatever failed since
\* (evaluateFinalSync: our run's 'syncing' first, strictly after the trigger).
SyncedMeansSaved == \A c \in Callers : call[c].pc = "synced" => store >= call[c].due

\* What the host tells its callers implements the promise: synced only when the
\* store has what the call is due, a store that never goes back, one answer a call.
Answer(c) == CASE call[c].pc = "idle" -> "none"
               [] call[c].pc \in {"signal", "poll"} -> "waiting"
               [] call[c].pc = "synced" -> "synced"
               [] OTHER -> "not"
Promise == INSTANCE SavePromise WITH answer <- [c \in Callers |-> Answer(c)],
                                     due <- [c \in Callers |-> call[c].due]
SaveSpec == Promise!Spec

\* A trigger is followed by a scan that sees its edits without waiting for the
\* cadence, wherever in the cycle it comes, except between the test of the
\* flags and the wait (start_sync_daemon: the flags are reset before the run).
TriggerIsServed == signal.owed = "yes" ~> signal.owed # "yes"

\* Triggers during one cycle make one rerun: the loop skips its sleep only for a
\* trigger that came since the flags were last reset (REQ-STOR-015 AC5).
OneRerun == [][At("test") /\ ~At("test")' /\ daemon'.pc # "nap" => signal.heard]_vars

\* No trigger is slept over: "a trigger wakes the daemon and skips the remaining
\* sleep" (spec REQ-STOR-003 AC2).  TLC refutes it (README, section 6).
NotSleptOver == At("wait") => signal.owed = "no"

=============================================================================
