------------------------- MODULE FinalSync_proofs -------------------------
(***************************************************************************)
(* Proofs about FinalSync, for any number of calls, edits and milliseconds: *)
(* the types; that a final sync reported complete has saved the edits made  *)
(* before it, which makes the protocol an implementation of SavePromise;    *)
(* that the signals of one cycle make one rerun; and that a trigger that is *)
(* still owed a scan has left a mark by which the daemon will come to it.   *)
(***************************************************************************)
EXTENDS FinalSync, TLAPS

-----------------------------------------------------------------------------
(* Type correctness.                                                        *)

\* Three failures are only counted on the way to a resync.
CountInv ==
    fails = 3 => \/ daemon.pc \in {"resync", "baseline"}
                 \/ daemon.pc = "publish" /\ daemon.then \in {"resync", "baseline"}

TypeInv == TypeOK /\ CountInv

\* Moving on changes the daemon's place and nothing else.
LEMMA GoEffect ==
    ASSUME TypeOK, NEW p \in Places, Go(p)
    PROVE  /\ daemon' \in DaemonType /\ daemon'.pc = p
           /\ daemon'.then = daemon.then /\ daemon'.stamp = daemon.stamp
           /\ daemon'.scanned = daemon.scanned
BY DEF TypeOK, Go, DaemonType

\* update_sync_status empties the file and is about to write the stamp.
LEMMA PublishEffect ==
    ASSUME TypeOK, NEW s \in Stamps, NEW p \in Places, Publish(s, p)
    PROVE  /\ daemon' \in DaemonType /\ daemon'.pc = "publish" /\ daemon'.then = p
           /\ daemon'.stamp = [status |-> s, ts |-> clock]
           /\ daemon'.scanned = daemon.scanned
           /\ file' = Unreadable /\ file' \in StatusRecord
<1>1. [status |-> s, ts |-> clock] \in StatusRecord /\ Unreadable \in StatusRecord
  BY DEF TypeOK, StatusRecord, Unreadable, Stamps
<1>2. "publish" \in Places
  BY DEF Places
<1> QED
  BY <1>1, <1>2 DEF TypeOK, Publish, DaemonType

\* A scan takes the newest edit on disk, in the first run and in the second.
LEMMA ScanEffect ==
    ASSUME TypeOK, Scan
    PROVE  /\ daemon' \in DaemonType /\ daemon'.pc = "sync" /\ daemon'.scanned = disk
           /\ daemon'.then = daemon.then /\ daemon'.stamp = daemon.stamp
BY DEF TypeOK, Scan, DaemonType, Places

\* The second run starts from the stamp of the first.
LEMMA RecoverEffect ==
    ASSUME TypeOK, RecoverVanished
    PROVE  /\ daemon' \in DaemonType /\ daemon'.pc = "scan"
           /\ daemon'.scanned = daemon.scanned
           /\ daemon'.then = daemon.then /\ daemon'.stamp = daemon.stamp
BY DEF TypeOK, RecoverVanished, DaemonType, Places

\* Every step of the daemon keeps the types (the commands of start_sync_daemon).
LEMMA DaemonKeepsType ==
    ASSUME TypeInv, Daemon \/ Cadence
    PROVE  TypeInv'
<1> USE DEF TypeInv, CountInv, At
<1>a. daemon.stamp \in StatusRecord /\ daemon.then \in Places /\ daemon.scanned \in Nat
  BY DEF TypeOK, DaemonType
<1>b. {"test", "nap", "wait", "reset", "enter", "scan", "sync", "ok", "broken", "resync",
        "baseline", "end", "dead"} \subseteq Places
  BY DEF Places
<1>c. {"syncing", "success", "failed"} \subseteq Stamps
  BY DEF Stamps
<1>1. CASE Published
  BY <1>1, <1>a, GoEffect DEF TypeOK, Published, workspace, flags, cycle
<1>2. CASE InstallTrap
  <2>1. daemon' \in DaemonType /\ fails' # 3
    BY <1>2, <1>b, GoEffect DEF InstallTrap
  <2>2. UNCHANGED <<disk, store, clock, file, call, signal>>
    BY <1>2 DEF InstallTrap, workspace
  <2>3. requested' \in BOOLEAN /\ rerun' \in BOOLEAN /\ inFlight' \in BOOLEAN
    BY <1>2 DEF InstallTrap
  <2>4. fails' \in 0..3
    BY <1>2 DEF InstallTrap
  <2> QED
    BY <2>1, <2>2, <2>3, <2>4 DEF TypeOK
<1>3. CASE TestFlags \/ EnterWait \/ Cadence
  BY <1>3, <1>b, GoEffect DEF TypeOK, TestFlags, EnterWait, Cadence, workspace, flags, cycle
<1>4. CASE ResetFlags
  BY <1>4, <1>b, GoEffect DEF TypeOK, ResetFlags, workspace, cycle
<1>5. CASE BeginCycle
  BY <1>5, <1>b, <1>c, PublishEffect DEF TypeOK, BeginCycle, workspace, flags
<1>6. CASE Scan
  BY <1>6, ScanEffect DEF TypeOK, Scan, workspace, flags, cycle
<1>7. CASE SyncSucceeds
  <2>1. store' \in Nat
    BY <1>7, <1>a DEF TypeOK, SyncSucceeds, Newer
  <2> QED
    BY <1>7, <1>b, <2>1, GoEffect DEF TypeOK, SyncSucceeds, flags
<1>8. CASE StampSuccess
  BY <1>8, <1>b, <1>c, PublishEffect DEF TypeOK, StampSuccess, workspace, flags, cycle
<1>9. CASE SyncFails
  <2>1. store' \in Nat
    BY <1>9, <1>a DEF TypeOK, SyncFails, Newer
  <2> QED
    BY <1>9, <1>b, <2>1, GoEffect DEF TypeOK, SyncFails, flags, cycle
<1>10. CASE RecoverVanished
  BY <1>10, RecoverEffect DEF TypeOK, RecoverVanished, workspace, flags, cycle
<1>11. CASE CountFailure
  <2> DEFINE next == IF fails' >= 3 THEN "resync" ELSE "end"
  <2>1. fails \in 0..2 /\ fails' \in 0..3 /\ (fails' = 3 => next = "resync")
    BY <1>11 DEF TypeOK, CountFailure
  <2>2. next \in Places /\ Publish("failed", next)
    BY <1>11, <1>b DEF CountFailure
  <2> HIDE DEF next
  <2>3. daemon' \in DaemonType /\ daemon'.pc = "publish" /\ daemon'.then = next
        /\ file' \in StatusRecord
    BY <2>2, <1>c, PublishEffect
  <2> QED
    BY <1>11, <2>1, <2>3 DEF TypeOK, CountFailure, workspace, flags
<1>12. CASE StampResync
  BY <1>12, <1>b, <1>c, PublishEffect DEF TypeOK, StampResync, workspace, flags, cycle
<1>13. CASE Baseline
  <2>1. store' \in Nat /\ fails' \in {0, 2}
    BY <1>13 DEF TypeOK, Baseline
  <2> QED
    BY <1>13, <1>b, <2>1, GoEffect DEF TypeOK, Baseline, flags
<1>14. CASE EndCycle
  BY <1>14, <1>b, GoEffect DEF TypeOK, EndCycle, workspace, flags
<1> QED
  BY <1>1, <1>2, <1>3, <1>4, <1>5, <1>6, <1>7, <1>8, <1>9, <1>10, <1>11, <1>12, <1>13, <1>14
  DEF Daemon

\* The trap changes the flags and, in its wait or before it is there, the place.
LEMMA SignalEffect ==
    ASSUME TypeInv, Sigusr1
    PROVE  /\ daemon' \in DaemonType
           /\ \/ daemon'.pc = daemon.pc
              \/ daemon.pc = "boot" /\ daemon'.pc = "dead"
              \/ daemon.pc = "wait" /\ daemon'.pc = "reset"
           /\ daemon'.then = daemon.then /\ daemon'.stamp = daemon.stamp
           /\ daemon'.scanned = daemon.scanned
<1>1. daemon.pc \in Places /\ "reset" \in Places /\ "dead" \in Places /\ TypeOK
  BY DEF TypeInv, TypeOK, DaemonType, Places
<1>2. CASE Go("dead") /\ daemon.pc = "boot"
  BY <1>1, <1>2, GoEffect
<1>3. CASE Go("reset") /\ daemon.pc = "wait"
  BY <1>1, <1>3, GoEffect
<1>4. CASE Go(daemon.pc)
  BY <1>1, <1>4, GoEffect
<1> QED
  BY <1>2, <1>3, <1>4 DEF Sigusr1, At

\* The trap sets one flag, and the history that goes with it.
LEMMA SignalFlags ==
    ASSUME TypeInv, Sigusr1
    PROVE  /\ requested' \in BOOLEAN /\ rerun' \in BOOLEAN
           /\ signal' \in [heard : BOOLEAN, owed : {"no", "yes", "nap"}]
<1> USE DEF TypeInv, TypeOK
<1>1. CASE At("boot")
  BY <1>1 DEF Sigusr1, flags
<1>2. CASE ~At("boot")
  <2>1. rerun' = (rerun \/ inFlight) /\ requested' = (requested \/ ~inFlight)
    BY <1>2 DEF Sigusr1
  <2>2. rerun' \in BOOLEAN /\ requested' \in BOOLEAN
    BY <2>1
  <2>3. \/ signal' = [heard |-> TRUE, owed |-> "nap"]
        \/ signal' = [heard |-> TRUE, owed |-> "yes"]
    <3>1. CASE At("nap")
      BY <1>2, <3>1 DEF Sigusr1
    <3>2. CASE ~At("nap")
      BY <1>2, <3>2 DEF Sigusr1
    <3> QED
      BY <3>1, <3>2
  <2>4. \A o \in {"no", "yes", "nap"} :
            [heard |-> TRUE, owed |-> o] \in [heard : BOOLEAN, owed : {"no", "yes", "nap"}]
    OBVIOUS
  <2>5. signal' \in [heard : BOOLEAN, owed : {"no", "yes", "nap"}]
    BY <2>3, <2>4, Zenon
  <2> QED
    BY <2>2, <2>5
<1> QED
  BY <1>1, <1>2

\* What a poll makes of a call (evaluateFinalSync) is a call.
LEMMA EvaluateType ==
    ASSUME TypeOK, NEW c \in Callers
    PROVE  Evaluate(c) \in CallType
<1>1. call[c] \in CallType /\ file.ts \in Nat
  BY DEF TypeOK, StatusRecord
<1> QED
  BY <1>1 DEF Evaluate, CallType, NotStarted

\* Signals, calls, edits and the clock keep the types.
LEMMA OthersKeepType ==
    ASSUME TypeInv,
           \/ BisyncTrigger \/ Edit \/ TimePasses \/ UNCHANGED vars
           \/ \E c \in Callers : Endpoint(c)
    PROVE  TypeInv'
<1> USE DEF TypeInv, CountInv
<1>1. CASE BisyncTrigger
  BY <1>1, SignalEffect, SignalFlags DEF TypeOK, BisyncTrigger, workspace, cycle
<1>2. CASE Edit \/ TimePasses \/ UNCHANGED vars
  BY <1>2 DEF TypeOK, Edit, TimePasses, vars, workspace, flags, cycle
<1>3. ASSUME NEW c \in Callers, Call(c)
      PROVE  TypeInv'
  <2>1. [pc |-> "signal", trigger |-> clock, started |-> NotStarted, due |-> disk] \in CallType
    BY DEF TypeOK, CallType
  <2>2. call' \in [Callers -> CallType]
    BY <1>3, <2>1 DEF TypeOK, Call
  <2> QED
    BY <1>3, <2>2 DEF TypeOK, Call, workspace, flags, cycle
<1>4. ASSUME NEW c \in Callers, SignalDaemon(c)
      PROVE  TypeInv'
  <2>1. [call EXCEPT ![c].pc = "poll"] \in [Callers -> CallType]
    BY DEF TypeOK, CallType
  <2> QED
    BY <1>4, <2>1, SignalEffect, SignalFlags DEF TypeOK, SignalDaemon, workspace, cycle
<1>5. ASSUME NEW c \in Callers, NoDaemon(c) \/ GiveUp(c)
      PROVE  TypeInv'
  <2>1. \A p \in {"unavailable", "timeout"} :
            [call EXCEPT ![c].pc = p] \in [Callers -> CallType]
    BY DEF TypeOK, CallType
  <2> QED
    BY <1>5, <2>1 DEF TypeOK, NoDaemon, GiveUp, workspace, flags, cycle
<1>6. ASSUME NEW c \in Callers, Poll(c)
      PROVE  TypeInv'
  BY <1>6, EvaluateType DEF TypeOK, Poll, workspace, flags, cycle
<1> QED
  BY <1>1, <1>2, <1>3, <1>4, <1>5, <1>6 DEF Endpoint

\* The types hold in every reachable state.
LEMMA TypeInvHolds == Spec => []TypeInv
<1>1. ASSUME Init PROVE TypeInv
  <2>1. file \in StatusRecord /\ Unreadable \in StatusRecord
    BY <1>1 DEF Init, StatusRecord, Stamps, Unreadable
  <2>2. daemon \in DaemonType
    BY <1>1, <2>1 DEF Init, DaemonType, Places
  <2>3. call \in [Callers -> CallType]
    BY <1>1 DEF Init, CallType, NotStarted
  <2>4. disk \in Nat /\ store \in Nat /\ clock \in Nat /\ fails \in 0..3 /\ fails # 3
    BY <1>1 DEF Init
  <2>5. requested \in BOOLEAN /\ rerun \in BOOLEAN /\ inFlight \in BOOLEAN
    BY <1>1 DEF Init
  <2>6. signal \in [heard : BOOLEAN, owed : {"no", "yes", "nap"}]
    BY <1>1 DEF Init
  <2> QED
    BY <2>1, <2>2, <2>3, <2>4, <2>5, <2>6 DEF TypeInv, TypeOK, CountInv
<1>2. TypeInv /\ [Next]_vars => TypeInv'
  BY DaemonKeepsType, OthersKeepType DEF Next
<1> QED
  BY <1>1, <1>2, PTL DEF Spec

\* Every variable keeps its type; the failures never exceed the three that ask
\* for a resync.
THEOREM SyncTypeCorrect == Spec => []TypeOK
<1>1. TypeInv => TypeOK
  BY DEF TypeInv
<1> QED
  BY <1>1, TypeInvHolds, PTL

-----------------------------------------------------------------------------
(* A final sync that reports success has saved what it had to save.         *)

\* Nothing is newer than the disk, and no stamp later than the clock.
BoundsInv ==
    /\ daemon.scanned <= disk /\ store <= disk
    /\ file.ts <= clock /\ daemon.stamp.ts <= clock
    /\ \A c \in Callers : call[c].due <= disk

\* The file says 'syncing' throughout a run; while 'success' is stamped and
\* while it can be read, the last scan is in the store.
RunInv ==
    /\ daemon.pc \in {"scan", "sync", "ok", "broken"} => file.status = "syncing"
    /\ daemon.pc = "publish" => file.status = "none"
    /\ daemon.pc = "publish" /\ daemon.then = "scan" => daemon.stamp.status = "syncing"
    /\ daemon.pc = "publish" /\ daemon.stamp.status = "syncing" => daemon.then = "scan"
    /\ daemon.pc = "publish" => daemon.then \in {"scan", "resync", "baseline", "end"}
    /\ daemon.pc = "publish" /\ daemon.stamp.status = "success" => store >= daemon.scanned
    /\ daemon.pc = "ok" => store >= daemon.scanned
    /\ file.status = "success" => store >= daemon.scanned

\* The last scan saw the call's edits, or the next one will before the run ends.
Covers(c) == daemon.pc = "scan" \/ daemon.scanned >= call[c].due

\* A call that waits has found its run only in a run that covers its edits.
CallInv ==
    \A c \in Callers :
        /\ /\ call[c].pc \in {"signal", "poll"} /\ file.status = "syncing"
           /\ file.ts > call[c].trigger
           => Covers(c)
        /\ call[c].pc \in {"signal", "poll"} /\ call[c].started # NotStarted => Covers(c)

HonestInv == BoundsInv /\ RunInv /\ CallInv /\ SyncedMeansSaved

\* The workspace and the daemon's numbers, for the arithmetic below.
LEMMA Numbers ==
    ASSUME TypeOK
    PROVE  /\ disk \in Nat /\ store \in Nat /\ clock \in Nat
           /\ daemon.scanned \in Nat /\ daemon.stamp \in StatusRecord
           /\ daemon.stamp.ts \in Nat /\ file.ts \in Nat
           /\ \A c \in Callers : call[c].due \in Nat /\ call[c].trigger \in Nat
BY DEF TypeOK, DaemonType, StatusRecord, CallType

\* A run that is about to stamp leaves the calls as they are: nobody reads an
\* empty file, and what the last scan covered it still covers.
LEMMA PublishIsHonest ==
    ASSUME TypeOK, HonestInv, NEW s \in Stamps, NEW p \in {"scan", "resync", "baseline", "end"},
           Publish(s, p), UNCHANGED <<workspace, clock, call>>, daemon.pc # "scan",
           s = "syncing" <=> p = "scan",
           s = "success" => store >= daemon.scanned
    PROVE  HonestInv'
<1>1. /\ daemon'.pc = "publish" /\ daemon'.then = p
      /\ daemon'.stamp = [status |-> s, ts |-> clock] /\ daemon'.scanned = daemon.scanned
      /\ file' = Unreadable
  BY PublishEffect DEF Places
<1>2. file'.status = "none" /\ file'.ts = 0
  BY <1>1 DEF Unreadable
<1>3. UNCHANGED <<disk, store, clock, call>>
  BY DEF workspace
<1>4. BoundsInv'
  BY <1>1, <1>2, <1>3, Numbers DEF HonestInv, BoundsInv
<1>5. RunInv'
  BY <1>1, <1>2, <1>3 DEF HonestInv, RunInv
<1>6. CallInv'
  BY <1>1, <1>2, <1>3 DEF HonestInv, CallInv, Covers
<1> QED
  BY <1>3, <1>4, <1>5, <1>6 DEF HonestInv, SyncedMeansSaved

\* A step between commands that do not concern the run changes no honesty.
LEMMA MoveIsHonest ==
    ASSUME TypeOK, HonestInv, daemon'.scanned = daemon.scanned, daemon'.stamp = daemon.stamp,
           daemon'.pc \in {"dead", "test", "nap", "wait", "reset", "enter", "resync",
                           "baseline", "end"},
           daemon.pc # "scan", UNCHANGED <<disk, clock, file, call>>,
           store' >= store, store' <= disk, store' \in Nat
    PROVE  HonestInv'
<1>1. BoundsInv'
  BY Numbers DEF HonestInv, BoundsInv
<1>2. RunInv'
  BY Numbers DEF HonestInv, RunInv
<1>3. CallInv'
  BY DEF HonestInv, CallInv, Covers
<1>4. SyncedMeansSaved'
  BY Numbers DEF HonestInv, SyncedMeansSaved
<1> QED
  BY <1>1, <1>2, <1>3, <1>4 DEF HonestInv

\* What is published is what the run came to.
LEMMA PublishedIsHonest ==
    ASSUME TypeOK, HonestInv, Published
    PROVE  HonestInv'
<1>1. /\ daemon.pc = "publish" /\ daemon'.pc = daemon.then /\ file' = daemon.stamp
      /\ daemon'.scanned = daemon.scanned /\ daemon'.stamp = daemon.stamp
      /\ daemon'.then = daemon.then
  <2>1. daemon.then \in Places
    BY DEF TypeOK, DaemonType
  <2> QED
    BY <2>1, GoEffect DEF Published, At
<1>2. UNCHANGED <<disk, store, clock, call>>
  BY DEF Published, workspace
<1>3. BoundsInv'
  BY <1>1, <1>2 DEF HonestInv, BoundsInv
<1>4. RunInv'
  BY <1>1, <1>2 DEF HonestInv, RunInv
<1>5. CallInv'
  BY <1>1, <1>2 DEF HonestInv, RunInv, CallInv, Covers
<1> QED
  BY <1>2, <1>3, <1>4, <1>5 DEF HonestInv, SyncedMeansSaved

\* A run covers, from its scan on, everything that is on disk by then.
LEMMA ScanIsHonest ==
    ASSUME TypeOK, HonestInv, Scan
    PROVE  HonestInv'
<1>1. /\ daemon.pc = "scan" /\ daemon'.pc = "sync" /\ daemon'.scanned = disk
      /\ daemon'.stamp = daemon.stamp /\ UNCHANGED <<disk, store, clock, file, call>>
  BY ScanEffect DEF Scan, At, workspace
<1>2. BoundsInv' /\ \A c \in Callers : Covers(c)'
  BY <1>1, Numbers DEF HonestInv, BoundsInv, Covers
<1>3. RunInv'
  BY <1>1 DEF HonestInv, RunInv
<1> QED
  BY <1>1, <1>2, <1>3 DEF HonestInv, CallInv, SyncedMeansSaved

\* A run that ends, well or not, still covers what it scanned.
LEMMA RunIsHonest ==
    ASSUME TypeOK, HonestInv, SyncSucceeds \/ SyncFails \/ RecoverVanished
    PROVE  HonestInv'
<1>1. /\ daemon.pc \in {"sync", "broken"} /\ daemon'.pc \in {"ok", "broken", "scan"}
      /\ daemon'.scanned = daemon.scanned /\ daemon'.stamp = daemon.stamp
  BY GoEffect, RecoverEffect DEF SyncSucceeds, SyncFails, RecoverVanished, At, Places
<1>2. UNCHANGED <<disk, clock, file, call>>
  BY DEF SyncSucceeds, SyncFails, RecoverVanished, workspace
<1>3. /\ store' \in Nat /\ store' >= store /\ store' <= disk
      /\ daemon'.pc = "ok" => store' >= daemon.scanned
  <2>1. CASE SyncSucceeds
    BY <2>1, Numbers DEF SyncSucceeds, Newer, HonestInv, BoundsInv
  <2>2. CASE SyncFails
    <3>1. daemon'.pc = "broken"
      BY <2>2, GoEffect DEF SyncFails, Places
    <3> QED
      BY <2>2, <3>1, Numbers DEF SyncFails, Newer, HonestInv, BoundsInv
  <2>3. CASE RecoverVanished
    <3>1. daemon'.pc = "scan"
      BY <2>3, RecoverEffect
    <3> QED
      BY <2>3, <3>1, Numbers DEF RecoverVanished, workspace, HonestInv, BoundsInv
  <2> QED
    BY <2>1, <2>2, <2>3
<1>4. BoundsInv'
  BY <1>1, <1>2, <1>3 DEF HonestInv, BoundsInv
<1>5. RunInv'
  BY <1>1, <1>2, <1>3 DEF HonestInv, RunInv
<1>6. CallInv'
  BY <1>1, <1>2 DEF HonestInv, CallInv, Covers
<1>7. SyncedMeansSaved'
  BY <1>2, <1>3, Numbers DEF HonestInv, SyncedMeansSaved
<1> QED
  BY <1>4, <1>5, <1>6, <1>7 DEF HonestInv

\* Every step of the daemon is honest.
LEMMA DaemonIsHonest ==
    ASSUME TypeOK, HonestInv, Daemon \/ Cadence
    PROVE  HonestInv'
<1> USE DEF At
<1>0. {"test", "nap", "wait", "reset", "enter", "end"} \subseteq Places
      /\ {"syncing", "success", "failed"} \subseteq Stamps
      /\ store >= store /\ store <= disk /\ store \in Nat
  BY Numbers DEF Places, Stamps, HonestInv, BoundsInv
<1>1. CASE Published \/ Scan \/ SyncSucceeds \/ SyncFails \/ RecoverVanished
  BY <1>1, PublishedIsHonest, ScanIsHonest, RunIsHonest
<1>2. CASE InstallTrap \/ TestFlags \/ EnterWait \/ Cadence \/ ResetFlags \/ EndCycle
  BY <1>0, <1>2, GoEffect, MoveIsHonest
  DEF InstallTrap, TestFlags, EnterWait, Cadence, ResetFlags, EndCycle, workspace
<1>3. CASE Baseline
  <2>1. store' >= store /\ store' <= disk /\ store' \in Nat
    BY <1>3, Numbers DEF Baseline, HonestInv, BoundsInv
  <2> QED
    BY <1>0, <1>3, <2>1, GoEffect, MoveIsHonest DEF Baseline
<1>4. CASE BeginCycle
  BY <1>0, <1>4, PublishIsHonest DEF BeginCycle
<1>5. CASE StampSuccess
  BY <1>0, <1>5, PublishIsHonest DEF StampSuccess, HonestInv, RunInv
<1>6. CASE StampResync
  BY <1>0, <1>6, PublishIsHonest DEF StampResync
<1>7. CASE CountFailure
  <2>1. PICK p \in {"resync", "end"} : Publish("failed", p)
    BY <1>7 DEF CountFailure
  <2> QED
    BY <1>0, <1>7, <2>1, PublishIsHonest DEF CountFailure
<1> QED
  BY <1>1, <1>2, <1>3, <1>4, <1>5, <1>6, <1>7 DEF Daemon

\* A signal moves the daemon nowhere that matters to a run.
LEMMA SignalIsHonest ==
    ASSUME TypeInv, HonestInv, Sigusr1, UNCHANGED <<workspace, clock, file>>,
           \A c \in Callers : /\ call'[c].due = call[c].due
                              /\ call'[c].trigger = call[c].trigger
                              /\ call'[c].started = call[c].started
                              /\ \/ call'[c].pc = call[c].pc
                                 \/ call[c].pc = "signal" /\ call'[c].pc = "poll"
    PROVE  HonestInv'
<1>1. /\ \/ daemon'.pc = daemon.pc
         \/ daemon.pc = "boot" /\ daemon'.pc = "dead"
         \/ daemon.pc = "wait" /\ daemon'.pc = "reset"
      /\ daemon'.then = daemon.then /\ daemon'.stamp = daemon.stamp
      /\ daemon'.scanned = daemon.scanned
  BY SignalEffect
<1>2. UNCHANGED <<disk, store, clock, file>>
  BY DEF workspace
<1>3. BoundsInv'
  BY <1>1, <1>2 DEF HonestInv, BoundsInv
<1>4. RunInv'
  BY <1>1, <1>2 DEF HonestInv, RunInv
<1>5. CallInv'
  BY <1>1, <1>2 DEF HonestInv, CallInv, Covers
<1>6. SyncedMeansSaved'
  BY <1>2 DEF HonestInv, SyncedMeansSaved
<1> QED
  BY <1>3, <1>4, <1>5, <1>6 DEF HonestInv

\* A call that comes in finds no stamp later than its trigger, and a poll that
\* finds the end of its run finds what the run covers in the store.
LEMMA EndpointIsHonest ==
    ASSUME TypeInv, HonestInv, NEW c \in Callers, Endpoint(c)
    PROVE  HonestInv'
<1> USE DEF TypeInv
<1>1. CASE SignalDaemon(c)
  <2>1. \A d \in Callers : /\ call'[d].due = call[d].due
                           /\ call'[d].trigger = call[d].trigger
                           /\ call'[d].started = call[d].started
                           /\ \/ call'[d].pc = call[d].pc
                              \/ call[d].pc = "signal" /\ call'[d].pc = "poll"
    BY <1>1 DEF SignalDaemon, TypeOK, CallType
  <2> QED
    BY <1>1, <2>1, SignalIsHonest DEF SignalDaemon
<1>2. ASSUME ~SignalDaemon(c)
      PROVE  UNCHANGED <<disk, store, clock, file, daemon>>
  BY <1>2 DEF Endpoint, Call, NoDaemon, Poll, GiveUp, workspace
<1>3. CASE Call(c)
  <2>1. call' = [call EXCEPT ![c] = [pc |-> "signal", trigger |-> clock,
                                     started |-> NotStarted, due |-> disk]]
        /\ UNCHANGED <<disk, store, clock, file, daemon>>
    BY <1>3 DEF Call, workspace
  <2>2. /\ \A d \in Callers \ {c} : call'[d] = call[d]
        /\ call'[c].pc = "signal" /\ call'[c].trigger = clock
        /\ call'[c].started = NotStarted /\ call'[c].due = disk
    BY <2>1 DEF TypeOK
  <2>3. BoundsInv' /\ RunInv'
    BY <2>1, <2>2, Numbers DEF HonestInv, BoundsInv, RunInv
  <2>4. CallInv'
    BY <2>1, <2>2, Numbers DEF HonestInv, BoundsInv, CallInv, Covers
  <2>5. SyncedMeansSaved'
    BY <2>1, <2>2 DEF HonestInv, SyncedMeansSaved
  <2> QED
    BY <2>3, <2>4, <2>5 DEF HonestInv
<1>4. CASE NoDaemon(c) \/ GiveUp(c)
  <2>1. /\ \A d \in Callers \ {c} : call'[d] = call[d]
        /\ call'[c].pc \in {"unavailable", "timeout"} /\ call'[c].due = call[c].due
        /\ UNCHANGED <<disk, store, clock, file, daemon>>
    BY <1>4 DEF NoDaemon, GiveUp, TypeOK, CallType, workspace
  <2>2. BoundsInv' /\ RunInv'
    BY <2>1 DEF HonestInv, BoundsInv, RunInv
  <2>3. CallInv' /\ SyncedMeansSaved'
    BY <2>1 DEF HonestInv, CallInv, Covers, SyncedMeansSaved
  <2> QED
    BY <2>2, <2>3 DEF HonestInv
<1>5. CASE Poll(c)
  <2>1. /\ \A d \in Callers \ {c} : call'[d] = call[d]
        /\ call'[c] = Evaluate(c) /\ call[c].pc = "poll"
        /\ UNCHANGED <<disk, store, clock, file, daemon>>
    BY <1>5 DEF Poll, TypeOK, workspace
  <2>2. /\ call'[c].due = call[c].due /\ call'[c].trigger = call[c].trigger
        /\ call'[c].started # NotStarted =>
              \/ call[c].started # NotStarted
              \/ file.status = "syncing" /\ file.ts > call[c].trigger
        /\ call'[c].pc = "synced" => call[c].started # NotStarted /\ file.status = "success"
    BY <2>1 DEF Evaluate, TypeOK, CallType
  <2>3. BoundsInv' /\ RunInv'
    BY <2>1, <2>2 DEF HonestInv, BoundsInv, RunInv
  <2>4. CallInv'
    BY <2>1, <2>2 DEF HonestInv, CallInv, Covers
  <2>5. call'[c].pc = "synced" => store >= call[c].due
    BY <2>1, <2>2, Numbers DEF HonestInv, RunInv, CallInv, Covers
  <2>6. SyncedMeansSaved'
    BY <2>1, <2>2, <2>5 DEF HonestInv, SyncedMeansSaved
  <2> QED
    BY <2>3, <2>4, <2>6 DEF HonestInv
<1> QED
  BY <1>1, <1>3, <1>4, <1>5 DEF Endpoint

\* Edits and time only add to what a later call or run will see.
LEMMA WorldIsHonest ==
    ASSUME TypeOK, HonestInv, Edit \/ TimePasses \/ UNCHANGED vars
    PROVE  HonestInv'
<1>1. /\ UNCHANGED <<store, file, daemon, call>>
      /\ disk' >= disk /\ clock' >= clock /\ disk' \in Nat /\ clock' \in Nat
  BY Numbers DEF Edit, TimePasses, vars, workspace
<1>2. BoundsInv'
  BY <1>1, Numbers DEF HonestInv, BoundsInv
<1> QED
  BY <1>1, <1>2 DEF HonestInv, RunInv, CallInv, Covers, SyncedMeansSaved

\* The invariant is kept by every step.
LEMMA HonestStep ==
    ASSUME TypeInv, HonestInv, [Next]_vars
    PROVE  HonestInv'
<1>1. TypeOK
  BY DEF TypeInv
<1>2. CASE Daemon \/ Cadence
  BY <1>1, <1>2, DaemonIsHonest
<1>3. CASE BisyncTrigger
  BY <1>3, SignalIsHonest DEF BisyncTrigger
<1>4. CASE \E c \in Callers : Endpoint(c)
  BY <1>4, EndpointIsHonest
<1>5. CASE Edit \/ TimePasses \/ UNCHANGED vars
  BY <1>1, <1>5, WorldIsHonest
<1> QED
  BY <1>2, <1>3, <1>4, <1>5 DEF Next

LEMMA HonestInvHolds == Spec => []HonestInv
<1>1. Init => HonestInv
  BY DEF Init, HonestInv, BoundsInv, RunInv, CallInv, Covers, SyncedMeansSaved, Unreadable,
         NotStarted
<1>2. TypeInv /\ HonestInv /\ [Next]_vars => HonestInv'
  BY HonestStep
<1> QED
  BY <1>1, <1>2, TypeInvHolds, PTL DEF Spec

\* A final sync that reports success has every edit made before the call in the
\* object store (the two phases of evaluateFinalSync, on a monotonic clock).
THEOREM FinalSyncIsHonest == Spec => []SyncedMeansSaved
<1>1. HonestInv => SyncedMeansSaved
  BY DEF HonestInv
<1> QED
  BY <1>1, HonestInvHolds, PTL

-----------------------------------------------------------------------------
(* The promise to the caller.                                               *)

\* A step that moves no call and leaves the disk alone is an upload or nothing.
LEMMA DaemonUploads ==
    ASSUME TypeInv, HonestInv, Daemon \/ Cadence
    PROVE  store' \in store .. disk /\ UNCHANGED <<disk, call>>
<1> USE DEF TypeInv
<1>1. CASE SyncSucceeds \/ SyncFails
  BY <1>1, Numbers DEF SyncSucceeds, SyncFails, Newer, HonestInv, BoundsInv
<1>2. CASE Baseline
  BY <1>2, Numbers DEF Baseline
<1>3. CASE UNCHANGED <<workspace, call>>
  BY <1>3, Numbers DEF workspace, HonestInv, BoundsInv
<1> QED
  BY <1>1, <1>2, <1>3
     DEF Daemon, Published, InstallTrap, TestFlags, EnterWait, Cadence, ResetFlags, BeginCycle,
         Scan, StampSuccess, RecoverVanished, CountFailure, StampResync, EndCycle

\* What a call is told and what it is due, when one of its fields changes.
LEMMA CallIsMapped ==
    ASSUME TypeOK, NEW c \in Callers, NEW x \in CallType, call' = [call EXCEPT ![c] = x],
           NEW a, Answer(c)' = a
    PROVE  /\ [d \in Callers |-> Answer(d)]' = [[d \in Callers |-> Answer(d)] EXCEPT ![c] = a]
           /\ [d \in Callers |-> call[d].due]'
                 = [[d \in Callers |-> call[d].due] EXCEPT ![c] = x.due]
           /\ a = Answer(c) => UNCHANGED [d \in Callers |-> Answer(d)]
           /\ x.due = call[c].due => UNCHANGED [d \in Callers |-> call[d].due]
<1>1. call'[c] = x /\ \A d \in Callers \ {c} : call'[d] = call[d]
  BY DEF TypeOK
<1>2. \A d \in Callers : Answer(d)' = IF d = c THEN a ELSE Answer(d)
  BY <1>1 DEF Answer
<1>3. \A d \in Callers : call'[d].due = IF d = c THEN x.due ELSE call[d].due
  BY <1>1
<1>4. [d \in Callers |-> Answer(d)]' = [[d \in Callers |-> Answer(d)] EXCEPT ![c] = a]
  <2>1. [d \in Callers |-> Answer(d)]' = [d \in Callers |-> IF d = c THEN a ELSE Answer(d)]
    BY <1>2
  <2> QED
    BY <2>1
<1>5. a = Answer(c) => UNCHANGED [d \in Callers |-> Answer(d)]
  BY <1>2
<1>6. x.due = call[c].due => UNCHANGED [d \in Callers |-> call[d].due]
  BY <1>3
<1>7. [d \in Callers |-> call[d].due]'
        = [[d \in Callers |-> call[d].due] EXCEPT ![c] = x.due]
  <2>1. [d \in Callers |-> call[d].due]'
          = [d \in Callers |-> IF d = c THEN x.due ELSE call[d].due]
    BY <1>3
  <2> QED
    BY <2>1
<1> QED
  BY <1>4, <1>5, <1>6, <1>7

\* A step of the endpoint is a call, an answer or nothing; "synced" is answered with
\* the store where the call needs it.
LEMMA EndpointAnswers ==
    ASSUME TypeInv, HonestInv, HonestInv', NEW c \in Callers, Endpoint(c)
    PROVE  \/ Promise!Call(c) \/ Promise!AnswerSynced(c) \/ Promise!AnswerNot(c)
           \/ UNCHANGED Promise!vars
<1> USE DEF TypeInv
<1>0. UNCHANGED <<disk, store>> /\ call[c] \in CallType
  BY DEF Endpoint, Call, SignalDaemon, NoDaemon, Poll, GiveUp, workspace, TypeOK
<1>1. CASE Call(c)
  <2> DEFINE x == [pc |-> "signal", trigger |-> clock, started |-> NotStarted, due |-> disk]
  <2>1. x \in CallType /\ call' = [call EXCEPT ![c] = x]
    BY <1>1 DEF Call, TypeOK, CallType, NotStarted
  <2>2. Answer(c) = "none" /\ Answer(c)' = "waiting" /\ x.due = disk
    BY <1>1, <2>1 DEF Call, Answer, TypeOK
  <2>3. Promise!Call(c)
    BY <1>0, <2>1, <2>2, CallIsMapped DEF Promise!Call
  <2> QED
    BY <2>3
<1>2. CASE SignalDaemon(c)
  <2> DEFINE x == [call[c] EXCEPT !.pc = "poll"]
  <2>1. x \in CallType /\ x.due = call[c].due /\ call' = [call EXCEPT ![c] = x]
    BY <1>0, <1>2 DEF SignalDaemon, CallType
  <2>2. Answer(c) = "waiting" /\ Answer(c)' = "waiting"
    BY <1>2, <2>1 DEF SignalDaemon, Answer, TypeOK, CallType
  <2> QED
    BY <1>0, <2>1, <2>2, CallIsMapped DEF Promise!vars
<1>3. CASE NoDaemon(c) \/ GiveUp(c)
  <2>1. PICK p \in {"unavailable", "timeout"} : call' = [call EXCEPT ![c].pc = p]
    BY <1>3 DEF NoDaemon, GiveUp
  <2> DEFINE x == [call[c] EXCEPT !.pc = p]
  <2>2. x \in CallType /\ x.due = call[c].due /\ call' = [call EXCEPT ![c] = x]
    BY <1>0, <2>1 DEF CallType
  <2>3. Answer(c) = "waiting" /\ Answer(c)' = "not"
    BY <1>3, <2>2, <1>0 DEF NoDaemon, GiveUp, Answer, TypeOK, CallType
  <2>4. Promise!AnswerNot(c)
    BY <1>0, <2>2, <2>3, CallIsMapped DEF Promise!AnswerNot
  <2> QED
    BY <2>4
<1>4. CASE Poll(c)
  <2> DEFINE x == Evaluate(c)
  <2>1. call[c].pc = "poll" /\ call' = [call EXCEPT ![c] = x]
    BY <1>4 DEF Poll
  <2>2. x \in CallType /\ x.due = call[c].due /\ x.pc \in {"poll", "synced", "failed"}
    BY <1>0, <2>1, EvaluateType DEF Evaluate, CallType
  <2> HIDE DEF x
  <2>3. call'[c] = x /\ Answer(c) = "waiting"
    BY <2>1 DEF TypeOK, Answer
  <2>4. CASE x.pc = "poll"
    <3>1. Answer(c)' = "waiting"
      BY <2>3, <2>4 DEF Answer
    <3> QED
      BY <1>0, <2>1, <2>2, <2>3, <3>1, CallIsMapped DEF Promise!vars
  <2>5. CASE x.pc = "synced"
    <3>1. Answer(c)' = "synced"
      BY <2>3, <2>5 DEF Answer
    <3>2. store >= call[c].due
      BY <1>0, <2>2, <2>3, <2>5 DEF HonestInv, SyncedMeansSaved
    <3>3. Promise!AnswerSynced(c)
      BY <1>0, <2>1, <2>2, <2>3, <3>1, <3>2, CallIsMapped DEF Promise!AnswerSynced
    <3> QED
      BY <3>3
  <2>6. CASE x.pc = "failed"
    <3>1. Answer(c)' = "not"
      BY <2>3, <2>6 DEF Answer
    <3>2. Promise!AnswerNot(c)
      BY <1>0, <2>1, <2>2, <2>3, <3>1, CallIsMapped DEF Promise!AnswerNot
    <3> QED
      BY <3>2
  <2> QED
    BY <2>2, <2>4, <2>5, <2>6
<1> QED
  BY <1>1, <1>2, <1>3, <1>4 DEF Endpoint

\* Every step is a step of the promise or a stutter.
LEMMA SaveStep ==
    ASSUME TypeInv, HonestInv, HonestInv', [Next]_vars
    PROVE  [Promise!Next]_(Promise!vars)
<1>1. CASE Daemon \/ Cadence
  <2>1. Promise!Upload
    BY <1>1, DaemonUploads DEF Promise!Upload, Answer
  <2> QED
    BY <2>1 DEF Promise!Next
<1>2. CASE \E c \in Callers : Endpoint(c)
  BY <1>2, EndpointAnswers DEF Promise!Next
<1>3. CASE Edit
  <2>1. Promise!Edit
    BY <1>3 DEF Edit, Promise!Edit, Answer
  <2> QED
    BY <2>1 DEF Promise!Next
<1>4. CASE BisyncTrigger \/ TimePasses \/ UNCHANGED vars
  BY <1>4 DEF BisyncTrigger, TimePasses, vars, workspace, Promise!vars, Answer
<1> QED
  BY <1>1, <1>2, <1>3, <1>4 DEF Next

\* The daemon, the status file and the endpoint implement the promise to whoever is
\* about to kill the container, for any number of calls at once: a call is told
\* "synced" only when its edits are in the store, and the store never goes back.
THEOREM SyncIsAsPromised == Spec => SaveSpec
<1>1. Init => Promise!Init
  BY DEF Init, Promise!Init, Answer
<1>2. TypeInv /\ HonestInv /\ HonestInv' /\ [Next]_vars => [Promise!Next]_(Promise!vars)
  BY SaveStep
<1> QED
  BY <1>1, <1>2, TypeInvHolds, HonestInvHolds, PTL DEF Spec, SaveSpec, Promise!Spec

-----------------------------------------------------------------------------
(* Triggers during one cycle make one rerun.                                *)

\* A flag that is set was set by a signal since the flags were last reset.
FlagsInv == (requested \/ rerun) => signal.heard

LEMMA FlagsStep ==
    ASSUME TypeInv, FlagsInv, [Next]_vars
    PROVE  FlagsInv'
<1> USE DEF FlagsInv
<1>1. ASSUME Sigusr1 PROVE FlagsInv'
  <2>1. CASE At("boot")
    BY <1>1, <2>1 DEF Sigusr1, flags
  <2>2. CASE ~At("boot")
    BY <1>1, <2>2 DEF Sigusr1
  <2> QED
    BY <2>1, <2>2
<1>2. CASE InstallTrap \/ ResetFlags
  BY <1>2 DEF InstallTrap, ResetFlags
<1>3. CASE Scan
  <2>1. signal'.heard = signal.heard /\ UNCHANGED <<requested, rerun>>
    BY <1>3 DEF Scan, TypeInv, TypeOK, flags
  <2> QED
    BY <2>1
<1>4. CASE UNCHANGED <<flags, signal>>
  BY <1>4 DEF flags
<1>5. CASE BisyncTrigger \/ \E c \in Callers : SignalDaemon(c)
  BY <1>1, <1>5 DEF BisyncTrigger, SignalDaemon
<1> QED
  BY <1>2, <1>3, <1>4, <1>5
     DEF Next, Daemon, Published, TestFlags, EnterWait, Cadence, BeginCycle, SyncSucceeds,
         StampSuccess, SyncFails, RecoverVanished, CountFailure, StampResync, Baseline, EndCycle,
         Endpoint, Call, NoDaemon, Poll, GiveUp, Edit, TimePasses, vars

\* The loop skips its sleep only for a signal since the flags were last reset, so the
\* signals of one cycle make one rerun (start_sync_daemon).
THEOREM SignalsMakeOneRerun == Spec => OneRerun
<1>1. Init => FlagsInv
  BY DEF Init, FlagsInv
<1>2. ASSUME TypeInv, FlagsInv, [Next]_vars, At("test"), ~At("test")', daemon'.pc # "nap"
      PROVE  signal.heard
  <2>1. daemon.pc = "test" /\ daemon'.pc # "test"
    BY <1>2 DEF At
  <2>2. CASE Sigusr1
    BY <1>2, <2>1, <2>2, SignalEffect
  <2>3. CASE TestFlags
    <3>1. ~(requested \/ rerun) => daemon'.pc = "nap"
      BY <1>2, <2>3, GoEffect DEF TestFlags, TypeInv, Places
    <3> QED
      BY <1>2, <3>1 DEF FlagsInv
  <2>4. CASE daemon' = daemon
    BY <2>1, <2>4
  <2> QED
    BY <1>2, <2>1, <2>2, <2>3, <2>4
       DEF At, Next, Daemon, Published, InstallTrap, EnterWait, Cadence, ResetFlags, BeginCycle,
           Scan, SyncSucceeds, StampSuccess, SyncFails, RecoverVanished, CountFailure,
           StampResync, Baseline, EndCycle, BisyncTrigger, Endpoint, Call, SignalDaemon,
           NoDaemon, Poll, GiveUp, Edit, TimePasses, vars
<1>3. TypeInv /\ FlagsInv /\ [Next]_vars
        => [At("test") /\ ~At("test")' /\ daemon'.pc # "nap" => signal.heard]_vars
  BY <1>2
<1>4. TypeInv /\ FlagsInv /\ [Next]_vars => FlagsInv'
  BY FlagsStep
<1> QED
  BY <1>1, <1>3, <1>4, TypeInvHolds, PTL DEF Spec, OneRerun

-----------------------------------------------------------------------------
(* No trigger is forgotten.                                                 *)

\* The cycle that is about to scan, and one that will end in a test of the flags.
BeforeScan == \/ daemon.pc \in {"reset", "enter", "scan"}
              \/ daemon.pc = "publish" /\ daemon.then = "scan"
AfterScan == \/ daemon.pc \in {"sync", "ok", "broken", "resync", "baseline", "end", "test"}
             \/ daemon.pc = "publish" /\ daemon.then # "scan"

\* A trigger is remembered until a scan has seen its edits: the scan is ahead in this
\* cycle, or a flag is set and the loop comes to its test.  This is what TriggerIsServed
\* rests on; asleep, dead or booting, the daemon owes nothing but to a signal that
\* came between the test and the wait.
TriggerIsRemembered ==
    signal.owed = "yes" => BeforeScan \/ (AfterScan /\ (requested \/ rerun))

\* Before the trap is there nothing is owed: a signal then ends the daemon.
OwedInv == TriggerIsRemembered /\ (At("boot") => signal.owed = "no")

LEMMA OwedStep ==
    ASSUME TypeInv, RunInv, OwedInv, [Next]_vars
    PROVE  OwedInv'
<1> USE DEF OwedInv, TriggerIsRemembered, BeforeScan, AfterScan, At
<1>1. ASSUME Sigusr1, ~At("dead") PROVE OwedInv'
  <2>1. CASE At("boot")
    BY <1>1, <2>1 DEF Sigusr1, Go, TypeInv, TypeOK, DaemonType
  <2>2. CASE ~At("boot")
    <3>1. requested' \/ rerun'
      BY <1>1, <2>2 DEF Sigusr1, TypeInv, TypeOK
    <3>2. daemon'.pc = (IF At("wait") THEN "reset" ELSE daemon.pc) /\ daemon'.then = daemon.then
      BY <1>1, <2>2 DEF Sigusr1, Go, TypeInv, TypeOK, DaemonType
    <3>3. signal'.owed = IF At("nap") THEN "nap" ELSE "yes"
      BY <1>1, <2>2 DEF Sigusr1
    <3>4. daemon.pc \in Places
      BY DEF TypeInv, TypeOK, DaemonType
    <3> QED
      BY <1>1, <2>2, <3>1, <3>2, <3>3, <3>4 DEF Places
  <2> QED
    BY <2>1, <2>2
<1>2. CASE InstallTrap
  BY <1>2, GoEffect DEF InstallTrap, TypeInv, Places
<1>3. CASE TestFlags
  <2>1. daemon.pc = "test" /\ UNCHANGED <<requested, rerun, signal>>
    BY <1>3 DEF TestFlags, flags
  <2>2. daemon'.pc = IF requested \/ rerun THEN "reset" ELSE "nap"
    BY <1>3, GoEffect DEF TestFlags, TypeInv, Places
  <2> QED
    BY <2>1, <2>2
<1>4. CASE EnterWait \/ Cadence
  <2>1. daemon.pc \in {"nap", "wait"} /\ daemon'.pc \in {"wait", "reset"} /\ signal' = signal
    BY <1>4, GoEffect DEF EnterWait, Cadence, TypeInv, Places
  <2> QED
    BY <2>1
<1>5. CASE ResetFlags
  <2>1. daemon'.pc = "enter"
    BY <1>5, GoEffect DEF ResetFlags, TypeInv, Places
  <2> QED
    BY <2>1
<1>6. CASE BeginCycle
  <2>1. daemon'.pc = "publish" /\ daemon'.then = "scan"
    BY <1>6 DEF BeginCycle, Publish, TypeInv, TypeOK, DaemonType
  <2> QED
    BY <2>1
<1>7. CASE Scan
  <2>1. signal'.owed = "no"
    BY <1>7 DEF Scan, TypeInv, TypeOK
  <2> QED
    BY <2>1
<1>8. CASE RecoverVanished
  <2>1. daemon'.pc = "scan"
    BY <1>8 DEF RecoverVanished, TypeInv, TypeOK, DaemonType
  <2> QED
    BY <2>1
<1>9. CASE SyncSucceeds \/ SyncFails \/ Baseline \/ EndCycle
  <2>1. /\ daemon.pc \in {"sync", "baseline", "end"}
        /\ daemon'.pc \in {"ok", "broken", "end", "test"}
        /\ UNCHANGED <<requested, rerun, signal>>
    BY <1>9, GoEffect DEF SyncSucceeds, SyncFails, Baseline, EndCycle, TypeInv, Places, flags
  <2> QED
    BY <2>1
<1>10. CASE StampSuccess \/ CountFailure \/ StampResync
  <2>1. /\ daemon.pc \in {"ok", "broken", "resync"}
        /\ daemon'.pc = "publish" /\ daemon'.then \in {"end", "resync", "baseline"}
        /\ UNCHANGED <<requested, rerun, signal>>
    BY <1>10 DEF StampSuccess, CountFailure, StampResync, Publish, TypeInv, TypeOK, DaemonType,
                 flags
  <2> QED
    BY <2>1
<1>11. CASE Published
  <2>1. /\ daemon.pc = "publish" /\ daemon'.pc = daemon.then
        /\ UNCHANGED <<requested, rerun, signal>>
    BY <1>11, GoEffect DEF Published, TypeInv, TypeOK, DaemonType, flags
  <2>2. daemon.then \in {"scan", "resync", "baseline", "end"}
    BY <2>1 DEF RunInv
  <2> QED
    BY <2>1, <2>2
<1>12. CASE BisyncTrigger \/ \E c \in Callers : SignalDaemon(c)
  BY <1>1, <1>12 DEF BisyncTrigger, SignalDaemon
<1>13. CASE UNCHANGED <<daemon, flags, signal>>
  BY <1>13 DEF flags
<1> QED
  BY <1>2, <1>3, <1>4, <1>5, <1>6, <1>7, <1>8, <1>9, <1>10, <1>11, <1>12, <1>13
     DEF Next, Daemon, Endpoint, Call, NoDaemon, Poll, GiveUp, Edit, TimePasses, vars

\* Whatever a trigger meets, a running cycle, a failed one, a resync or the test of the
\* flags, it is not forgotten (start_sync_daemon resets the flags before its scan).
THEOREM NoTriggerIsForgotten == Spec => []TriggerIsRemembered
<1>1. Init => OwedInv
  BY DEF Init, OwedInv, TriggerIsRemembered, At
<1>2. TypeInv /\ HonestInv /\ OwedInv /\ [Next]_vars => OwedInv'
  BY OwedStep DEF HonestInv
<1> QED
  BY <1>1, <1>2, TypeInvHolds, HonestInvHolds, PTL DEF Spec, OwedInv

=============================================================================
