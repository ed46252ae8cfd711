---------------------- MODULE SessionLifecycle_proofs ----------------------
(***************************************************************************)
(* Proofs about SessionLifecycle, for any set of requests, operations and   *)
(* events and any bounds.                                                   *)
(*                                                                         *)
(* Type correctness is proved part by part: for each part of TypeOK one     *)
(* lemma says that every step keeps it, with one case for each action that  *)
(* disturbs the part and one for all those that leave its variables alone.  *)
(* Two safety properties follow: collectMetrics gives up on a container     *)
(* only after a streak, and a teardown is silent once destroy() has begun.  *)
(* Then the session is shown to implement SharedRecord: whoever writes the  *)
(* KV record found it before, and writes once.  The last part proves the    *)
(* safety that the liveness properties rest on: what will put the record    *)
(* right stays in place until it has.                                       *)
(***************************************************************************)
EXTENDS SessionLifecycle, TLAPS

-----------------------------------------------------------------------------
(* Values.                                                                  *)

\* The values the hooks and the tick take stay within their types.
LEMMA HandlerValues ==
    /\ \A p \in StartPcs, k \in KvStatus : [pc |-> p, snap |-> k] \in [pc : StartPcs, snap :
        KvStatus]
    /\ \A p \in StartPcs : [Idle EXCEPT !.pc = p] \in [pc : StartPcs, snap : KvStatus]
    /\ \A p \in TickPcs : [Idle EXCEPT !.pc = p] \in [pc : TickPcs, snap : KvStatus]
    /\ Idle \in [pc : StartPcs, snap : KvStatus]
    /\ Idle \in [pc : TickPcs, snap : KvStatus]
BY DEF Idle, StartPcs, TickPcs, KvStatus, Record

\* A request that starts over, or begins an operation, is a request.
LEMMA FreshRequest ==
    /\ \A p \in ReqPcs : [Fresh EXCEPT !.pc = p] \in RequestType
    /\ \A op \in Ops, p \in ReqPcs, k \in KvStatus :
          [Fresh EXCEPT !.op = op, !.pc = p, !.snap = k] \in RequestType
BY DEF RequestType, Fresh, NoOp, KvStatus, Record

\* The first step of every operation is a step of a request.
LEMMA FirstSteps == \A op \in Ops : FirstStep[op] \in ReqPcs
BY OpsAssumption DEF OpsAssumption, AllOps, FirstStep, ReqPcs

\* A reset of the DO (CutOff) leaves every request a request.
LEMMA CutOffType == \A q \in RequestType : CutOff(q) \in RequestType
<1> SUFFICES ASSUME NEW q \in RequestType PROVE CutOff(q) \in RequestType
  OBVIOUS
<1>1. [q EXCEPT !.pc = "put", !.live = TRUE] \in RequestType
  BY DEF RequestType, ReqPcs
<1>2. [Fresh EXCEPT !.pc = "remove"] \in RequestType
  BY FreshRequest DEF ReqPcs
<1>3. [Fresh EXCEPT !.pc = "done"] \in RequestType /\ [Fresh EXCEPT !.pc = "rollbackGet"] \in
      RequestType
  BY FreshRequest DEF ReqPcs
<1> QED
  BY <1>1, <1>2, <1>3 DEF CutOff

\* Writing one field or one record of a request keeps the map of requests.
LEMMA RequestValues ==
    ASSUME req \in [Requests -> RequestType], NEW r \in Requests
    PROVE  /\ \A p \in ReqPcs : [req EXCEPT ![r].pc = p] \in [Requests -> RequestType]
           /\ \A p \in ReqPcs : [req EXCEPT ![r] = [Fresh EXCEPT !.pc = p]] \in [Requests ->
               RequestType]
           /\ \A p \in ReqPcs, b \in BOOLEAN :
                 /\ [req EXCEPT ![r].pc = p, ![r].need = b] \in [Requests -> RequestType]
                 /\ [req EXCEPT ![r].pc = p, ![r].live = b] \in [Requests -> RequestType]
<1>1. \A p \in ReqPcs : [req EXCEPT ![r].pc = p] \in [Requests -> RequestType]
  BY DEF RequestType
<1>2. \A p \in ReqPcs : [req EXCEPT ![r] = [Fresh EXCEPT !.pc = p]] \in [Requests -> RequestType]
  BY FreshRequest
<1>3. ASSUME NEW p \in ReqPcs, NEW b \in BOOLEAN
      PROVE  /\ [req EXCEPT ![r].pc = p, ![r].need = b] \in [Requests -> RequestType]
             /\ [req EXCEPT ![r].pc = p, ![r].live = b] \in [Requests -> RequestType]
  <2>1. /\ [req[r] EXCEPT !.pc = p, !.need = b] \in RequestType
        /\ [req[r] EXCEPT !.pc = p, !.live = b] \in RequestType
    BY DEF RequestType
  <2>2. [req EXCEPT ![r].pc = p, ![r].need = b]
          = [req EXCEPT ![r] = [req[r] EXCEPT !.pc = p, !.need = b]]
    BY DEF RequestType
  <2>3. [req EXCEPT ![r].pc = p, ![r].live = b]
          = [req EXCEPT ![r] = [req[r] EXCEPT !.pc = p, !.live = b]]
    BY DEF RequestType
  <2> QED
    BY <2>1, <2>2, <2>3
<1> QED
  BY <1>1, <1>2, <1>3

\* Go and End, by which a request moves on, keep the map of requests.
LEMMA GoAndEnd ==
    ASSUME req \in [Requests -> RequestType], NEW r \in Requests, NEW p \in ReqPcs,
           Go(r, p) \/ End(r, p)
    PROVE  req' \in [Requests -> RequestType]
<1>1. CASE Go(r, p)
  BY <1>1 DEF Go, RequestType
<1>2. CASE End(r, p)
  BY <1>2, FreshRequest DEF End
<1> QED
  BY <1>1, <1>2

\* No rows and one row are within the bound on schedule rows.
LEMMA RowCounts == 0 \in 0..MaxAlarms /\ 1 \in 0..MaxAlarms
BY DEF MaxAlarms

-----------------------------------------------------------------------------
(* Type correctness.                                                        *)

\* The initial state has the right types.
LEMMA InitTypeOK == Init => TypeOK
<1> SUFFICES ASSUME Init PROVE TypeOK
  OBVIOUS
<1>1. ProcessTypeOK
  BY DEF Init, ProcessTypeOK, KvStatus, Record
<1>2. StorageTypeOK
  BY RowCounts DEF Init, StorageTypeOK, Window
<1>3. HandlerTypeOK
  BY HandlerValues DEF Init, HandlerTypeOK, StopPcs
<1>4. req \in [Requests -> RequestType]
  BY DEF Init, Fresh, NoOp, RequestType, ReqPcs, KvStatus, Record
<1>5. HistoryTypeOK
  BY BoundsAssumption DEF BoundsAssumption, Init, HistoryTypeOK
<1> QED
  BY <1>1, <1>2, <1>3, <1>4, <1>5 DEF TypeOK

\* Every step keeps the types of the record and of the container's state.
LEMMA ProcessStep ==
    ASSUME TypeOK, [Next]_vars
    PROVE  ProcessTypeOK'
<1>1. CASE OnStartRunning
  BY <1>1 DEF TypeOK, OnStartRunning, ProcessTypeOK, HandlerTypeOK, RequestType, KvStatus,
      Record, process, storage, rows, hooks
<1>2. CASE OnStartActive
  BY <1>2 DEF TypeOK, OnStartActive, ProcessTypeOK, HandlerTypeOK, RequestType, KvStatus,
      Record, process, storage, rows, hooks
<1>3. CASE OnStopBegin
  BY <1>3 DEF TypeOK, OnStopBegin, DropRowsThenArm, ProcessTypeOK, HandlerTypeOK, RequestType,
      KvStatus, Record, process, storage, rows, hooks
<1>4. CASE OnStopWrite
  BY <1>4 DEF TypeOK, OnStopWrite, ProcessTypeOK, HandlerTypeOK, RequestType, KvStatus, Record,
      process, storage, rows, hooks
<1>5. CASE OnError
  BY <1>5 DEF TypeOK, OnError, SeesDown, Spend, OpenWindow, SawDown, Plus1, DropRowsThenArm,
      ProcessTypeOK, HandlerTypeOK, RequestType, KvStatus, Record, process, storage, rows, hooks
<1>6. CASE OnErrorAlive
  BY <1>6 DEF TypeOK, OnErrorAlive, SeesUp, ProcessTypeOK, HandlerTypeOK, RequestType, KvStatus,
      Record, process, storage, rows, hooks
<1>7. CASE TickStopped
  BY <1>7 DEF TypeOK, TickStopped, ProcessTypeOK, HandlerTypeOK, RequestType, KvStatus, Record,
      process, storage, rows, hooks
<1>8. CASE TickWrite
  BY <1>8 DEF TypeOK, TickWrite, ProcessTypeOK, HandlerTypeOK, RequestType, KvStatus, Record,
      process, storage, rows, hooks
<1>9. CASE TickStop
  BY <1>9 DEF TypeOK, TickStop, ProcessTypeOK, HandlerTypeOK, RequestType, KvStatus, Record,
      process, storage, rows, hooks
<1>10. CASE Create
  BY <1>10 DEF TypeOK, Create, Others, ProcessTypeOK, HandlerTypeOK, RequestType, KvStatus,
      Record, process, storage, rows, hooks
<1>11. CASE \E r \in Requests : PutRunning(r)
  BY <1>11 DEF TypeOK, PutRunning, End, Others, ProcessTypeOK, HandlerTypeOK, RequestType,
      KvStatus, Record, process, storage, rows, hooks
<1>12. CASE \E r \in Requests : Boot(r)
  <2>1. PICK r \in Requests : Boot(r)
    BY <1>12
  <2>2. kv' = kv /\ term' = term /\ notice' = notice /\ up' \in BOOLEAN /\ (run' = run \/ run' =
      run + 1)
    BY <2>1 DEF Boot, process, TypeOK, ProcessTypeOK
  <2> QED
    BY <2>2 DEF TypeOK, ProcessTypeOK
<1>13. CASE \E r \in Requests : RollbackPut(r)
  BY <1>13 DEF TypeOK, RollbackPut, End, Others, ProcessTypeOK, HandlerTypeOK, RequestType,
      KvStatus, Record, process, storage, rows, hooks
<1>14. CASE \E r \in Requests : MarkStopped(r)
  BY <1>14 DEF TypeOK, MarkStopped, Go, Others, ProcessTypeOK, HandlerTypeOK, RequestType,
      KvStatus, Record, process, storage, rows, hooks
<1>15. CASE \E r \in Requests : Remove(r)
  BY <1>15 DEF TypeOK, Remove, End, Others, ProcessTypeOK, HandlerTypeOK, RequestType, KvStatus,
      Record, process, storage, rows, hooks
<1>16. CASE \E r \in Requests : Touch(r)
  BY <1>16 DEF TypeOK, Touch, At, End, Others, ProcessTypeOK, HandlerTypeOK, RequestType,
      KvStatus, Record, process, storage, rows, hooks
<1>17. CASE \E r \in Requests : DestroyDrained(r)
  BY <1>17 DEF TypeOK, DestroyDrained, Go, SeesUp, SeesDown, Spend, ProcessTypeOK,
      HandlerTypeOK, RequestType, KvStatus, Record, process, storage, rows, hooks
<1>18. CASE \E r \in Requests : SuperDestroy(r)
  BY <1>18 DEF TypeOK, SuperDestroy, Go, End, Exit, ProcessTypeOK, HandlerTypeOK, RequestType,
      KvStatus, Record, process, storage, rows, hooks
<1>19. CASE GracefulExit
  BY <1>19 DEF TypeOK, GracefulExit, Exit, ProcessTypeOK, HandlerTypeOK, RequestType, KvStatus,
      Record, process, storage, rows, hooks
<1>20. CASE Crash
  BY <1>20 DEF TypeOK, Crash, Exit, Spend, ProcessTypeOK, HandlerTypeOK, RequestType, KvStatus,
      Record, process, storage, rows, hooks
<1>21. CASE Evict
  BY <1>21 DEF TypeOK, Evict, Spend, OneMore, ProcessTypeOK, HandlerTypeOK, RequestType,
      KvStatus, Record, process, storage, rows, hooks
<1>22. CASE UNCHANGED <<kv, process>>
  BY <1>22 DEF TypeOK, ProcessTypeOK, HandlerTypeOK, process, storage, rows, hooks
<1>23. UNCHANGED vars => UNCHANGED <<kv, process>>
  BY DEF vars
<1>24. OnStartMark \/ OnStartRead \/ OnStartArm => UNCHANGED <<kv, process>>
  BY DEF OnStartMark, OnStartRead, OnStartArm, process, storage, rows, hooks
<1>25. TickUnconfirmed \/ TickConfirm \/ TickRunning \/ TickIdle \/ TickNotIdle \/ TickNoHealth
      \/ TickZombie \/ TickHealth \/ TickRead \/ TickQuota \/ TickPing \/ TickRearm \/ TickLast
      => UNCHANGED <<kv, process>>
  BY DEF TickUnconfirmed, TickConfirm, TickRunning, TickIdle, TickNotIdle, TickNoHealth,
      TickZombie, TickHealth, TickRead, TickQuota, TickPing, TickRearm, TickLast, process,
      storage, rows, hooks
<1>26. ASSUME NEW r \in Requests, (\E op \in Ops : Begin(r, op)) \/ GetBucketName(r) \/
      SetBucketName(r) \/ GetState(r) \/ PortsReady(r) \/ BootFails(r) \/ RollbackGet(r) \/
      DestroyBegin(r) \/ DestroyPolled(r)
      PROVE  UNCHANGED <<kv, process>>
  BY <1>26 DEF Begin, GetBucketName, SetBucketName, GetState, PortsReady, BootFails,
      RollbackGet, DestroyBegin, DestroyPolled, Others, process, storage, rows, hooks
<1>27. WindowElapses => UNCHANGED <<kv, process>>
  BY DEF WindowElapses, process, storage, rows, hooks
<1> QED
  BY <1>1, <1>2, <1>3, <1>4, <1>5, <1>6, <1>7, <1>8, <1>9, <1>10, <1>11, <1>12, <1>13, <1>14,
      <1>15, <1>16, <1>17, <1>18, <1>19, <1>20, <1>21, <1>22, <1>23, <1>24, <1>25, <1>26, <1>27
     DEF Next, DoSteps, CollectMetrics, RequestSteps, StartSteps, Destroy

\* Every step keeps the types of the DO's storage.
LEMMA StorageStep ==
    ASSUME TypeOK, [Next]_vars
    PROVE  StorageTypeOK'
<1>1. CASE OnStartMark
  BY <1>1 DEF TypeOK, OnStartMark, StorageTypeOK, Window, MaxAlarms, process, storage, rows, hooks
<1>2. CASE OnStartArm
  BY <1>2, RowCounts DEF TypeOK, StorageTypeOK, OnStartArm, DropRowsThenArm
<1>3. CASE OnStopBegin
  BY <1>3, RowCounts DEF TypeOK, StorageTypeOK, OnStopBegin, DropRowsThenArm
<1>4. CASE OnError
  BY <1>4, RowCounts DEF TypeOK, StorageTypeOK, OnError, OpenWindow, Window, DropRowsThenArm
<1>5. CASE TickUnconfirmed
  BY <1>5 DEF TypeOK, TickUnconfirmed, Fire, SeesDown, Spend, OpenWindow, SawDown, Plus1,
      StorageTypeOK, Window, MaxAlarms, process, storage, rows, hooks
<1>6. CASE TickConfirm
  BY <1>6 DEF TypeOK, TickConfirm, Fire, SeesDown, Spend, SawDown, Plus1, TakeRow,
      StorageTypeOK, Window, MaxAlarms, process, storage, rows, hooks
<1>7. CASE TickRunning
  BY <1>7 DEF TypeOK, TickRunning, Fire, SeesUp, TakeRow, StorageTypeOK, Window, MaxAlarms,
      process, storage, rows, hooks
<1>8. CASE TickRearm
  BY <1>8 DEF TypeOK, TickRearm, SeesUp, Arm, OneMore, StorageTypeOK, Window, MaxAlarms,
      process, storage, rows, hooks
<1>9. CASE \E r \in Requests : SetBucketName(r)
  BY <1>9 DEF TypeOK, SetBucketName, Go, StorageTypeOK, Window, MaxAlarms, process, storage,
      rows, hooks
<1>10. CASE \E r \in Requests : DestroyBegin(r)
  BY <1>10, RowCounts DEF TypeOK, StorageTypeOK, DestroyBegin, DropRowsThenArm
<1>11. CASE WindowElapses
  BY <1>11 DEF TypeOK, WindowElapses, StorageTypeOK, Window, MaxAlarms, process, storage, rows,
      hooks
<1>12. CASE Evict
  BY <1>12 DEF TypeOK, Evict, Spend, OneMore, StorageTypeOK, Window, MaxAlarms, process,
      storage, rows, hooks
<1>13. CASE UNCHANGED <<storage>>
  BY <1>13 DEF TypeOK, StorageTypeOK, process, storage, rows, hooks
<1>14. UNCHANGED vars => UNCHANGED <<storage>>
  BY DEF vars
<1>15. OnStartRunning \/ OnStartRead \/ OnStartActive \/ OnStopWrite \/ OnErrorAlive =>
      UNCHANGED <<storage>>
  BY DEF OnStartRunning, OnStartRead, OnStartActive, OnStopWrite, OnErrorAlive, process,
      storage, rows, hooks
<1>16. TickStopped \/ TickIdle \/ TickNotIdle \/ TickNoHealth \/ TickZombie \/ TickHealth \/
      TickRead \/ TickWrite \/ TickQuota \/ TickPing \/ TickStop \/ TickLast => UNCHANGED
      <<storage>>
  BY DEF TickStopped, TickIdle, TickNotIdle, TickNoHealth, TickZombie, TickHealth, TickRead,
      TickWrite, TickQuota, TickPing, TickStop, TickLast, process, storage, rows, hooks
<1>17. ASSUME NEW r \in Requests, (\E op \in Ops : Begin(r, op)) \/ GetBucketName(r) \/
      GetState(r) \/ PutRunning(r) \/ Boot(r) \/ PortsReady(r) \/ BootFails(r) \/ RollbackGet(r)
      \/ RollbackPut(r) \/ MarkStopped(r) \/ Remove(r) \/ Touch(r) \/ DestroyDrained(r) \/
      DestroyPolled(r) \/ SuperDestroy(r)
      PROVE  UNCHANGED <<storage>>
  BY <1>17 DEF Begin, GetBucketName, GetState, PutRunning, Boot, PortsReady, BootFails,
      RollbackGet, RollbackPut, MarkStopped, Remove, Touch, DestroyDrained, DestroyPolled,
      SuperDestroy, Others, process, storage, rows, hooks
<1>18. Create \/ GracefulExit \/ Crash => UNCHANGED <<storage>>
  BY DEF Create, GracefulExit, Crash, Others, process, storage, rows, hooks
<1> QED
  BY <1>1, <1>2, <1>3, <1>4, <1>5, <1>6, <1>7, <1>8, <1>9, <1>10, <1>11, <1>12, <1>13, <1>14,
      <1>15, <1>16, <1>17, <1>18
     DEF Next, DoSteps, CollectMetrics, RequestSteps, StartSteps, Destroy

\* Every step keeps the types of the DO's handlers (onStart, onStop, the tick).
LEMMA HandlerStep ==
    ASSUME TypeOK, [Next]_vars
    PROVE  HandlerTypeOK'
<1>1. CASE OnStartMark
  BY <1>1, HandlerValues DEF TypeOK, OnStartMark, HandlerTypeOK, ProcessTypeOK, StartPcs,
      StopPcs, TickPcs, KvStatus, Record, process, storage, rows, hooks
<1>2. CASE OnStartRunning
  BY <1>2, HandlerValues DEF TypeOK, OnStartRunning, HandlerTypeOK, ProcessTypeOK, StartPcs,
      StopPcs, TickPcs, KvStatus, Record, process, storage, rows, hooks
<1>3. CASE OnStartRead
  BY <1>3, HandlerValues DEF TypeOK, OnStartRead, HandlerTypeOK, ProcessTypeOK, StartPcs,
      StopPcs, TickPcs, KvStatus, Record, process, storage, rows, hooks
<1>4. CASE OnStartActive
  BY <1>4, HandlerValues DEF TypeOK, OnStartActive, HandlerTypeOK, ProcessTypeOK, StartPcs,
      StopPcs, TickPcs, KvStatus, Record, process, storage, rows, hooks
<1>5. CASE OnStartArm
  BY <1>5, HandlerValues DEF TypeOK, OnStartArm, DropRowsThenArm, HandlerTypeOK, ProcessTypeOK,
      StartPcs, StopPcs, TickPcs, KvStatus, Record, process, storage, rows, hooks
<1>6. CASE OnStopBegin
  BY <1>6, HandlerValues DEF TypeOK, OnStopBegin, DropRowsThenArm, HandlerTypeOK, ProcessTypeOK,
      StartPcs, StopPcs, TickPcs, KvStatus, Record, process, storage, rows, hooks
<1>7. CASE OnStopWrite
  BY <1>7, HandlerValues DEF TypeOK, OnStopWrite, HandlerTypeOK, ProcessTypeOK, StartPcs,
      StopPcs, TickPcs, KvStatus, Record, process, storage, rows, hooks
<1>8. CASE TickConfirm
  BY <1>8, HandlerValues DEF TypeOK, TickConfirm, Fire, SeesDown, Spend, SawDown, Plus1,
      TakeRow, HandlerTypeOK, ProcessTypeOK, StartPcs, StopPcs, TickPcs, KvStatus, Record,
      process, storage, rows, hooks
<1>9. CASE TickRunning
  BY <1>9, HandlerValues DEF TypeOK, TickRunning, Fire, SeesUp, TakeRow, HandlerTypeOK,
      ProcessTypeOK, StartPcs, StopPcs, TickPcs, KvStatus, Record, process, storage, rows, hooks
<1>10. CASE TickStopped
  BY <1>10, HandlerValues DEF TypeOK, TickStopped, HandlerTypeOK, ProcessTypeOK, StartPcs,
      StopPcs, TickPcs, KvStatus, Record, process, storage, rows, hooks
<1>11. CASE TickIdle
  BY <1>11, HandlerValues DEF TypeOK, TickIdle, Spend, HandlerTypeOK, ProcessTypeOK, StartPcs,
      StopPcs, TickPcs, KvStatus, Record, process, storage, rows, hooks
<1>12. CASE TickNotIdle
  BY <1>12, HandlerValues DEF TypeOK, TickNotIdle, HandlerTypeOK, ProcessTypeOK, StartPcs,
      StopPcs, TickPcs, KvStatus, Record, process, storage, rows, hooks
<1>13. CASE TickNoHealth
  BY <1>13, HandlerValues DEF TypeOK, TickNoHealth, SeesDown, Spend, HandlerTypeOK,
      ProcessTypeOK, StartPcs, StopPcs, TickPcs, KvStatus, Record, process, storage, rows, hooks
<1>14. CASE TickZombie
  BY <1>14, HandlerValues DEF TypeOK, TickZombie, HandlerTypeOK, ProcessTypeOK, StartPcs,
      StopPcs, TickPcs, KvStatus, Record, process, storage, rows, hooks
<1>15. CASE TickHealth
  BY <1>15, HandlerValues DEF TypeOK, TickHealth, SeesUp, HandlerTypeOK, ProcessTypeOK,
      StartPcs, StopPcs, TickPcs, KvStatus, Record, process, storage, rows, hooks
<1>16. CASE TickRead
  BY <1>16, HandlerValues DEF TypeOK, TickRead, Exists, Record, HandlerTypeOK, ProcessTypeOK,
      StartPcs, StopPcs, TickPcs, KvStatus, process, storage, rows, hooks
<1>17. CASE TickWrite
  BY <1>17, HandlerValues DEF TypeOK, TickWrite, HandlerTypeOK, ProcessTypeOK, StartPcs,
      StopPcs, TickPcs, KvStatus, Record, process, storage, rows, hooks
<1>18. CASE TickQuota
  BY <1>18, HandlerValues DEF TypeOK, TickQuota, Spend, HandlerTypeOK, ProcessTypeOK, StartPcs,
      StopPcs, TickPcs, KvStatus, Record, process, storage, rows, hooks
<1>19. CASE TickPing
  BY <1>19, HandlerValues DEF TypeOK, TickPing, HandlerTypeOK, ProcessTypeOK, StartPcs, StopPcs,
      TickPcs, KvStatus, Record, process, storage, rows, hooks
<1>20. CASE TickStop
  BY <1>20, HandlerValues DEF TypeOK, TickStop, HandlerTypeOK, ProcessTypeOK, StartPcs, StopPcs,
      TickPcs, KvStatus, Record, process, storage, rows, hooks
<1>21. CASE TickRearm
  BY <1>21, HandlerValues DEF TypeOK, TickRearm, SeesUp, Arm, OneMore, HandlerTypeOK,
      ProcessTypeOK, StartPcs, StopPcs, TickPcs, KvStatus, Record, process, storage, rows, hooks
<1>22. CASE TickLast
  BY <1>22, HandlerValues DEF TypeOK, TickLast, SeesDown, Spend, HandlerTypeOK, ProcessTypeOK,
      StartPcs, StopPcs, TickPcs, KvStatus, Record, process, storage, rows, hooks
<1>23. CASE \E r \in Requests : PortsReady(r)
  BY <1>23, HandlerValues DEF TypeOK, PortsReady, End, HandlerTypeOK, ProcessTypeOK, StartPcs,
      StopPcs, TickPcs, KvStatus, Record, process, storage, rows, hooks
<1>24. CASE Evict
  BY <1>24, HandlerValues DEF TypeOK, Evict, Spend, OneMore, HandlerTypeOK, ProcessTypeOK,
      StartPcs, StopPcs, TickPcs, KvStatus, Record, process, storage, rows, hooks
<1>25. CASE UNCHANGED <<hooks, tick>>
  BY <1>25 DEF TypeOK, HandlerTypeOK, ProcessTypeOK, process, storage, rows, hooks
<1>26. UNCHANGED vars => UNCHANGED <<hooks, tick>>
  BY DEF vars
<1>27. OnError \/ OnErrorAlive => UNCHANGED <<hooks, tick>>
  BY DEF OnError, OnErrorAlive, process, storage, rows, hooks
<1>28. TickUnconfirmed => UNCHANGED <<hooks, tick>>
  BY DEF TickUnconfirmed, process, storage, rows, hooks
<1>29. ASSUME NEW r \in Requests, (\E op \in Ops : Begin(r, op)) \/ GetBucketName(r) \/
      SetBucketName(r) \/ GetState(r) \/ PutRunning(r) \/ Boot(r) \/ BootFails(r) \/
      RollbackGet(r) \/ RollbackPut(r) \/ MarkStopped(r) \/ Remove(r) \/ Touch(r) \/
      DestroyBegin(r) \/ DestroyDrained(r) \/ DestroyPolled(r) \/ SuperDestroy(r)
      PROVE  UNCHANGED <<hooks, tick>>
  BY <1>29 DEF Begin, GetBucketName, SetBucketName, GetState, PutRunning, Boot, BootFails,
      RollbackGet, RollbackPut, MarkStopped, Remove, Touch, DestroyBegin, DestroyDrained,
      DestroyPolled, SuperDestroy, Others, process, storage, rows, hooks
<1>30. Create \/ GracefulExit \/ Crash \/ WindowElapses => UNCHANGED <<hooks, tick>>
  BY DEF Create, GracefulExit, Crash, WindowElapses, Others, process, storage, rows, hooks
<1> QED
  BY <1>1, <1>2, <1>3, <1>4, <1>5, <1>6, <1>7, <1>8, <1>9, <1>10, <1>11, <1>12, <1>13, <1>14,
      <1>15, <1>16, <1>17, <1>18, <1>19, <1>20, <1>21, <1>22, <1>23, <1>24, <1>25, <1>26, <1>27,
      <1>28, <1>29, <1>30
     DEF Next, DoSteps, CollectMetrics, RequestSteps, StartSteps, Destroy

\* Every step keeps the type of the requests in the Worker.
LEMMA RequestStep ==
    ASSUME TypeOK, [Next]_vars
    PROVE  req' \in [Requests -> RequestType]
<1>1. ASSUME NEW r \in Requests, NEW op \in Ops, Begin(r, op)
      PROVE  req' \in [Requests -> RequestType]
  <2>1. FirstStep[op] \in ReqPcs /\ kv \in KvStatus /\ "absent" \in KvStatus /\ "done" \in ReqPcs
    BY FirstSteps DEF TypeOK, ProcessTypeOK, KvStatus, ReqPcs
  <2>2. CASE End(r, "done")
    BY <2>1, <2>2, RequestValues DEF TypeOK, End
  <2>3. CASE req' = [req EXCEPT ![r] = [Fresh EXCEPT !.op = op, !.pc = FirstStep[op],
                !.snap = IF op \in {"start", "touch"} THEN kv ELSE "absent"]]
    BY <2>1, <2>3, FreshRequest DEF TypeOK
  <2> QED
    BY <1>1, <2>2, <2>3 DEF Begin
<1>2. ASSUME NEW r \in Requests, GetBucketName(r)
      PROVE  req' \in [Requests -> RequestType]
  BY <1>2, RequestValues DEF TypeOK, GetBucketName, Others, ReqPcs, process, storage, rows, hooks
<1>3. ASSUME NEW r \in Requests, SetBucketName(r)
      PROVE  req' \in [Requests -> RequestType]
  BY <1>3, RequestValues DEF TypeOK, SetBucketName, Go, ReqPcs, process, storage, rows, hooks
<1>4. ASSUME NEW r \in Requests, GetState(r)
      PROVE  req' \in [Requests -> RequestType]
  BY <1>4, RequestValues DEF TypeOK, GetState, Others, ReqPcs, ProcessTypeOK
<1>5. ASSUME NEW r \in Requests, PutRunning(r)
      PROVE  req' \in [Requests -> RequestType]
  BY <1>5, RequestValues DEF TypeOK, PutRunning, End, Others, ReqPcs, process, storage, rows, hooks
<1>6. ASSUME NEW r \in Requests, Boot(r)
      PROVE  req' \in [Requests -> RequestType]
  <2>1. CASE End(r, "done")
    BY <2>1, GoAndEnd DEF TypeOK, ReqPcs
  <2>2. CASE End(r, "ports")
    BY <2>2, GoAndEnd DEF TypeOK, ReqPcs
  <2> QED
    BY <1>6, <2>1, <2>2 DEF Boot
<1>7. ASSUME NEW r \in Requests, PortsReady(r)
      PROVE  req' \in [Requests -> RequestType]
  BY <1>7, RequestValues DEF TypeOK, PortsReady, End, ReqPcs, process, storage, rows, hooks
<1>8. ASSUME NEW r \in Requests, BootFails(r)
      PROVE  req' \in [Requests -> RequestType]
  BY <1>8, RequestValues DEF TypeOK, BootFails, End, Spend, ReqPcs, process, storage, rows, hooks
<1>9. ASSUME NEW r \in Requests, RollbackGet(r)
      PROVE  req' \in [Requests -> RequestType]
  BY <1>9, RequestValues DEF TypeOK, RollbackGet, End, Others, ReqPcs, process, storage, rows, hooks
<1>10. ASSUME NEW r \in Requests, RollbackPut(r)
      PROVE  req' \in [Requests -> RequestType]
  BY <1>10, RequestValues DEF TypeOK, RollbackPut, End, Others, ReqPcs, process, storage, rows,
      hooks
<1>11. ASSUME NEW r \in Requests, MarkStopped(r)
      PROVE  req' \in [Requests -> RequestType]
  BY <1>11, RequestValues DEF TypeOK, MarkStopped, Go, Others, ReqPcs, process, storage, rows, hooks
<1>12. ASSUME NEW r \in Requests, Remove(r)
      PROVE  req' \in [Requests -> RequestType]
  BY <1>12, RequestValues DEF TypeOK, Remove, End, Others, ReqPcs, process, storage, rows, hooks
<1>13. ASSUME NEW r \in Requests, Touch(r)
      PROVE  req' \in [Requests -> RequestType]
  BY <1>13, RequestValues DEF TypeOK, Touch, At, End, Others, ReqPcs, process, storage, rows, hooks
<1>14. ASSUME NEW r \in Requests, DestroyBegin(r)
      PROVE  req' \in [Requests -> RequestType]
  BY <1>14, RequestValues DEF TypeOK, DestroyBegin, Go, DropRowsThenArm, ReqPcs, process,
      storage, rows, hooks
<1>15. ASSUME NEW r \in Requests, DestroyDrained(r)
      PROVE  req' \in [Requests -> RequestType]
  <2>1. CASE Go(r, "kill")
    BY <2>1, GoAndEnd DEF TypeOK, ReqPcs
  <2>2. CASE Go(r, "super")
    BY <2>2, GoAndEnd DEF TypeOK, ReqPcs
  <2> QED
    BY <1>15, <2>1, <2>2 DEF DestroyDrained
<1>16. ASSUME NEW r \in Requests, DestroyPolled(r)
      PROVE  req' \in [Requests -> RequestType]
  BY <1>16, RequestValues DEF TypeOK, DestroyPolled, Go, Others, ReqPcs, process, storage, rows,
      hooks
<1>17. ASSUME NEW r \in Requests, SuperDestroy(r)
      PROVE  req' \in [Requests -> RequestType]
  <2>1. CASE Go(r, "reconfigure")
    BY <2>1, GoAndEnd DEF TypeOK, ReqPcs
  <2>2. CASE End(r, "remove")
    BY <2>2, GoAndEnd DEF TypeOK, ReqPcs
  <2>3. CASE End(r, "done")
    BY <2>3, GoAndEnd DEF TypeOK, ReqPcs
  <2> QED
    BY <1>17, <2>1, <2>2, <2>3 DEF SuperDestroy
<1>18. CASE Evict
  BY <1>18, CutOffType DEF TypeOK, Evict
<1>19. CASE UNCHANGED <<req>>
  BY <1>19 DEF TypeOK, process, storage, rows, hooks
<1>20. UNCHANGED vars => UNCHANGED <<req>>
  BY DEF vars
<1>21. OnStartMark \/ OnStartRunning \/ OnStartRead \/ OnStartActive \/ OnStartArm \/
      OnStopBegin \/ OnStopWrite \/ OnError \/ OnErrorAlive => UNCHANGED <<req>>
  BY DEF OnStartMark, OnStartRunning, OnStartRead, OnStartActive, OnStartArm, OnStopBegin,
      OnStopWrite, OnError, OnErrorAlive, process, storage, rows, hooks
<1>22. TickUnconfirmed \/ TickConfirm \/ TickRunning \/ TickStopped \/ TickIdle \/ TickNotIdle
      \/ TickNoHealth \/ TickZombie \/ TickHealth \/ TickRead \/ TickWrite \/ TickQuota \/
      TickPing \/ TickStop \/ TickRearm \/ TickLast => UNCHANGED <<req>>
  BY DEF TickUnconfirmed, TickConfirm, TickRunning, TickStopped, TickIdle, TickNotIdle,
      TickNoHealth, TickZombie, TickHealth, TickRead, TickWrite, TickQuota, TickPing, TickStop,
      TickRearm, TickLast, process, storage, rows, hooks
<1>23. Create \/ GracefulExit \/ Crash \/ WindowElapses => UNCHANGED <<req>>
  BY DEF Create, GracefulExit, Crash, WindowElapses, Others, process, storage, rows, hooks
<1> QED
  BY <1>1, <1>2, <1>3, <1>4, <1>5, <1>6, <1>7, <1>8, <1>9, <1>10, <1>11, <1>12, <1>13, <1>14,
      <1>15, <1>16, <1>17, <1>18, <1>19, <1>20, <1>21, <1>22, <1>23
     DEF Next, DoSteps, CollectMetrics, RequestSteps, StartSteps, Destroy

\* Every step keeps the types of the history variables.
LEMMA HistoryStep ==
    ASSUME TypeOK, [Next]_vars
    PROVE  HistoryTypeOK'
<1>1. CASE OnError
  BY <1>1 DEF TypeOK, OnError, SeesDown, Spend, OpenWindow, SawDown, Plus1, DropRowsThenArm,
      HistoryTypeOK, process, storage, rows, hooks
<1>2. CASE OnErrorAlive
  BY <1>2 DEF TypeOK, OnErrorAlive, SeesUp, HistoryTypeOK, process, storage, rows, hooks
<1>3. CASE TickUnconfirmed
  BY <1>3 DEF TypeOK, TickUnconfirmed, Fire, SeesDown, Spend, OpenWindow, SawDown, Plus1,
      HistoryTypeOK, process, storage, rows, hooks
<1>4. CASE TickConfirm
  BY <1>4 DEF TypeOK, TickConfirm, Fire, SeesDown, Spend, SawDown, Plus1, TakeRow,
      HistoryTypeOK, process, storage, rows, hooks
<1>5. CASE TickRunning
  BY <1>5 DEF TypeOK, TickRunning, Fire, SeesUp, TakeRow, HistoryTypeOK, process, storage, rows,
      hooks
<1>6. CASE TickIdle
  BY <1>6 DEF TypeOK, TickIdle, Spend, HistoryTypeOK, process, storage, rows, hooks
<1>7. CASE TickNoHealth
  BY <1>7 DEF TypeOK, TickNoHealth, SeesDown, Spend, HistoryTypeOK, process, storage, rows, hooks
<1>8. CASE TickHealth
  BY <1>8 DEF TypeOK, TickHealth, SeesUp, HistoryTypeOK, process, storage, rows, hooks
<1>9. CASE TickQuota
  BY <1>9 DEF TypeOK, TickQuota, Spend, HistoryTypeOK, process, storage, rows, hooks
<1>10. CASE TickRearm
  BY <1>10 DEF TypeOK, TickRearm, SeesUp, Arm, OneMore, HistoryTypeOK, process, storage, rows, hooks
<1>11. CASE TickLast
  BY <1>11 DEF TypeOK, TickLast, SeesDown, Spend, HistoryTypeOK, process, storage, rows, hooks
<1>12. CASE \E r \in Requests : \E op \in Ops : Begin(r, op)
  BY <1>12 DEF TypeOK, Begin, End, NoOp, Fresh, FirstStep, HistoryTypeOK, process, storage,
      rows, hooks
<1>13. CASE \E r \in Requests : Boot(r)
  BY <1>13 DEF TypeOK, Boot, End, HistoryTypeOK, process, storage, rows, hooks
<1>14. CASE \E r \in Requests : BootFails(r)
  BY <1>14 DEF TypeOK, BootFails, End, Spend, HistoryTypeOK, process, storage, rows, hooks
<1>15. CASE \E r \in Requests : DestroyBegin(r)
  BY <1>15 DEF TypeOK, DestroyBegin, Go, DropRowsThenArm, HistoryTypeOK, process, storage, rows,
      hooks
<1>16. CASE \E r \in Requests : DestroyDrained(r)
  BY <1>16 DEF TypeOK, DestroyDrained, Go, SeesUp, SeesDown, Spend, HistoryTypeOK, process,
      storage, rows, hooks
<1>17. CASE Crash
  BY <1>17 DEF TypeOK, Crash, Exit, Spend, HistoryTypeOK, process, storage, rows, hooks
<1>18. CASE Evict
  BY <1>18 DEF TypeOK, Evict, Spend, OneMore, HistoryTypeOK, process, storage, rows, hooks
<1>19. CASE UNCHANGED <<events, streak, calm>>
  BY <1>19 DEF TypeOK, HistoryTypeOK, process, storage, rows, hooks
<1>20. UNCHANGED vars => UNCHANGED <<events, streak, calm>>
  BY DEF vars
<1>21. OnStartMark \/ OnStartRunning \/ OnStartRead \/ OnStartActive \/ OnStartArm \/
      OnStopBegin \/ OnStopWrite => UNCHANGED <<events, streak, calm>>
  BY DEF OnStartMark, OnStartRunning, OnStartRead, OnStartActive, OnStartArm, OnStopBegin,
      OnStopWrite, process, storage, rows, hooks
<1>22. TickStopped \/ TickNotIdle \/ TickZombie \/ TickRead \/ TickWrite \/ TickPing \/ TickStop
      => UNCHANGED <<events, streak, calm>>
  BY DEF TickStopped, TickNotIdle, TickZombie, TickRead, TickWrite, TickPing, TickStop, process,
      storage, rows, hooks
<1>23. ASSUME NEW r \in Requests, GetBucketName(r) \/ SetBucketName(r) \/ GetState(r) \/
      PutRunning(r) \/ PortsReady(r) \/ RollbackGet(r) \/ RollbackPut(r) \/ MarkStopped(r) \/
      Remove(r) \/ Touch(r) \/ DestroyPolled(r) \/ SuperDestroy(r)
      PROVE  UNCHANGED <<events, streak, calm>>
  BY <1>23 DEF GetBucketName, SetBucketName, GetState, PutRunning, PortsReady, RollbackGet,
      RollbackPut, MarkStopped, Remove, Touch, DestroyPolled, SuperDestroy, Others, process,
      storage, rows, hooks
<1>24. Create \/ GracefulExit \/ WindowElapses => UNCHANGED <<events, streak, calm>>
  BY DEF Create, GracefulExit, WindowElapses, Others, process, storage, rows, hooks
<1> QED
  BY <1>1, <1>2, <1>3, <1>4, <1>5, <1>6, <1>7, <1>8, <1>9, <1>10, <1>11, <1>12, <1>13, <1>14,
      <1>15, <1>16, <1>17, <1>18, <1>19, <1>20, <1>21, <1>22, <1>23, <1>24
     DEF Next, DoSteps, CollectMetrics, RequestSteps, StartSteps, Destroy

\* Every variable keeps its type, whatever requests and events there are.
THEOREM TypeCorrect == Spec => []TypeOK
<1>1. TypeOK /\ [Next]_vars => TypeOK'
  BY ProcessStep, StorageStep, HandlerStep, RequestStep, HistoryStep DEF TypeOK
<1> QED
  BY InitTypeOK, <1>1, PTL DEF Spec


-----------------------------------------------------------------------------
(* The window of collectMetrics.                                            *)

\* The window is open only while a not-running reading stands uncontradicted.
StreakInv == notRunningSince # "none" => streak.ever >= 1

\* An open window (NOT_RUNNING_SINCE_KEY) keeps the reading that opened it.
LEMMA StreakStep ==
    ASSUME TypeOK, StreakInv, [Next]_vars
    PROVE  StreakInv'
<1>1. CASE OnError
  BY <1>1 DEF TypeOK, HistoryTypeOK, StreakInv, OnError, SawDown, Plus1
<1>2. CASE TickUnconfirmed
  BY <1>2 DEF TypeOK, HistoryTypeOK, StreakInv, TickUnconfirmed, SawDown, Plus1
<1>3. CASE TickConfirm
  BY <1>3 DEF StreakInv, TickConfirm
<1>4. CASE TickRunning
  BY <1>4 DEF StreakInv, TickRunning
<1>5. CASE WindowElapses
  BY <1>5 DEF StreakInv, WindowElapses
<1>6. CASE \E r \in Requests : Boot(r)
  BY <1>6 DEF TypeOK, HistoryTypeOK, StreakInv, Boot, storage
<1>7. CASE UNCHANGED <<notRunningSince, streak>>
  BY <1>7 DEF StreakInv
<1>8. UNCHANGED vars => UNCHANGED <<notRunningSince, streak>>
  BY DEF vars, storage
<1>9. OnStartMark \/ OnStartRunning \/ OnStartRead \/ OnStartActive \/ OnStartArm \/ OnStopBegin
        \/ OnStopWrite \/ OnErrorAlive => UNCHANGED <<notRunningSince, streak>>
  BY DEF OnStartMark, OnStartRunning, OnStartRead, OnStartActive, OnStartArm, OnStopBegin,
         OnStopWrite, OnErrorAlive, storage
<1>10. TickStopped \/ TickIdle \/ TickNotIdle \/ TickNoHealth \/ TickZombie \/ TickHealth
         \/ TickRead \/ TickWrite \/ TickQuota \/ TickPing \/ TickStop \/ TickRearm \/ TickLast
         => UNCHANGED <<notRunningSince, streak>>
  BY DEF TickStopped, TickIdle, TickNotIdle, TickNoHealth, TickZombie, TickHealth, TickRead,
         TickWrite, TickQuota, TickPing, TickStop, TickRearm, TickLast, storage
<1>11. ASSUME NEW r \in Requests,
              (\E op \in Ops : Begin(r, op)) \/ GetBucketName(r) \/ SetBucketName(r) \/ GetState(r)
              \/ PutRunning(r) \/ PortsReady(r) \/ BootFails(r) \/ RollbackGet(r) \/ RollbackPut(r)
              \/ MarkStopped(r) \/ Remove(r) \/ Touch(r) \/ Destroy(r)
       PROVE  UNCHANGED <<notRunningSince, streak>>
  BY <1>11 DEF Begin, GetBucketName, SetBucketName, GetState, PutRunning, PortsReady, BootFails,
         RollbackGet, RollbackPut, MarkStopped, Remove, Touch, Destroy, DestroyBegin,
         DestroyDrained, DestroyPolled, SuperDestroy, Others, storage
<1>12. Create \/ GracefulExit \/ Crash \/ Evict => UNCHANGED <<notRunningSince, streak>>
  BY DEF Create, GracefulExit, Crash, Evict, Others, storage
<1> QED
  BY <1>1, <1>2, <1>3, <1>4, <1>5, <1>6, <1>7, <1>8, <1>9, <1>10, <1>11, <1>12
     DEF Next, DoSteps, CollectMetrics, RequestSteps, StartSteps

\* Whoever gives up on the container has seen it down before, and no tick has
\* seen it up since (collectMetrics, NOT_RUNNING_SINCE_KEY).
THEOREM ConfirmationIsEarned == Spec => ConfirmNeedsStreak
<1>1. Init => StreakInv
  BY DEF Init, StreakInv
<1>2. ASSUME TypeOK, StreakInv, Next, tick.pc = "idle", tick'.pc = "confirm"
      PROVE  streak.ever >= 1
  <2>1. CASE TickConfirm
    BY <1>2, <2>1 DEF TickConfirm, Fire, StreakInv
  <2>2. CASE tick' = tick
    BY <1>2, <2>2
  <2>3. OnStartMark \/ OnStartRunning \/ OnStartRead \/ OnStartActive \/ OnStartArm \/ OnStopBegin
          \/ OnStopWrite \/ OnError \/ OnErrorAlive \/ TickUnconfirmed => tick' = tick
    BY DEF OnStartMark, OnStartRunning, OnStartRead, OnStartActive, OnStartArm, OnStopBegin,
           OnStopWrite, OnError, OnErrorAlive, TickUnconfirmed
  <2>4. ~(TickStopped \/ TickIdle \/ TickNotIdle \/ TickNoHealth \/ TickZombie \/ TickHealth
          \/ TickRead \/ TickWrite \/ TickQuota \/ TickPing \/ TickStop \/ TickRearm \/ TickLast)
    BY <1>2 DEF TickStopped, TickIdle, TickNotIdle, TickNoHealth, TickZombie, TickHealth, TickRead,
                TickWrite, TickQuota, TickPing, TickStop, TickRearm, TickLast
  <2>5. ~(TickRunning \/ Evict)
    BY <1>2 DEF TickRunning, Evict, Idle
  <2>6. ASSUME NEW r \in Requests, (\E op \in Ops : Begin(r, op)) \/ RequestSteps(r)
        PROVE  tick' = tick
    BY <2>6 DEF RequestSteps, StartSteps, Begin, GetBucketName, SetBucketName, GetState,
       PutRunning, Boot, PortsReady, BootFails, RollbackGet, RollbackPut, MarkStopped, Remove,
       Touch, Destroy, DestroyBegin, DestroyDrained, DestroyPolled, SuperDestroy, Others
  <2>7. Create \/ GracefulExit \/ Crash \/ WindowElapses => tick' = tick
    BY DEF Create, GracefulExit, Crash, WindowElapses, Others
  <2> QED
    BY <1>2, <2>1, <2>2, <2>3, <2>4, <2>5, <2>6, <2>7 DEF Next, DoSteps, CollectMetrics
<1>3. TypeOK /\ StreakInv /\ [Next]_vars
        => [tick.pc = "idle" /\ tick'.pc = "confirm" => streak.ever >= 1]_vars
  BY <1>2
<1> QED
  BY <1>1, <1>3, StreakStep, TypeCorrect, PTL DEF Spec, ConfirmNeedsStreak

-----------------------------------------------------------------------------
(* The teardown.                                                            *)

Quiet(q)  == req[q].pc \in {"ready", "done"}
Coming(q) == req[q].pc \in {"mark", "destroy"} /\ req[q].op \in {"stop", "delete"}
Going(q)  == req[q].pc \in {"drain", "kill", "super"} /\ req[q].op \in {"stop", "delete"}

\* None of the writers has found the identifiers.
NoWriter ==
    /\ onStart.pc \notin {"put1", "put2"}
    /\ onStop # "put"
    /\ tick.pc \notin {"read", "write", "confirm", "idlePut"}

\* A lone stop or delete leads the way to destroy(); from there on nobody finds
\* the identifiers, so nobody writes the record.
AskedInv ==
    calm = "asked" =>
        /\ \A q \in Requests : Quiet(q) \/ Coming(q) \/ At(q, "remove")
        /\ \A p, q \in Requests : Coming(p) /\ Coming(q) => p = q

BegunInv ==
    calm = "begun" =>
        /\ ~ids /\ NoWriter
        /\ \A q \in Requests : Quiet(q) \/ Going(q) \/ At(q, "remove")

RecordInv ==
    /\ calm # "no" => kv # "absent" /\ onStart.pc = "idle"
    /\ tick.pc = "write" => tick.snap # "absent"

TeardownInv == AskedInv /\ BegunInv /\ RecordInv

\* While a lone teardown is on its way no start and no touch is being served.
LEMMA OnlyTeardown ==
    ASSUME TeardownInv, calm \in {"asked", "begun"}, NEW r \in Requests
    PROVE  req[r].pc \in {"ready", "done", "mark", "destroy", "drain", "kill", "super", "remove"}
BY DEF TeardownInv, AskedInv, BegunInv, Quiet, Coming, Going, At

\* A start or a touch being served means that no lone teardown is on its way.
LEMMA StartersAreAlone ==
    ASSUME TypeOK, TeardownInv, NEW r \in Requests,
           StartSteps(r) \/ Touch(r)
    PROVE  calm = "no" /\ calm' = "no"
<1>1. req[r].pc \notin {"ready", "done", "mark", "destroy", "drain", "kill", "super", "remove"}
  BY DEF StartSteps, GetBucketName, SetBucketName, GetState, PutRunning, Boot, PortsReady,
         BootFails, RollbackGet, RollbackPut, Touch, At
<1>2. calm = "no"
  BY <1>1, OnlyTeardown DEF TypeOK, HistoryTypeOK
<1>3. calm' = calm
  BY DEF StartSteps, GetBucketName, SetBucketName, GetState, PutRunning, Boot, PortsReady,
         BootFails, RollbackGet, RollbackPut, Touch, Others
<1> QED
  BY <1>2, <1>3

\* onStart running means that no lone teardown is on its way.
LEMMA OnStartIsAlone ==
    ASSUME TypeOK, TeardownInv,
           OnStartMark \/ OnStartRunning \/ OnStartRead \/ OnStartActive \/ OnStartArm
    PROVE  calm = "no" /\ calm' = "no"
<1>1. onStart.pc # "idle" /\ calm' = calm
  BY DEF OnStartMark, OnStartRunning, OnStartRead, OnStartActive, OnStartArm
<1> QED
  BY <1>1 DEF TeardownInv, RecordInv

\* A request that begins alone is the only one of the teardown it asks for.
LEMMA BeginAsked ==
    ASSUME TypeOK, TeardownInv, NEW r \in Requests, NEW op \in Ops, Begin(r, op), calm' # "no"
    PROVE  AskedInv' /\ RecordInv' /\ calm' = "asked"
<1>1. calm' = "asked" /\ op \in {"stop", "delete"} /\ Alone(r)
  BY DEF Begin
<1>2. \A q \in Requests \ {r} : req'[q] = req[q] /\ Quiet(q)
  BY <1>1 DEF Begin, Alone, Quiet, End, TypeOK
<1>3. Quiet(r)' \/ Coming(r)'
  <2>1. CASE End(r, "done")
    BY <2>1 DEF End, TypeOK, Quiet, Fresh
  <2>2. CASE req' = [req EXCEPT ![r] = [Fresh EXCEPT !.op = op, !.pc = FirstStep[op],
                                          !.snap = "absent"]]
    <3>1. req'[r].op = op /\ req'[r].pc = FirstStep[op]
      BY <2>2 DEF TypeOK, Fresh
    <3>2. FirstStep[op] \in {"mark", "destroy"}
      BY <1>1 DEF FirstStep
    <3> QED
      BY <1>1, <3>1, <3>2 DEF Coming
  <2> QED
    BY <1>1, <2>1, <2>2 DEF Begin
<1>4. AskedInv'
  BY <1>2, <1>3 DEF AskedInv, Quiet, Coming
<1>5. RecordInv'
  BY <1>1 DEF Begin, Alone, TeardownInv, RecordInv, hooks
<1> QED
  BY <1>1, <1>4, <1>5

\* destroy() begins silently: the identifiers are gone and no write is in flight.
LEMMA DestroyBegun ==
    ASSUME TypeOK, TeardownInv, NEW r \in Requests, DestroyBegin(r), calm' # "no"
    PROVE  BegunInv' /\ RecordInv' /\ calm' = "begun"
<1>1. calm = "asked" /\ calm' = "begun" /\ Writers = {} /\ ~ids'
  BY DEF DestroyBegin
<1>2. Coming(r) /\ req[r].pc = "destroy"
  BY <1>1 DEF DestroyBegin, At, TeardownInv, AskedInv, Quiet
<1>3. Going(r)'
  BY <1>2 DEF DestroyBegin, Go, Coming, Going, TypeOK, RequestType
<1>4. \A q \in Requests \ {r} : req'[q] = req[q] /\ (Quiet(q) \/ At(q, "remove"))
  BY <1>1, <1>2 DEF DestroyBegin, Go, TypeOK, TeardownInv, AskedInv
<1>5. NoWriter'
  <2>1. NoWriter
    BY <1>1 DEF Writers, NoWriter
  <2> QED
    BY <2>1 DEF NoWriter, DestroyBegin, hooks
<1>6. BegunInv'
  BY <1>1, <1>3, <1>4, <1>5 DEF BegunInv, Quiet, Going, At
<1>7. RecordInv'
  BY <1>1 DEF DestroyBegin, TeardownInv, RecordInv, hooks
<1> QED
  BY <1>1, <1>6, <1>7

\* Whatever step a request takes, a lone teardown stays one or is given up.
LEMMA TeardownRequest ==
    ASSUME TypeOK, TeardownInv, NEW r \in Requests,
           MarkStopped(r) \/ Remove(r) \/ DestroyDrained(r) \/ DestroyPolled(r) \/ SuperDestroy(r)
    PROVE  TeardownInv'
<1>1. UNCHANGED <<ids, hooks, tick, calm>>
  BY DEF MarkStopped, Remove, DestroyDrained, DestroyPolled, SuperDestroy, Others, storage
<1>2. \A q \in Requests \ {r} : req'[q] = req[q]
  BY DEF MarkStopped, Remove, DestroyDrained, DestroyPolled, SuperDestroy, Go, End, TypeOK
<1>3. kv' = kv \/ kv' \in {"stopped", "deleted"}
  BY DEF MarkStopped, Remove, DestroyDrained, DestroyPolled, SuperDestroy, Others
<1>4. RecordInv'
  BY <1>1, <1>3 DEF TeardownInv, RecordInv, hooks
<1>5. CASE calm = "asked"
  <2>1. req[r].pc \in {"mark", "remove"}
    BY <1>5 DEF MarkStopped, Remove, DestroyDrained, DestroyPolled, SuperDestroy, At,
                TeardownInv, AskedInv, Quiet, Coming
  <2>2. Quiet(r)' \/ (Coming(r) /\ Coming(r)')
    <3>1. CASE MarkStopped(r)
      BY <1>5, <3>1 DEF MarkStopped, Go, At, TypeOK, RequestType, TeardownInv, AskedInv, Quiet, Coming
    <3>2. CASE Remove(r)
      BY <3>2 DEF Remove, End, TypeOK, Quiet, Fresh
    <3> QED
      BY <2>1, <3>1, <3>2 DEF DestroyDrained, DestroyPolled, SuperDestroy, At
  <2>3. AskedInv'
    BY <1>2, <1>5, <2>2 DEF TeardownInv, AskedInv, Quiet, Coming, At
  <2> QED
    BY <1>1, <1>4, <1>5, <2>3 DEF TeardownInv, BegunInv
<1>6. CASE calm = "begun"
  <2>1. Going(r) \/ At(r, "remove")
    BY <1>6 DEF MarkStopped, Remove, DestroyDrained, DestroyPolled, SuperDestroy, At,
                TeardownInv, BegunInv, Quiet
  <2>2. Quiet(r)' \/ Going(r)' \/ At(r, "remove")'
    <3>1. CASE Remove(r)
      BY <3>1 DEF Remove, End, TypeOK, Quiet, Fresh
    <3>2. CASE DestroyDrained(r)
      BY <2>1, <3>2 DEF DestroyDrained, Go, At, TypeOK, RequestType, Going
    <3>3. CASE DestroyPolled(r)
      BY <2>1, <3>3 DEF DestroyPolled, Go, At, TypeOK, RequestType, Going
    <3>4. CASE SuperDestroy(r)
      <4>1. req[r].op \in {"stop", "delete"}
        BY <2>1, <3>4 DEF SuperDestroy, At, Going
      <4>2. CASE End(r, "remove")
        BY <4>2 DEF End, TypeOK, Fresh, At
      <4>3. CASE End(r, "done")
        BY <4>3 DEF End, TypeOK, Fresh, Quiet
      <4> QED
        BY <3>4, <4>1, <4>2, <4>3 DEF SuperDestroy
    <3> QED
      BY <2>1, <3>1, <3>2, <3>3, <3>4 DEF MarkStopped, At, Going
  <2>3. BegunInv'
    BY <1>1, <1>2, <1>6, <2>2 DEF TeardownInv, BegunInv, NoWriter, hooks, Quiet, Going, At
  <2> QED
    BY <1>1, <1>4, <1>6, <2>3 DEF TeardownInv, AskedInv
<1>7. CASE calm = "no"
  BY <1>1, <1>4, <1>7 DEF TeardownInv, AskedInv, BegunInv
<1> QED
  BY <1>5, <1>6, <1>7 DEF TypeOK, HistoryTypeOK

\* An eviction cuts requests off, but it starts none.
LEMMA EvictTeardown ==
    ASSUME TypeOK, TeardownInv, Evict
    PROVE  TeardownInv'
<1>1. UNCHANGED <<kv, ids, calm>> /\ onStart' = Idle /\ onStop' = "idle" /\ tick' = Idle
  BY DEF Evict
<1>2. \A q \in Requests : req'[q] = CutOff(req[q])
  BY DEF Evict
<1>3. \A q \in Requests :
        /\ Quiet(q) => Quiet(q)'
        /\ At(q, "remove") => At(q, "remove")'
        /\ Going(q) => Quiet(q)' \/ At(q, "remove")'
        /\ Coming(q) => Coming(q)' \/ Quiet(q)' \/ At(q, "remove")'
  BY <1>2 DEF CutOff, Destroying, Quiet, At, Going, Coming, Fresh
<1>4. ASSUME NEW q \in Requests, Coming(q)'
      PROVE  Coming(q)
  <2>1. CutOff(req[q]) = req[q] \/ CutOff(req[q]).pc \in {"put", "remove", "done", "rollbackGet"}
    BY DEF CutOff, Fresh, TypeOK, RequestType
  <2> QED
    BY <1>2, <1>4, <2>1 DEF Coming
<1>5. AskedInv'
  BY <1>1, <1>3, <1>4 DEF TeardownInv, AskedInv
<1>6. BegunInv'
  BY <1>1, <1>3 DEF TeardownInv, BegunInv, NoWriter, Idle
<1>7. RecordInv'
  BY <1>1 DEF TeardownInv, RecordInv, Idle
<1> QED
  BY <1>5, <1>6, <1>7 DEF TeardownInv

\* Steps that leave the requests alone: the hooks, the ticks and the platform.
LEMMA OtherTeardown ==
    ASSUME TypeOK, TeardownInv, UNCHANGED <<ids, onStart, req, calm>>,
           kv' = "absent" => kv = "absent",
           tick'.pc = "write" => tick'.snap # "absent",
           calm = "begun" => NoWriter'
    PROVE  TeardownInv'
BY DEF TeardownInv, AskedInv, BegunInv, RecordInv, Quiet, Coming, Going, At

\* Every step keeps TeardownInv.
LEMMA TeardownStep ==
    ASSUME TypeOK, TeardownInv, [Next]_vars
    PROVE  TeardownInv'
<1>1. ASSUME NEW r \in Requests, StartSteps(r) \/ Touch(r)
      PROVE  TeardownInv'
  <2>1. calm' = "no"
    BY <1>1, StartersAreAlone
  <2>2. tick' = tick
    BY <1>1 DEF StartSteps, GetBucketName, SetBucketName, GetState, PutRunning, Boot, PortsReady,
         BootFails, RollbackGet, RollbackPut, Touch, Others
  <2> QED
    BY <2>1, <2>2 DEF TeardownInv, AskedInv, BegunInv, RecordInv
<1>2. ASSUME OnStartMark \/ OnStartRunning \/ OnStartRead \/ OnStartActive \/ OnStartArm
      PROVE  TeardownInv'
  <2>1. calm' = "no"
    BY <1>2, OnStartIsAlone
  <2>2. tick' = tick
    BY <1>2 DEF OnStartMark, OnStartRunning, OnStartRead, OnStartActive, OnStartArm
  <2> QED
    BY <2>1, <2>2 DEF TeardownInv, AskedInv, BegunInv, RecordInv
<1>3. ASSUME NEW r \in Requests, NEW op \in Ops, Begin(r, op)
      PROVE  TeardownInv'
  <2>1. CASE calm' = "no"
    <3>1. tick' = tick
      BY <1>3 DEF Begin
    <3> QED
      BY <2>1, <3>1 DEF TeardownInv, AskedInv, BegunInv, RecordInv
  <2>2. CASE calm' # "no"
    BY <1>3, <2>2, BeginAsked DEF TeardownInv, BegunInv
  <2> QED
    BY <2>1, <2>2
<1>4. ASSUME NEW r \in Requests, DestroyBegin(r)
      PROVE  TeardownInv'
  <2>1. CASE calm' = "no"
    <3>1. tick' = tick
      BY <1>4 DEF DestroyBegin
    <3> QED
      BY <2>1, <3>1 DEF TeardownInv, AskedInv, BegunInv, RecordInv
  <2>2. CASE calm' # "no"
    BY <1>4, <2>2, DestroyBegun DEF TeardownInv, AskedInv
  <2> QED
    BY <2>1, <2>2
<1>5. ASSUME NEW r \in Requests,
             MarkStopped(r) \/ Remove(r) \/ DestroyDrained(r) \/ DestroyPolled(r) \/ SuperDestroy(r)
      PROVE  TeardownInv'
  BY <1>5, TeardownRequest
<1>6. CASE Evict
  BY <1>6, EvictTeardown
<1>7. CASE OnStopBegin \/ OnStopWrite
  BY <1>7, OtherTeardown DEF OnStopBegin, OnStopWrite, storage, rows, TeardownInv, BegunInv,
     RecordInv, NoWriter, MayUpdateKv
<1>8. CASE OnError \/ OnErrorAlive \/ WindowElapses \/ GracefulExit \/ Crash \/ Create
  BY <1>8, OtherTeardown DEF OnError, OnErrorAlive, WindowElapses, GracefulExit, Crash, Create,
     Others, storage, hooks, TeardownInv, BegunInv, RecordInv, NoWriter
<1>9. CASE TickUnconfirmed \/ TickConfirm \/ TickRunning \/ TickStopped \/ TickIdle
  BY <1>9, OtherTeardown DEF TickUnconfirmed, TickConfirm, TickRunning, TickStopped, TickIdle,
     storage, hooks, Idle, TeardownInv, BegunInv, RecordInv, NoWriter, MayUpdateKv
<1>10. CASE TickNotIdle \/ TickNoHealth \/ TickZombie \/ TickHealth \/ TickRead \/ TickWrite
  BY <1>10, OtherTeardown DEF TickNotIdle, TickNoHealth, TickZombie, TickHealth, TickRead, TickWrite,
     storage, hooks, Idle, TeardownInv, BegunInv, RecordInv, NoWriter, Exists, Record
<1>11. CASE TickQuota \/ TickPing \/ TickStop \/ TickRearm \/ TickLast
  BY <1>11, OtherTeardown DEF TickQuota, TickPing, TickStop, TickRearm, TickLast,
     storage, hooks, Idle, TeardownInv, BegunInv, RecordInv, NoWriter
<1>12. CASE UNCHANGED vars
  BY <1>12, OtherTeardown DEF vars, storage, hooks, TeardownInv, BegunInv, RecordInv, NoWriter
<1> QED
  BY <1>1, <1>2, <1>3, <1>4, <1>5, <1>6, <1>7, <1>8, <1>9, <1>10, <1>11, <1>12
     DEF Next, DoSteps, CollectMetrics, RequestSteps, Destroy

\* TeardownInv holds in every reachable state.
LEMMA TeardownInvHolds == Spec => []TeardownInv
<1>1. Init => TeardownInv
  BY DEF Init, TeardownInv, AskedInv, BegunInv, RecordInv, Idle
<1> QED
  BY <1>1, TeardownStep, TypeCorrect, PTL DEF Spec

\* Once the destroy() of a lone stop or delete has begun with no write in
\* flight, no hook, tick, eviction or late alarm changes the record any more;
\* only the delete itself removes it (destroy() clears the identifiers first).
THEOREM SilentTeardown == Spec => TeardownIsSilent
<1>1. ASSUME TypeOK, TeardownInv, Next, calm = "begun", kv' # kv
      PROVE  \E r \in Requests : At(r, "remove")
  <2>1. NoWriter /\ onStart.pc = "idle" /\ kv # "absent"
    BY <1>1 DEF TeardownInv, BegunInv, RecordInv
  <2>2. ASSUME NEW r \in Requests, MarkStopped(r)
        PROVE  FALSE
    BY <1>1, <2>2 DEF MarkStopped, At, TeardownInv, BegunInv, Quiet, Going
  <2>3. ASSUME NEW r \in Requests, StartSteps(r) \/ Touch(r)
        PROVE  FALSE
    BY <1>1, <2>3, StartersAreAlone
  <2>4. ASSUME NEW r \in Requests, Remove(r)
        PROVE  At(r, "remove")
    BY <2>4 DEF Remove
  <2>5. ASSUME NEW r \in Requests, (\E op \in Ops : Begin(r, op)) \/ Destroy(r)
        PROVE  kv' = kv
    BY <2>5 DEF Begin, Destroy, DestroyBegin, DestroyDrained, DestroyPolled, SuperDestroy
  <2>6. ~(OnStartMark \/ OnStartRunning \/ OnStartRead \/ OnStartActive \/ OnStartArm \/ OnStopWrite
          \/ TickStopped \/ TickWrite \/ Create)
    BY <2>1 DEF NoWriter, OnStartMark, OnStartRunning, OnStartRead, OnStartActive, OnStartArm,
                OnStopWrite, TickStopped, TickWrite, Create
  <2>7. OnStopBegin \/ OnError \/ OnErrorAlive \/ GracefulExit \/ Crash \/ WindowElapses \/ Evict
          => kv' = kv
    BY DEF OnStopBegin, OnError, OnErrorAlive, GracefulExit, Crash, WindowElapses, Evict
  <2>8. TickUnconfirmed \/ TickConfirm \/ TickRunning \/ TickIdle \/ TickNotIdle \/ TickNoHealth
          \/ TickZombie \/ TickHealth \/ TickRead \/ TickQuota \/ TickPing \/ TickStop \/ TickRearm
          \/ TickLast => kv' = kv
    BY DEF TickUnconfirmed, TickConfirm, TickRunning, TickIdle, TickNotIdle, TickNoHealth,
           TickZombie, TickHealth, TickRead, TickQuota, TickPing, TickStop, TickRearm, TickLast
  <2> QED
    BY <1>1, <2>2, <2>3, <2>4, <2>5, <2>6, <2>7, <2>8
       DEF Next, DoSteps, CollectMetrics, RequestSteps
<1>2. TypeOK /\ TeardownInv /\ [Next]_vars
        => [calm = "begun" /\ kv' # kv => \E r \in Requests : At(r, "remove")]_vars
  BY <1>1
<1> QED
  BY <1>2, TeardownInvHolds, TypeCorrect, PTL DEF Spec, TeardownIsSilent

-----------------------------------------------------------------------------
(* The record the handlers share: every step is a step of SharedRecord.     *)

\* What is about to be written is a status that was read from a record, and
\* only a stop marks the record before its destroy().
CopiesInv ==
    /\ onStart.pc = "put2" => onStart.snap \in Record
    /\ tick.pc = "write" => tick.snap \in Record
    /\ \A r \in Requests : /\ At(r, "touch") => req[r].snap \in Record
                           /\ At(r, "mark") => req[r].op = "stop"

\* Only handler h, or only request r, comes to hold the record or lets it go.
OnlyHandler(h) ==
    /\ req' = req
    /\ \A g \in Handlers \ {h} : HandlerHolds(g)' <=> HandlerHolds(g)
OnlyRequest(r) ==
    /\ \A g \in Handlers : HandlerHolds(g)' <=> HandlerHolds(g)
    /\ \A q \in Requests \ {r} : req'[q] = req[q]

\* What HandlerHolds says of each handler, now and after the step.
LEMMA WhoHolds ==
    /\ HandlerHolds("onStart") <=> onStart.pc \in {"put1", "put2"}
    /\ HandlerHolds("onStop") <=> onStop = "put"
    /\ HandlerHolds("tick") <=> tick.pc \in {"write", "confirm", "idlePut"}
    /\ HandlerHolds("onStart")' <=> onStart'.pc \in {"put1", "put2"}
    /\ HandlerHolds("onStop")' <=> onStop' = "put"
    /\ HandlerHolds("tick")' <=> tick'.pc \in {"write", "confirm", "idlePut"}
BY DEF HandlerHolds

\* The holders after a step in which one handler moved.
LEMMA HandlerMoves ==
    ASSUME NEW h \in Handlers, OnlyHandler(h)
    PROVE  Holders' = IF HandlerHolds(h)' THEN Holders \cup {h} ELSE Holders \ {h}
<1>1. h \notin Requests
  BY RequestsAssumption DEF RequestsAssumption
<1> QED
  BY <1>1 DEF OnlyHandler, Holders

\* The holders after a step in which one request moved.
LEMMA RequestMoves ==
    ASSUME NEW r \in Requests, OnlyRequest(r)
    PROVE  Holders' = IF RequestHolds(req'[r]) THEN Holders \cup {r} ELSE Holders \ {r}
<1>1. r \notin Handlers
  BY RequestsAssumption DEF RequestsAssumption
<1> QED
  BY <1>1 DEF OnlyRequest, Holders

\* A handler that comes to hold the record found it; or none does, and it is a stutter or a drop.
LEMMA HandlerFinds ==
    ASSUME NEW h \in Handlers, OnlyHandler(h), kv' = kv,
           HandlerHolds(h)' => HandlerHolds(h) \/ Exists
    PROVE  [Shared!Next]_(Shared!vars)
<1>1. CASE HandlerHolds(h)' /\ ~HandlerHolds(h)
  <2>1. Shared!Find(h)
    BY <1>1, HandlerMoves DEF Exists, Shared!Find
  <2> QED
    BY <2>1 DEF Shared!Next
<1>2. CASE HandlerHolds(h)' /\ HandlerHolds(h)
  BY <1>2, HandlerMoves DEF Holders, Shared!vars
<1>3. CASE ~HandlerHolds(h)'
  <2>1. Shared!Drop
    BY <1>3, HandlerMoves DEF Shared!Drop
  <2> QED
    BY <2>1 DEF Shared!Next
<1> QED
  BY <1>1, <1>2, <1>3

\* A handler that writes a status held the record, and lets it go.
LEMMA HandlerWrites ==
    ASSUME NEW h \in Handlers, OnlyHandler(h), kv' \in Record,
           HandlerHolds(h), ~HandlerHolds(h)'
    PROVE  [Shared!Next]_(Shared!vars)
<1>1. Shared!WriteBack(h)
  BY HandlerMoves DEF Holders, Shared!WriteBack
<1> QED
  BY <1>1 DEF Shared!Next

\* The same two facts of the requests.
LEMMA RequestFinds ==
    ASSUME NEW r \in Requests, OnlyRequest(r), kv' = kv,
           RequestHolds(req'[r]) => RequestHolds(req[r]) \/ Exists
    PROVE  [Shared!Next]_(Shared!vars)
<1>1. CASE RequestHolds(req'[r]) /\ ~RequestHolds(req[r])
  <2>1. Shared!Find(r)
    BY <1>1, RequestMoves DEF Exists, Shared!Find
  <2> QED
    BY <2>1 DEF Shared!Next
<1>2. CASE RequestHolds(req'[r]) /\ RequestHolds(req[r])
  BY <1>2, RequestMoves DEF Holders, Shared!vars
<1>3. CASE ~RequestHolds(req'[r])
  <2>1. Shared!Drop
    BY <1>3, RequestMoves DEF Shared!Drop
  <2> QED
    BY <2>1 DEF Shared!Next
<1> QED
  BY <1>1, <1>2, <1>3

LEMMA RequestWrites ==
    ASSUME NEW r \in Requests, OnlyRequest(r), kv' \in Record \cup {"deleted"},
           RequestHolds(req[r]), ~RequestHolds(req'[r])
    PROVE  [Shared!Next]_(Shared!vars)
<1>1. Shared!WriteBack(r) \/ Shared!Remove(r)
  BY RequestMoves DEF Holders, Shared!WriteBack, Shared!Remove
<1> QED
  BY <1>1 DEF Shared!Next

\* Every step of a hook keeps CopiesInv: onStart copies the record it has just read.
LEMMA HookCopies ==
    ASSUME TypeOK, CopiesInv,
           OnStartMark \/ OnStartRunning \/ OnStartRead \/ OnStartActive \/ OnStartArm
           \/ OnStopBegin \/ OnStopWrite \/ OnError \/ OnErrorAlive
    PROVE  CopiesInv'
<1>1. CASE OnStartMark \/ OnStartRunning \/ OnStartRead \/ OnStartActive \/ OnStartArm
  <2>1. req' = req /\ tick' = tick
    BY <1>1 DEF OnStartMark, OnStartRunning, OnStartRead, OnStartActive, OnStartArm
  <2>2. onStart'.pc = "put2" => onStart'.snap \in Record
    BY <1>1 DEF OnStartMark, OnStartRunning, OnStartRead, OnStartActive, OnStartArm, Idle,
                MayUpdateKv, Exists, TypeOK, HandlerTypeOK
  <2> QED
    BY <2>1, <2>2 DEF CopiesInv, At
<1>2. CASE OnStopBegin \/ OnStopWrite \/ OnError \/ OnErrorAlive
  <2>1. req' = req /\ tick' = tick /\ onStart' = onStart
    BY <1>2 DEF OnStopBegin, OnStopWrite, OnError, OnErrorAlive, hooks
  <2> QED
    BY <2>1 DEF CopiesInv, At
<1> QED
  BY <1>1, <1>2

\* Every step of the tick keeps CopiesInv: it copies the record, or heals it.
LEMMA TickCopies ==
    ASSUME TypeOK, CopiesInv, CollectMetrics
    PROVE  CopiesInv'
<1>1. req' = req /\ onStart' = onStart
  BY DEF CollectMetrics, TickUnconfirmed, TickConfirm, TickRunning, TickStopped, TickIdle,
         TickNotIdle, TickNoHealth, TickZombie, TickHealth, TickRead, TickWrite, TickQuota,
         TickPing, TickStop, TickRearm, TickLast, hooks
<1>2. tick'.pc = "write" => tick'.snap \in Record
  <2>1. CASE TickRead
    BY <2>1 DEF TickRead, Idle, Exists, Record
  <2>2. CASE TickUnconfirmed
    BY <2>2 DEF TickUnconfirmed, CopiesInv
  <2>3. CASE TickConfirm \/ TickRunning \/ TickStopped \/ TickIdle \/ TickNotIdle \/ TickNoHealth
             \/ TickZombie \/ TickHealth \/ TickWrite \/ TickQuota \/ TickPing \/ TickStop
             \/ TickRearm \/ TickLast
    BY <2>3 DEF TickConfirm, TickRunning, TickStopped, TickIdle, TickNotIdle, TickNoHealth,
         TickZombie, TickHealth, TickWrite, TickQuota, TickPing, TickStop, TickRearm, TickLast,
         Idle
  <2> QED
    BY <2>1, <2>2, <2>3 DEF CollectMetrics
<1> QED
  BY <1>1, <1>2 DEF CopiesInv, At

\* Request r begins operation op with what it read of the record.
Starts(r, op) ==
    req' = [req EXCEPT ![r] = [Fresh EXCEPT !.op = op, !.pc = FirstStep[op],
                                 !.snap = IF op \in {"start", "touch"} THEN kv ELSE "absent"]]

\* A request that begins answers 404, or found the record (which destroy does not ask).
LEMMA BeginReads ==
    ASSUME NEW r \in Requests, NEW op \in Ops, Begin(r, op)
    PROVE  /\ At(r, "ready")
           /\ UNCHANGED <<kv, onStart, onStop, tick>>
           /\ End(r, "done") \/ ((Exists \/ op = "destroy") /\ Starts(r, op))
<1>1. End(r, "done") \/ ((Exists \/ op = "destroy") /\ Starts(r, op))
  BY Zenon DEF Begin, Starts
<1>2. At(r, "ready") /\ UNCHANGED <<kv, onStart, onStop, tick>>
  BY DEF Begin, hooks
<1> QED
  BY <1>1, <1>2

\* A step of one request leaves the others where they are.
LEMMA OneRequestMoves ==
    ASSUME TypeOK, NEW r \in Requests, (\E op \in Ops : Begin(r, op)) \/ RequestSteps(r)
    PROVE  \A q \in Requests \ {r} : req'[q] = req[q]
<1>1. ASSUME NEW op \in Ops, Begin(r, op)
      PROVE  \A q \in Requests \ {r} : req'[q] = req[q]
  <2>1. CASE End(r, "done")
    BY <2>1 DEF End, TypeOK
  <2>2. CASE Starts(r, op)
    BY <2>2 DEF Starts, TypeOK
  <2> QED
    BY <1>1, <2>1, <2>2, BeginReads
<1>2. Destroy(r) \/ MarkStopped(r) \/ Remove(r) \/ Touch(r)
        => \A q \in Requests \ {r} : req'[q] = req[q]
  BY DEF Destroy, DestroyBegin, DestroyDrained, DestroyPolled, SuperDestroy, MarkStopped, Remove,
         Touch, Go, End, TypeOK
<1>3. GetBucketName(r) \/ SetBucketName(r) \/ GetState(r) \/ PutRunning(r) \/ Boot(r)
        => \A q \in Requests \ {r} : req'[q] = req[q]
  BY DEF GetBucketName, SetBucketName, GetState, PutRunning, Boot, Others, Go, End, TypeOK
<1>4. PortsReady(r) \/ BootFails(r) \/ RollbackGet(r) \/ RollbackPut(r)
        => \A q \in Requests \ {r} : req'[q] = req[q]
  BY DEF PortsReady, BootFails, RollbackGet, RollbackPut, Go, End, TypeOK
<1> QED
  BY <1>1, <1>2, <1>3, <1>4 DEF RequestSteps, StartSteps

\* Every step of a request keeps CopiesInv: a touch begins with the record it
\* read, and nothing but the beginning of a stop leads to its mark.
LEMMA RequestCopies ==
    ASSUME TypeOK, CopiesInv, NEW r \in Requests,
           (\E op \in Ops : Begin(r, op)) \/ RequestSteps(r)
    PROVE  CopiesInv'
<1>1. tick' = tick /\ (onStart' = onStart \/ onStart' = [Idle EXCEPT !.pc = "due"])
  <2>1. Destroy(r) \/ MarkStopped(r) \/ Remove(r) \/ Touch(r) => UNCHANGED <<tick, onStart>>
    BY DEF Destroy, DestroyBegin, DestroyDrained, DestroyPolled, SuperDestroy, MarkStopped,
           Remove, Touch, Others, hooks
  <2>2. GetBucketName(r) \/ SetBucketName(r) \/ GetState(r) \/ PutRunning(r) \/ Boot(r)
          \/ BootFails(r) \/ RollbackGet(r) \/ RollbackPut(r) => UNCHANGED <<tick, onStart>>
    BY DEF GetBucketName, SetBucketName, GetState, PutRunning, Boot, BootFails, RollbackGet,
           RollbackPut, Others, hooks
  <2>3. PortsReady(r) => tick' = tick /\ onStart' = [Idle EXCEPT !.pc = "due"]
    BY DEF PortsReady
  <2>4. ASSUME NEW op \in Ops, Begin(r, op) PROVE UNCHANGED <<tick, onStart>>
    BY <2>4, BeginReads
  <2> QED
    BY <2>1, <2>2, <2>3, <2>4 DEF RequestSteps, StartSteps
<1>2. \A q \in Requests \ {r} : req'[q] = req[q]
  BY OneRequestMoves
<1>3. /\ req'[r].pc = "touch" => req'[r].snap \in Record
      /\ req'[r].pc = "mark" => req'[r].op = "stop"
  <2>1. ASSUME NEW op \in Ops, Begin(r, op)
        PROVE  /\ req'[r].pc = "touch" => req'[r].snap \in Record
               /\ req'[r].pc = "mark" => req'[r].op = "stop"
    <3>1. CASE End(r, "done")
      BY <3>1 DEF End, TypeOK, Fresh
    <3>2. CASE (Exists \/ op = "destroy") /\ Starts(r, op)
      <4>1. /\ req'[r].op = op /\ req'[r].pc = FirstStep[op]
            /\ op = "touch" => req'[r].snap = kv
        BY <3>2 DEF Starts, TypeOK, Fresh
      <4>2. /\ FirstStep[op] = "touch" => op = "touch"
            /\ FirstStep[op] = "mark" => op = "stop"
        BY OpsAssumption DEF OpsAssumption, AllOps, FirstStep
      <4> QED
        BY <3>2, <4>1, <4>2 DEF Exists
    <3> QED
      BY <2>1, <3>1, <3>2, BeginReads
  <2>2. CASE RequestSteps(r)
    <3>1. req'[r].pc \notin {"touch", "mark"}
      BY <2>2 DEF RequestSteps, StartSteps, GetBucketName, SetBucketName, GetState, PutRunning,
         Boot, PortsReady, BootFails, RollbackGet, RollbackPut, MarkStopped, Remove, Touch,
         Destroy, DestroyBegin, DestroyDrained, DestroyPolled, SuperDestroy, Go, End, Fresh,
         TypeOK, RequestType
    <3> QED
      BY <3>1
  <2> QED
    BY <2>1, <2>2
<1> QED
  BY <1>1, <1>2, <1>3 DEF CopiesInv, At, Idle

\* Every step keeps CopiesInv.
LEMMA CopiesStep ==
    ASSUME TypeOK, CopiesInv, [Next]_vars
    PROVE  CopiesInv'
<1>1. CASE Evict
  <2>1. \A r \in Requests : req'[r] = CutOff(req[r])
    BY <1>1 DEF Evict
  <2>2. ASSUME NEW r \in Requests, req'[r].pc \in {"touch", "mark"}
        PROVE  req'[r] = req[r]
    <3>1. CutOff(req[r]) = req[r] \/ CutOff(req[r]).pc \in {"put", "remove", "done", "rollbackGet"}
      BY DEF CutOff, Fresh, TypeOK, RequestType
    <3> QED
      BY <2>1, <2>2, <3>1
  <2>3. onStart' = Idle /\ tick' = Idle
    BY <1>1 DEF Evict
  <2> QED
    BY <2>2, <2>3 DEF CopiesInv, At, Idle
<1>2. CASE Create \/ GracefulExit \/ Crash \/ WindowElapses \/ UNCHANGED vars
  <2>1. UNCHANGED <<onStart, tick, req>>
    BY <1>2 DEF Create, GracefulExit, Crash, WindowElapses, vars, Others, hooks
  <2> QED
    BY <2>1 DEF CopiesInv, At
<1> QED
  BY <1>1, <1>2, HookCopies, TickCopies, RequestCopies DEF Next, DoSteps

\* CopiesInv holds in every reachable state.
LEMMA CopiesInvHolds == Spec => []CopiesInv
<1>1. Init => CopiesInv
  BY DEF Init, CopiesInv, Idle, Fresh, At
<1> QED
  BY <1>1, CopiesStep, TypeCorrect, PTL DEF Spec

\* A step that moves no handler and no request and leaves the record alone.
LEMMA NobodyMoves ==
    ASSUME UNCHANGED <<kv, onStart, onStop, tick, req>>
    PROVE  [Shared!Next]_(Shared!vars)
BY DEF Shared!vars, Holders, HandlerHolds

\* Every step of a hook is a step of the shared record.
LEMMA HookShares ==
    ASSUME TypeOK, CopiesInv,
           OnStartMark \/ OnStartRunning \/ OnStartRead \/ OnStartActive \/ OnStartArm
           \/ OnStopBegin \/ OnStopWrite \/ OnError \/ OnErrorAlive
    PROVE  [Shared!Next]_(Shared!vars)
<1>1. CASE OnStartMark \/ OnStartRunning \/ OnStartRead \/ OnStartActive \/ OnStartArm
  <2>1. OnlyHandler("onStart")
    BY <1>1, WhoHolds DEF OnlyHandler, Handlers, OnStartMark, OnStartRunning, OnStartRead,
       OnStartActive, OnStartArm
  <2>2. CASE OnStartMark \/ OnStartRead \/ OnStartArm
    <3>1. kv' = kv /\ (onStart'.pc \in {"put1", "put2"} => Exists)
      BY <2>2 DEF OnStartMark, OnStartRead, OnStartArm, MayUpdateKv, Idle
    <3> QED
      BY <2>1, <3>1, HandlerFinds, WhoHolds DEF Handlers
  <2>3. CASE OnStartRunning \/ OnStartActive
    <3>1. /\ onStart.pc \in {"put1", "put2"} /\ onStart'.pc \notin {"put1", "put2"}
          /\ kv' \in Record
      BY <2>3 DEF OnStartRunning, OnStartActive, CopiesInv, Idle, Record, TypeOK, HandlerTypeOK
    <3> QED
      BY <2>1, <3>1, HandlerWrites, WhoHolds DEF Handlers
  <2> QED
    BY <1>1, <2>2, <2>3
<1>2. CASE OnStopBegin \/ OnStopWrite
  <2>1. OnlyHandler("onStop")
    BY <1>2, WhoHolds DEF OnlyHandler, Handlers, OnStopBegin, OnStopWrite
  <2>2. CASE OnStopBegin
    <3>1. kv' = kv /\ (onStop' = "put" => Exists)
      BY <2>2 DEF OnStopBegin, MayUpdateKv
    <3> QED
      BY <2>1, <3>1, HandlerFinds, WhoHolds DEF Handlers
  <2>3. CASE OnStopWrite
    <3>1. onStop = "put" /\ onStop' # "put" /\ kv' \in Record
      BY <2>3 DEF OnStopWrite, Record
    <3> QED
      BY <2>1, <3>1, HandlerWrites, WhoHolds DEF Handlers
  <2> QED
    BY <1>2, <2>2, <2>3
<1>3. CASE OnError \/ OnErrorAlive
  BY <1>3, NobodyMoves DEF OnError, OnErrorAlive, hooks
<1> QED
  BY <1>1, <1>2, <1>3

\* Every step of the tick is a step of the shared record.
LEMMA TickShares ==
    ASSUME TypeOK, CopiesInv, CollectMetrics
    PROVE  [Shared!Next]_(Shared!vars)
<1>1. OnlyHandler("tick")
  <2>1. UNCHANGED <<req, onStart, onStop>>
    BY DEF CollectMetrics, TickUnconfirmed, TickConfirm, TickRunning, TickStopped, TickIdle,
       TickNotIdle, TickNoHealth, TickZombie, TickHealth, TickRead, TickWrite, TickQuota,
       TickPing, TickStop, TickRearm, TickLast, hooks
  <2> QED
    BY <2>1, WhoHolds DEF OnlyHandler, Handlers
<1>2. CASE TickStopped \/ TickWrite
  <2>1. /\ tick.pc \in {"write", "confirm", "idlePut"} /\ kv' \in Record
        /\ tick'.pc \notin {"write", "confirm", "idlePut"}
    BY <1>2 DEF TickStopped, TickWrite, CopiesInv, Idle, Record
  <2> QED
    BY <1>1, <2>1, HandlerWrites, WhoHolds DEF Handlers
<1>3. CASE TickConfirm \/ TickIdle \/ TickRead
  <2>1. kv' = kv /\ (tick'.pc \in {"write", "confirm", "idlePut"} => Exists)
    BY <1>3 DEF TickConfirm, TickIdle, TickRead, MayUpdateKv, Idle
  <2> QED
    BY <1>1, <2>1, HandlerFinds, WhoHolds DEF Handlers
<1>4. CASE TickUnconfirmed \/ TickRunning \/ TickNotIdle \/ TickNoHealth \/ TickZombie
           \/ TickHealth \/ TickQuota \/ TickPing \/ TickStop \/ TickRearm \/ TickLast
  <2>1. /\ kv' = kv
        /\ tick' = tick \/ tick'.pc \notin {"write", "confirm", "idlePut"}
    BY <1>4 DEF TickUnconfirmed, TickRunning, TickNotIdle, TickNoHealth, TickZombie, TickHealth,
       TickQuota, TickPing, TickStop, TickRearm, TickLast, Idle
  <2> QED
    BY <1>1, <2>1, HandlerFinds, WhoHolds DEF Handlers
<1> QED
  BY <1>2, <1>3, <1>4 DEF CollectMetrics

\* Every step of a request is a step of the shared record.
LEMMA RequestShares ==
    ASSUME TypeOK, CopiesInv, NEW r \in Requests,
           (\E op \in Ops : Begin(r, op)) \/ RequestSteps(r)
    PROVE  [Shared!Next]_(Shared!vars)
<1>1. OnlyRequest(r)
  <2>1. \A g \in Handlers : HandlerHolds(g)' <=> HandlerHolds(g)
    <3>1. /\ UNCHANGED <<onStop, tick>>
          /\ onStart' = onStart \/ (onStart.pc = "idle" /\ onStart'.pc = "due")
      <4>1. Destroy(r) \/ MarkStopped(r) \/ Remove(r) \/ Touch(r)
              => UNCHANGED <<onStop, tick, onStart>>
        BY DEF Destroy, DestroyBegin, DestroyDrained, DestroyPolled, SuperDestroy, MarkStopped,
               Remove, Touch, Others, hooks
      <4>2. GetBucketName(r) \/ SetBucketName(r) \/ GetState(r) \/ PutRunning(r) \/ Boot(r)
              \/ BootFails(r) \/ RollbackGet(r) \/ RollbackPut(r)
              => UNCHANGED <<onStop, tick, onStart>>
        BY DEF GetBucketName, SetBucketName, GetState, PutRunning, Boot, BootFails, RollbackGet,
               RollbackPut, Others, hooks
      <4>3. PortsReady(r) => UNCHANGED <<onStop, tick>> /\ onStart.pc = "idle" /\ onStart'.pc = "due"
        BY DEF PortsReady, Idle
      <4>4. ASSUME NEW op \in Ops, Begin(r, op) PROVE UNCHANGED <<onStop, tick, onStart>>
        BY <4>4, BeginReads
      <4> QED
        BY <4>1, <4>2, <4>3, <4>4 DEF RequestSteps, StartSteps
    <3> QED
      BY <3>1, WhoHolds DEF Handlers
  <2> QED
    BY <2>1, OneRequestMoves DEF OnlyRequest
<1>2. ASSUME NEW op \in Ops, Begin(r, op)
      PROVE  [Shared!Next]_(Shared!vars)
  <2>1. CASE End(r, "done")
    <3>1. ~RequestHolds(req'[r])
      BY <2>1 DEF End, TypeOK, Fresh, RequestHolds, Destroying
    <3> QED
      BY <1>1, <1>2, <3>1, BeginReads, RequestFinds
  <2>2. CASE (Exists \/ op = "destroy") /\ Starts(r, op)
    <3>1. req'[r].op = op /\ req'[r].pc = FirstStep[op]
      BY <2>2 DEF Starts, TypeOK, Fresh
    <3>2. RequestHolds(req'[r]) => op # "destroy"
      BY <3>1 DEF RequestHolds, FirstStep, Destroying
    <3> QED
      BY <1>1, <1>2, <2>2, <3>2, BeginReads, RequestFinds
  <2> QED
    BY <1>2, <2>1, <2>2, BeginReads
<1>3. CASE PutRunning(r) \/ RollbackPut(r) \/ MarkStopped(r) \/ Remove(r) \/ Touch(r)
  <2>1. RequestHolds(req[r]) /\ ~RequestHolds(req'[r])
    BY <1>3 DEF PutRunning, RollbackPut, MarkStopped, Remove, Touch, At, Go, End, CopiesInv,
       TypeOK, RequestType, Fresh, RequestHolds, Destroying
  <2>2. kv' = kv \/ kv' \in Record \cup {"deleted"}
    BY <1>3 DEF PutRunning, RollbackPut, MarkStopped, Remove, Touch, CopiesInv, Record
  <2> QED
    BY <1>1, <2>1, <2>2, RequestWrites, RequestFinds
<1>4. CASE \/ GetBucketName(r) \/ SetBucketName(r) \/ GetState(r) \/ Boot(r) \/ PortsReady(r)
           \/ BootFails(r) \/ RollbackGet(r)
  <2>1. RequestHolds(req'[r]) => RequestHolds(req[r]) \/ Exists
    <3>1. CASE GetBucketName(r) \/ SetBucketName(r) \/ GetState(r)
      BY <3>1 DEF GetBucketName, SetBucketName, GetState, At, RequestHolds
    <3>2. CASE Boot(r) \/ PortsReady(r) \/ BootFails(r) \/ RollbackGet(r)
      BY <3>2 DEF Boot, PortsReady, BootFails, RollbackGet, End, TypeOK, Fresh, RequestHolds,
         Destroying
    <3> QED
      BY <1>4, <3>1, <3>2
  <2>2. kv' = kv
    BY <1>4 DEF GetBucketName, SetBucketName, GetState, Boot, PortsReady, BootFails, RollbackGet
  <2> QED
    BY <1>1, <2>1, <2>2, RequestFinds
<1>5. CASE Destroy(r)
  <2>1. RequestHolds(req'[r]) => RequestHolds(req[r])
    <3>1. CASE DestroyBegin(r) \/ DestroyDrained(r) \/ DestroyPolled(r)
      BY <3>1 DEF DestroyBegin, DestroyDrained, DestroyPolled, At, Go, TypeOK, RequestType,
         RequestHolds, Destroying
    <3>2. CASE SuperDestroy(r)
      BY <3>2 DEF SuperDestroy, At, Go, End, TypeOK, RequestType, Fresh, RequestHolds, Destroying
    <3> QED
      BY <1>5, <3>1, <3>2 DEF Destroy
  <2>2. kv' = kv
    BY <1>5 DEF Destroy, DestroyBegin, DestroyDrained, DestroyPolled, SuperDestroy, Others
  <2> QED
    BY <1>1, <2>1, <2>2, RequestFinds
<1> QED
  BY <1>2, <1>3, <1>4, <1>5 DEF RequestSteps, StartSteps

\* Every step of the session is a step of the shared record.
LEMMA SharedStep ==
    ASSUME TypeOK, CopiesInv, [Next]_vars
    PROVE  [Shared!Next]_(Shared!vars)
<1>1. CASE Evict
  <2>1. \A r \in Requests : RequestHolds(req'[r]) => RequestHolds(req[r])
    <3> SUFFICES ASSUME NEW r \in Requests PROVE RequestHolds(CutOff(req[r])) => RequestHolds(req[r])
      BY <1>1 DEF Evict
    <3>1. /\ CutOff(req[r]) = req[r] \/ CutOff(req[r]).pc \in {"put", "remove", "done", "rollbackGet"}
          /\ CutOff(req[r]).pc = "put" => RequestHolds(req[r])
          /\ CutOff(req[r]).pc = "remove" => RequestHolds(req[r])
      BY DEF CutOff, Fresh, TypeOK, RequestType, RequestHolds, Destroying
    <3> QED
      BY <3>1 DEF RequestHolds, Destroying
  <2>2. \A h \in Handlers : ~HandlerHolds(h)'
    BY <1>1, WhoHolds DEF Evict, Idle, Handlers
  <2>3. Shared!Drop
    BY <1>1, <2>1, <2>2 DEF Evict, Shared!Drop, Holders
  <2> QED
    BY <2>3 DEF Shared!Next
<1>2. CASE Create
  <2>1. UNCHANGED <<onStart, onStop, tick, req>>
    BY <1>2 DEF Create, Others, hooks
  <2>2. UNCHANGED Holders
    BY <2>1 DEF Holders, HandlerHolds
  <2>3. Shared!Create
    BY <1>2, <2>2 DEF Create, Shared!Create, Record
  <2> QED
    BY <2>3 DEF Shared!Next
<1>3. CASE GracefulExit \/ Crash \/ WindowElapses \/ UNCHANGED vars
  BY <1>3, NobodyMoves DEF GracefulExit, Crash, WindowElapses, vars, hooks
<1> QED
  BY <1>1, <1>2, <1>3, HookShares, TickShares, RequestShares DEF Next, DoSteps

\* The handlers of a session and the requests that use its record keep to the rules
\* of SharedRecord: who writes the record has found it before, and writes once.
THEOREM RecordIsShared == Spec => RecordSpec
<1>1. Init => Shared!Init
  BY DEF Init, Shared!Init, Holders, HandlerHolds, RequestHolds, Destroying, Handlers, Idle, Fresh
<1> QED
  BY <1>1, SharedStep, TypeCorrect, CopiesInvHolds, PTL DEF Spec, RecordSpec, Shared!Spec

\* A record that is deleted, and that no handler and no request has found, stays
\* deleted and is not found again: only a copy taken before DELETE can bring it back.
THEOREM DeletedStaysDeleted ==
    Spec => [][kv = "deleted" /\ Holders = {} => kv' = "deleted" /\ Holders' = {}]_vars
<1>1. [Shared!Next]_(Shared!vars)
        => (kv = "deleted" /\ Holders = {} => kv' = "deleted" /\ Holders' = {})
  BY DEF Shared!Next, Shared!vars, Shared!Create, Shared!Find, Shared!WriteBack, Shared!Remove,
         Shared!Drop, Record
<1>2. TypeOK /\ CopiesInv /\ [Next]_vars
        => [kv = "deleted" /\ Holders = {} => kv' = "deleted" /\ Holders' = {}]_vars
  BY <1>1, SharedStep
<1> QED
  BY <1>2, TypeCorrect, CopiesInvHolds, PTL DEF Spec

-----------------------------------------------------------------------------
(* What the liveness properties rest on: while something is still to be put  *)
(* right, whatever will do it stays in place.                                *)

\* The container is gone and the record says running; a tick is armed that will
\* see it, or confirming it, or the exit has yet to be reported (a report is only
\* lost in a reset of the DO).
Forgotten == kv = "running" /\ ~up /\ ids /\ Undisturbed
Armed == alarms > 0 \/ (tick.pc = "confirm" /\ held)
Watched == Armed \/ (notice = "error" /\ events = 0)

\* The container runs and the record says stopped; the loop will look at it again.
WronglyStopped ==
    kv = "stopped" /\ up /\ ids /\ ~shutdownRequested /\ notice = "none" /\ events = 0 /\ Undisturbed
Looping == alarms > 0 \/ tick.pc \in {"activity", "health", "read", "write", "ping", "foot"}

\* The destroy() of a stop or delete has begun.
Tearing(r) == req[r].op \in {"stop", "delete"} /\ req[r].pc \in {"drain", "kill", "super"}

\* While nobody is served, only the beginning of a request changes one.
LEMMA UndisturbedRequests ==
    ASSUME Undisturbed, NEW r \in Requests, (\E op \in Ops : Begin(r, op)) \/ RequestSteps(r)
    PROVE  UNCHANGED <<kv, process, storage, hooks, tick, events>>
<1>1. ~RequestSteps(r)
  <2>1. req[r].pc \in {"ready", "done"}
    BY DEF Undisturbed
  <2>2. StartSteps(r) => req[r].pc \notin {"ready", "done"}
    BY DEF StartSteps, GetBucketName, SetBucketName, GetState, PutRunning, Boot, PortsReady,
           BootFails, RollbackGet, RollbackPut, At
  <2>3. MarkStopped(r) \/ Remove(r) \/ Touch(r) \/ Destroy(r) => req[r].pc \notin {"ready", "done"}
    BY DEF MarkStopped, Remove, Touch, Destroy, DestroyBegin, DestroyDrained, DestroyPolled,
           SuperDestroy, At
  <2> QED
    BY <2>1, <2>2, <2>3 DEF RequestSteps
<1>2. (\E op \in Ops : Begin(r, op)) => UNCHANGED <<kv, process, storage, hooks, tick, events>>
  BY Zenon DEF Begin
<1> QED
  BY <1>1, <1>2

\* While nobody is served no hook but onStop and onError takes a step.
LEMMA UndisturbedHooks ==
    ASSUME Undisturbed
    PROVE  /\ ~OnStartMark /\ ~OnStartRunning /\ ~OnStartRead /\ ~OnStartActive /\ ~OnStartArm
           /\ ~OnStopWrite
BY DEF Undisturbed, OnStartMark, OnStartRunning, OnStartRead, OnStartActive, OnStartArm, OnStopWrite

\* A crash that is watched stays watched until the record says stopped, the container
\* is up again, or a request or a hook takes over: the safety that CrashConverges and
\* LoopNotices rest on.  A reset of the DO delivers the row of the tick it cut again.
THEOREM NoCrashIsForgotten ==
    Spec => [][Forgotten /\ Watched => Watched' \/ kv' = "stopped" \/ up' \/ ~Undisturbed']_vars
<1>1. ASSUME TypeOK, Next, Forgotten, Watched
      PROVE  Watched' \/ kv' = "stopped" \/ up' \/ ~Undisturbed'
  <2> USE <1>1
  <2>0. kv = "running" /\ ~up /\ ids /\ Undisturbed /\ alarms \in Nat /\ MayUpdateKv
    BY DEF Forgotten, TypeOK, StorageTypeOK, MaxAlarms, MayUpdateKv, Exists, Record
  <2>1. ASSUME UNCHANGED <<notice, events, alarms, held, tick>>
        PROVE  Watched'
    BY <2>1 DEF Watched, Armed
  <2>2. ASSUME alarms > 0, alarms' = alarms PROVE Watched'
    BY <2>2 DEF Watched, Armed
  <2>3. CASE OnStopBegin
    <3>1. onStop' = "put"
      BY <2>0, <2>3 DEF OnStopBegin
    <3> QED
      BY <3>1 DEF Undisturbed
  <2>4. CASE OnError
    <3>1. alarms' = 1
      BY <2>4 DEF OnError, DropRowsThenArm
    <3> QED
      BY <3>1 DEF Watched, Armed
  <2>5. ~OnErrorAlive /\ ~TickRunning /\ ~TickHealth /\ ~TickRearm /\ ~TickIdle
    BY <2>0 DEF OnErrorAlive, TickRunning, TickHealth, TickRearm, TickIdle, SeesUp
  <2>6. CASE TickUnconfirmed
    BY <2>2, <2>6 DEF TickUnconfirmed, Fire, rows
  <2>7. CASE TickConfirm
    <3>1. tick'.pc = "confirm" /\ held'
      BY <2>0, <2>7 DEF TickConfirm, TakeRow, Idle
    <3> QED
      BY <3>1 DEF Watched, Armed
  <2>8. CASE TickStopped
    BY <2>8 DEF TickStopped
  <2>9. CASE TickNotIdle \/ TickNoHealth \/ TickZombie \/ TickRead \/ TickWrite \/ TickQuota
             \/ TickPing \/ TickStop \/ TickLast
    <3>1. tick.pc # "confirm"
      BY <2>9 DEF TickNotIdle, TickNoHealth, TickZombie, TickRead, TickWrite, TickQuota, TickPing,
         TickStop, TickLast
    <3>2. alarms' = alarms /\ notice' = notice
      BY <2>9 DEF TickNotIdle, TickNoHealth, TickZombie, TickRead, TickWrite, TickQuota, TickPing,
         TickStop, TickLast, storage, rows, process
    <3>3. CASE TickQuota
      BY <2>2, <3>1, <3>2, <3>3 DEF TickQuota, Spend, Watched, Armed
    <3>4. CASE ~TickQuota
      <4>1. events' = events
        BY <2>0, <2>9, <3>4 DEF TickNotIdle, TickNoHealth, TickZombie, TickRead, TickWrite,
           TickPing, TickStop, TickLast, SeesDown
      <4> QED
        BY <3>1, <3>2, <4>1 DEF Watched, Armed
    <3> QED
      BY <3>3, <3>4
  <2>10. ~Create /\ ~GracefulExit /\ ~Crash
    BY <2>0 DEF Create, GracefulExit, Crash
  <2>11. ASSUME NEW r \in Requests, (\E op \in Ops : Begin(r, op)) \/ RequestSteps(r)
         PROVE  Watched'
    BY <2>0, <2>1, <2>11, UndisturbedRequests DEF storage, rows, process
  <2>12. CASE WindowElapses
    BY <2>1, <2>12 DEF WindowElapses, rows, process
  <2>13. CASE Evict
    <3>1. Armed
      BY <2>13 DEF Evict, Spend, Watched
    <3>2. alarms' > 0
      BY <2>0, <2>13, <3>1 DEF Armed, Evict, OneMore, MaxAlarms
    <3> QED
      BY <3>2 DEF Watched, Armed
  <2> QED
    BY <2>0, <2>3, <2>4, <2>5, <2>6, <2>7, <2>8, <2>9, <2>10, <2>11, <2>12, <2>13, UndisturbedHooks
       DEF Next, DoSteps, CollectMetrics
<1>2. TypeOK /\ [Next]_vars
        => [Forgotten /\ Watched => Watched' \/ kv' = "stopped" \/ up' \/ ~Undisturbed']_vars
  BY <1>1
<1> QED
  BY <1>2, TypeCorrect, PTL DEF Spec

\* A live container that is shown stopped stays in the loop's sight until the record
\* says running or it goes down, unless a request or a hook takes over: the safety
\* that SelfHeal rests on.  A tick that looks at a live container re-arms.
THEOREM HealStaysPending ==
    Spec => [][WronglyStopped /\ Looping => Looping' \/ kv' = "running" \/ ~up' \/ ~Undisturbed']_vars
<1>1. ASSUME TypeOK, Next, WronglyStopped, Looping
      PROVE  Looping' \/ kv' = "running" \/ ~up' \/ ~Undisturbed'
  <2> USE <1>1
  <2>0. /\ kv = "stopped" /\ up /\ ids /\ notice = "none" /\ events = 0 /\ Undisturbed
        /\ alarms \in Nat
    BY DEF WronglyStopped, TypeOK, StorageTypeOK, MaxAlarms
  <2>1. ASSUME UNCHANGED <<alarms, tick>> PROVE Looping'
    BY <2>1 DEF Looping
  <2>2. ASSUME alarms > 0, alarms' = alarms PROVE Looping'
    BY <2>2 DEF Looping
  <2>3. ~OnStopBegin /\ ~OnErrorAlive
    BY <2>0 DEF OnStopBegin, OnErrorAlive
  <2>4. ~SeesDown /\ \A e : ~Spend(e)
    BY <2>0 DEF SeesDown, Spend
  <2>5. /\ ~OnError /\ ~TickUnconfirmed /\ ~TickConfirm /\ ~TickIdle /\ ~TickNoHealth /\ ~TickQuota
        /\ ~TickLast /\ ~TickZombie /\ ~Evict /\ ~Crash
    BY <2>0, <2>4 DEF OnError, TickUnconfirmed, TickConfirm, TickIdle, TickNoHealth, TickQuota,
       TickLast, TickZombie, Evict, Crash
  <2>6. CASE TickRunning \/ TickNotIdle \/ TickHealth \/ TickRead \/ TickWrite \/ TickPing
    <3>1. tick'.pc \in {"activity", "health", "read", "write", "ping", "foot"}
      BY <2>6 DEF TickRunning, TickNotIdle, TickHealth, TickRead, TickWrite, TickPing, Idle
    <3> QED
      BY <3>1 DEF Looping
  <2>7. CASE TickStopped \/ TickStop
    <3>1. alarms' = alarms /\ tick.pc \notin {"activity", "health", "read", "write", "ping", "foot"}
      BY <2>7 DEF TickStopped, TickStop, storage, rows
    <3> QED
      BY <2>2, <3>1 DEF Looping
  <2>8. CASE TickRearm
    <3>1. alarms' > 0
      BY <2>0, <2>8 DEF TickRearm, Arm, OneMore, MaxAlarms
    <3> QED
      BY <3>1 DEF Looping
  <2>9. CASE GracefulExit
    BY <2>9 DEF GracefulExit, Exit
  <2>10. ASSUME NEW r \in Requests, (\E op \in Ops : Begin(r, op)) \/ RequestSteps(r)
         PROVE  Looping'
    BY <2>0, <2>1, <2>10, UndisturbedRequests DEF storage, rows
  <2>11. CASE WindowElapses
    BY <2>1, <2>11 DEF WindowElapses, rows
  <2>12. ~Create
    BY <2>0 DEF Create
  <2> QED
    BY <2>0, <2>3, <2>5, <2>6, <2>7, <2>8, <2>9, <2>10, <2>11, <2>12, UndisturbedHooks
       DEF Next, DoSteps, CollectMetrics
<1>2. TypeOK /\ [Next]_vars
        => [WronglyStopped /\ Looping => Looping' \/ kv' = "running" \/ ~up' \/ ~Undisturbed']_vars
  BY <1>1
<1> QED
  BY <1>2, TypeCorrect, PTL DEF Spec

\* A teardown that found its container up never leaves destroy() before the container
\* is down, whatever else happens meanwhile, unless the DO is reset: the safety that
\* TeardownEnds rests on.
THEOREM TeardownGoesOn ==
    Spec => [][\A r \in Requests : Tearing(r) /\ up /\ events = 0 => Tearing(r)' \/ ~up']_vars
<1>1. ASSUME TypeOK, Next, NEW r \in Requests, Tearing(r), up, events = 0
      PROVE  Tearing(r)' \/ ~up'
  <2> USE <1>1
  <2>0. req \in [Requests -> RequestType]
    BY DEF TypeOK
  <2>1. req[r].op \in {"stop", "delete"} /\ req[r].pc \in {"drain", "kill", "super"}
    BY DEF Tearing
  <2>2. ASSUME req' = req PROVE Tearing(r)'
    BY <2>2 DEF Tearing
  <2>3. CASE DoSteps
    <3>1. req' = req
      BY <2>3 DEF DoSteps, CollectMetrics, OnStartMark, OnStartRunning, OnStartRead, OnStartActive,
         OnStartArm, OnStopBegin, OnStopWrite, OnError, OnErrorAlive, TickUnconfirmed, TickConfirm,
         TickRunning, TickStopped, TickIdle, TickNotIdle, TickNoHealth, TickZombie, TickHealth,
         TickRead, TickWrite, TickQuota, TickPing, TickStop, TickRearm, TickLast
    <3> QED
      BY <2>2, <3>1
  <2>4. CASE Create \/ GracefulExit \/ Crash \/ WindowElapses
    <3>1. req' = req
      BY <2>4 DEF Create, GracefulExit, Crash, WindowElapses
    <3> QED
      BY <2>2, <3>1
  <2>5. ASSUME NEW q \in Requests \ {r}, (\E op \in Ops : Begin(q, op)) \/ RequestSteps(q)
        PROVE  Tearing(r)'
    <3>1. req'[r] = req[r]
      BY <2>5, OneRequestMoves
    <3> QED
      BY <2>1, <3>1 DEF Tearing
  <2>6. ASSUME (\E op \in Ops : Begin(r, op)) \/ RequestSteps(r)
        PROVE  Tearing(r)' \/ ~up'
    <3>1. ~(\E op \in Ops : Begin(r, op))
      BY <2>1 DEF Begin, At
    <3>2. ~StartSteps(r) /\ ~MarkStopped(r) /\ ~Remove(r) /\ ~Touch(r) /\ ~DestroyBegin(r)
      BY <2>1 DEF StartSteps, GetBucketName, SetBucketName, GetState, PutRunning, Boot, PortsReady,
         BootFails, RollbackGet, RollbackPut, MarkStopped, Remove, Touch, DestroyBegin, At
    <3>3. CASE DestroyDrained(r) \/ DestroyPolled(r)
      <4>1. Go(r, "kill") \/ Go(r, "super")
        BY <3>3 DEF DestroyDrained, DestroyPolled
      <4> QED
        BY <2>0, <2>1, <4>1 DEF Go, RequestType, Tearing
    <3>4. CASE SuperDestroy(r)
      BY <3>4 DEF SuperDestroy, Exit
    <3> QED
      BY <2>6, <3>1, <3>2, <3>3, <3>4 DEF RequestSteps, Destroy
  <2>7. ~Evict
    BY DEF Evict, Spend
  <2> QED
    BY <2>3, <2>4, <2>5, <2>6, <2>7 DEF Next
<1>2. TypeOK /\ [Next]_vars
        => [\A r \in Requests : Tearing(r) /\ up /\ events = 0 => Tearing(r)' \/ ~up']_vars
  BY <1>1
<1> QED
  BY <1>2, TypeCorrect, PTL DEF Spec

=============================================================================
