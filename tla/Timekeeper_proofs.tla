-------------------------- MODULE Timekeeper_proofs --------------------------
(***************************************************************************)
(* Proofs about Timekeeper, for any sessions, clamp, quota and bounds: the  *)
(* types, the ledger, the armed alarm, the refinement of UsageLedger, the  *)
(* answers of GET /usage, and that nobody is overcharged while             *)
(* sessionTotals keeps every session.                                      *)
(***************************************************************************)
EXTENDS Timekeeper, TLAPS, FiniteSetTheorems

-----------------------------------------------------------------------------
(* What one ping charges, and what a flush writes.                          *)

\* What a ping charges (handlePing, the clamped delta) lies within the clamp.
LEMMA DeltaType ==
    ASSUME TypeOK, NEW s \in Sessions
    PROVE  Delta(s) \in 0..MaxDelta /\ Delta(s) \in Nat
BY MeterAssumption DEF MeterAssumption, TypeOK, ClientTypeOK, MeterTypeOK, Delta, Least

\* The record a flush writes (buildUpdatedRecord) has the type of a record.
LEMMA RecordFacts ==
    ASSUME TypeOK, NEW amount \in Nat
    PROVE  /\ BuildUpdatedRecord(kv, amount) \in RecordType
           /\ BuildUpdatedRecord(kv, amount).all = kv.all + amount
BY DEF TypeOK, FlushTypeOK, BuildUpdatedRecord, MonthOf, RecordType

\* The numbers the meter's bounds are made of are natural.
LEMMA Constants ==
    /\ NoRecord \in RecordType /\ NoRecord.all = 0
    /\ NoFlush \in FlushType
    /\ NoPing \in PingType
    /\ \A n \in Nat : Unread(n) \in ReadType
BY DEF NoRecord, RecordType, NoFlush, NoPing, Unread, PingType, FlushType, ReadType

\* sessionTotals keeps a key for every session, and drops the oldest at most.
LEMMA KeysType ==
    ASSUME TypeOK, NEW s \in Sessions
    PROVE  /\ Keys(s) \in Seq(Sessions)
           /\ Len(Keys(s)) > MaxEntries => Tail(Keys(s)) \in Seq(Sessions)
<1>1. Keys(s) \in Seq(Sessions)
  BY DEF TypeOK, MeterTypeOK, Keys
<1>2. Len(Keys(s)) > MaxEntries => Keys(s) # << >>
  BY <1>1, MeterAssumption DEF MeterAssumption
<1> QED
  BY <1>1, <1>2

\* A ping that begins, answers or moves on stays within its type.
LEMMA PingValues ==
    ASSUME ClientTypeOK, NEW s \in Sessions
    PROVE  /\ \A x \in PingType : [ping EXCEPT ![s] = x] \in [Sessions -> PingType]
           /\ [ping EXCEPT ![s].pc = "sent"] \in [Sessions -> PingType]
           /\ [ping EXCEPT ![s].pc = "check"] \in [Sessions -> PingType]
           /\ [ping EXCEPT ![s].pc = "charge"] \in [Sessions -> PingType]
<1>1. \A x \in PingType : [ping EXCEPT ![s] = x] \in [Sessions -> PingType]
  BY DEF ClientTypeOK
<1>2. [ping EXCEPT ![s].pc = "sent"] \in [Sessions -> PingType]
  BY DEF ClientTypeOK, PingType
<1>3. [ping EXCEPT ![s].pc = "check"] \in [Sessions -> PingType]
  BY DEF ClientTypeOK, PingType
<1>4. [ping EXCEPT ![s].pc = "charge"] \in [Sessions -> PingType]
  BY DEF ClientTypeOK, PingType
<1> QED
  BY <1>1, <1>2, <1>3, <1>4

-----------------------------------------------------------------------------
(* Type correctness, part by part.                                          *)

\* The initial state has the right types.
LEMMA InitTypeOK == Init => TypeOK
<1> SUFFICES ASSUME Init PROVE TypeOK
  OBVIOUS
<1>1. ClientTypeOK
  BY Constants DEF Init, ClientTypeOK
<1>2. MeterTypeOK
  BY DEF Init, MeterTypeOK
<1>3. FlushTypeOK
  BY Constants DEF Init, FlushTypeOK
<1>4. RestTypeOK
  BY Constants, MeterAssumption DEF MeterAssumption, Init, RestTypeOK
<1> QED
  BY <1>1, <1>2, <1>3, <1>4 DEF TypeOK

\* Every step keeps the types of the sessions' side (ticks and their pings).
LEMMA ClientStep ==
    ASSUME TypeOK, [Next]_vars
    PROVE  ClientTypeOK'
<1>1. ASSUME NEW s \in Sessions, Start(s) \/ Stop(s)
      PROVE  ClientTypeOK'
  BY <1>1 DEF Start, Stop, TypeOK, ClientTypeOK
<1>2. ASSUME NEW s \in Sessions, Tick(s)
      PROVE  ClientTypeOK'
  <2>1. usage' \in [Sessions -> Nat] /\ running' = running
    BY <1>2 DEF Tick, TypeOK, ClientTypeOK
  <2>2. ping' \in [Sessions -> PingType]
    BY <1>2, PingValues DEF Tick, TypeOK, ClientTypeOK
  <2> QED
    BY <2>1, <2>2 DEF TypeOK, ClientTypeOK
<1>3. ASSUME NEW s \in Sessions, HandlePing(s)
      PROVE  ClientTypeOK'
  BY <1>3, PingValues DEF HandlePing, TypeOK, ClientTypeOK
<1>4. ASSUME NEW s \in Sessions, QuotaRead(s)
      PROVE  ClientTypeOK'
  <2>1. [pc |-> "decide", seen |-> kv] \in PingType
    BY DEF TypeOK, FlushTypeOK, PingType
  <2> QED
    BY <1>4, <2>1, PingValues, Constants DEF QuotaRead, TypeOK, ClientTypeOK
<1>5. ASSUME NEW s \in Sessions, QuotaDecide(s)
      PROVE  ClientTypeOK'
  <2>1. usage' \in [Sessions -> Nat]
    BY <1>5 DEF QuotaDecide, TypeOK, ClientTypeOK
  <2>2. running' \in [Sessions -> BOOLEAN]
    BY <1>5 DEF QuotaDecide, TypeOK, ClientTypeOK
  <2>3. ping' \in [Sessions -> PingType]
    BY <1>5, PingValues, Constants DEF QuotaDecide, TypeOK
  <2> QED
    BY <2>1, <2>2, <2>3 DEF ClientTypeOK
<1>6. ASSUME NEW s \in Sessions, TrialAnswered(s)
      PROVE  ClientTypeOK'
  BY <1>6, PingValues, Constants DEF TrialAnswered, TypeOK, ClientTypeOK
<1>7. CASE Evict
  BY <1>7, Constants DEF Evict, TypeOK, ClientTypeOK
<1>8. CASE UNCHANGED clients
  BY <1>8 DEF clients, TypeOK, ClientTypeOK
<1> QED
  BY <1>1, <1>2, <1>3, <1>4, <1>5, <1>6, <1>7, <1>8
     DEF Next, Serve, Flush, vars, AlarmFires, FlushGet, FlushPut, FlushAck, FlushFails, UsageGet,
         UsageAnswer, NewMonth

\* Every step keeps the types of the Timekeeper's storage.
LEMMA MeterStep ==
    ASSUME TypeOK, [Next]_vars
    PROVE  MeterTypeOK'
<1>1. ASSUME NEW s \in Sessions, HandlePing(s)
      PROVE  MeterTypeOK'
  <2>1. Delta(s) \in Nat
    BY DeltaType
  <2>2. entries' \in Seq(Sessions)
    BY <1>1, KeysType DEF HandlePing
  <2>3. total' \in [Sessions -> Nat]
    BY <1>1 DEF HandlePing, TypeOK, ClientTypeOK, MeterTypeOK
  <2>4. pending' \in Nat /\ accepted' \in Nat
    BY <1>1, <2>1 DEF HandlePing, TypeOK, MeterTypeOK
  <2>5. charged' \in [Sessions -> Nat]
    BY <1>1, <2>1 DEF HandlePing, TypeOK, MeterTypeOK
  <2> QED
    BY <2>2, <2>3, <2>4, <2>5 DEF MeterTypeOK
<1>2. CASE FlushAck
  BY <1>2 DEF FlushAck, TypeOK, MeterTypeOK, FlushTypeOK, FlushType
<1>3. CASE UNCHANGED meter
  BY <1>3 DEF meter, TypeOK, MeterTypeOK
<1> QED
  BY <1>1, <1>2, <1>3
     DEF Next, Serve, Flush, vars, Start, Stop, Tick, QuotaRead, QuotaDecide, TrialAnswered,
         AlarmFires, FlushGet, FlushPut, FlushFails, Evict, UsageGet, UsageAnswer, NewMonth

\* Every step keeps the types of the flush in flight.
LEMMA FlushStep ==
    ASSUME TypeOK, [Next]_vars
    PROVE  FlushTypeOK'
<1>1. ASSUME NEW s \in Sessions, HandlePing(s)
      PROVE  FlushTypeOK'
  BY <1>1 DEF HandlePing, TypeOK, FlushTypeOK, ledger
<1>2. CASE AlarmFires
  BY <1>2, Constants DEF AlarmFires, NoFlush, FlushType, TypeOK, MeterTypeOK, FlushTypeOK, ledger
<1>3. CASE FlushGet
  <2>1. BuildUpdatedRecord(kv, flush.amount) \in RecordType
    BY RecordFacts DEF TypeOK, FlushTypeOK, FlushType
  <2> QED
    BY <1>3, <2>1 DEF FlushGet, TypeOK, FlushTypeOK, FlushType, ledger
<1>4. CASE FlushPut
  BY <1>4 DEF FlushPut, TypeOK, FlushTypeOK, FlushType
<1>5. CASE FlushAck
  BY <1>5, Constants DEF FlushAck, TypeOK, FlushTypeOK, ledger
<1>6. CASE FlushFails \/ Evict
  <2>1. Twice \in Nat
    BY DEF Twice, TypeOK, FlushTypeOK, FlushType
  <2>2. recounted' = recounted + Twice /\ flush' = NoFlush /\ UNCHANGED <<kv, month>>
    BY <1>6 DEF FlushFails, Evict
  <2>3. alarm' \in BOOLEAN
    BY <1>6 DEF FlushFails, Evict, TypeOK, FlushTypeOK
  <2> QED
    BY <2>1, <2>2, <2>3, Constants DEF TypeOK, FlushTypeOK
<1>7. CASE NewMonth
  BY <1>7 DEF NewMonth, TypeOK, FlushTypeOK, flushing, ledger
<1>8. CASE UNCHANGED <<flushing, ledger, month>>
  BY <1>8 DEF flushing, ledger, TypeOK, FlushTypeOK
<1> QED
  BY <1>1, <1>2, <1>3, <1>4, <1>5, <1>6, <1>7, <1>8
     DEF Next, Serve, Flush, vars, Start, Stop, Tick, QuotaRead, QuotaDecide, TrialAnswered,
         UsageGet, UsageAnswer

\* The amounts of the ledger are natural numbers.
LEMMA Amounts ==
    ASSUME TypeOK
    PROVE  /\ kv.all \in Nat /\ pending \in Nat /\ accepted \in Nat /\ recounted \in Nat
           /\ flush.amount \in Nat /\ Twice \in Nat
BY DEF TypeOK, MeterTypeOK, FlushTypeOK, FlushType, RecordType, Twice

\* Every step keeps the types of the usage reads and the history.
LEMMA RestStep ==
    ASSUME TypeOK, [Next]_vars
    PROVE  RestTypeOK'
<1>1. ASSUME NEW s \in Sessions, QuotaRead(s) \/ QuotaDecide(s) \/ TrialAnswered(s)
      PROVE  RestTypeOK'
  <2>1. read' = read
    BY <1>1 DEF QuotaRead, QuotaDecide, TrialAnswered
  <2>2. stripe' \in Nat
    BY <1>1 DEF QuotaRead, QuotaDecide, TrialAnswered, trial, TypeOK, RestTypeOK
  <2>3. faults' \in Nat
    BY <1>1 DEF QuotaRead, QuotaDecide, TrialAnswered, Fault, TypeOK, RestTypeOK
  <2>4. trialEnded' \in BOOLEAN
    BY <1>1 DEF QuotaRead, QuotaDecide, TrialAnswered, trial, TypeOK, RestTypeOK
  <2> QED
    BY <2>1, <2>2, <2>3, <2>4 DEF TypeOK, RestTypeOK
<1>2. CASE FlushFails
  BY <1>2 DEF FlushFails, Fault, trial, TypeOK, RestTypeOK
<1>3. CASE Evict
  BY <1>3, Constants DEF Evict, Fault, trial, TypeOK, RestTypeOK, ReadType
<1>4. CASE UsageGet
  <2>1. PICK seen \in {kv, NoRecord} :
          /\ read' = [pc |-> "get", seen |-> seen, asOf |-> accepted + recounted,
                      left |-> read.left - 1]
          /\ faults' = faults \/ (faults > 0 /\ faults' = faults - 1)
    BY <1>4 DEF UsageGet, Fault
  <2>2. seen \in RecordType /\ accepted + recounted \in Nat
    BY Constants, Amounts DEF TypeOK, FlushTypeOK
  <2>3. read' \in ReadType
    BY <1>4, <2>1, <2>2 DEF UsageGet, TypeOK, RestTypeOK, ReadType
  <2> QED
    BY <1>4, <2>1, <2>3 DEF UsageGet, trial, TypeOK, RestTypeOK
<1>5. CASE UsageAnswer
  BY <1>5, Constants DEF UsageAnswer, trial, TypeOK, RestTypeOK, ReadType
<1>6. CASE UNCHANGED <<read, trial, faults>>
  BY <1>6 DEF trial, TypeOK, RestTypeOK
<1> QED
  BY <1>1, <1>2, <1>3, <1>4, <1>5, <1>6
     DEF Next, Serve, Flush, vars, Start, Stop, Tick, HandlePing, AlarmFires, FlushGet, FlushPut,
         FlushAck, NewMonth

\* Every variable of the meter keeps its type.
THEOREM MeterTypeCorrect == Spec => []TypeOK
<1>1. TypeOK /\ [Next]_vars => TypeOK'
  BY ClientStep, MeterStep, FlushStep, RestStep DEF TypeOK
<1> QED
  BY InitTypeOK, <1>1, PTL DEF Spec

-----------------------------------------------------------------------------
(* The ledger.                                                              *)

\* A ping adds the same amount to pending and to the charge (handlePing).
LEMMA PingEffect ==
    ASSUME NEW s \in Sessions, HandlePing(s)
    PROVE  /\ pending' = pending + Delta(s) /\ accepted' = accepted + Delta(s)
           /\ Delta(s) > 0 => alarm'
           /\ alarm => alarm'
           /\ UNCHANGED <<flush, kv, recounted, faults>>
BY DEF HandlePing, ledger

\* A flush in flight holds no more than what is pending, will write exactly that
\* much more than KV holds, and once it has written it KV holds it.
FlushInv ==
    /\ flush.pc # "idle" => flush.amount <= pending
    /\ flush.pc = "put" => flush.record.all = kv.all + flush.amount
    /\ flush.pc = "ack" => flush.amount <= kv.all

LedgerInv == Ledger /\ FlushInv

\* Every step keeps the ledger and what the flush in flight knows of it.
LEMMA LedgerStep ==
    ASSUME TypeOK, LedgerInv, [Next]_vars
    PROVE  LedgerInv'
<1>1. ASSUME NEW s \in Sessions, HandlePing(s)
      PROVE  LedgerInv'
  <2>1. /\ pending' = pending + Delta(s) /\ accepted' = accepted + Delta(s)
        /\ UNCHANGED <<flush, kv, recounted>>
    BY <1>1, PingEffect
  <2>2. Twice' = Twice
    BY <2>1 DEF Twice
  <2>3. Delta(s) \in Nat
    BY DeltaType
  <2>4. Ledger'
    BY <2>1, <2>2, <2>3, Amounts DEF LedgerInv, Ledger
  <2>5. FlushInv'
    BY <2>1, <2>3, Amounts DEF LedgerInv, FlushInv
  <2> QED
    BY <2>4, <2>5 DEF LedgerInv
<1> USE DEF LedgerInv, Ledger, FlushInv, Twice
<1>2. CASE AlarmFires
  BY <1>2 DEF AlarmFires, NoFlush, ledger, meter, TypeOK, MeterTypeOK, FlushTypeOK, RecordType
<1>3. CASE FlushGet
  <2>1. BuildUpdatedRecord(kv, flush.amount).all = kv.all + flush.amount
    BY RecordFacts DEF TypeOK, FlushTypeOK, FlushType
  <2> QED
    BY <1>3, <2>1 DEF FlushGet, ledger, meter, TypeOK, FlushTypeOK, FlushType
<1>4. CASE FlushPut
  BY <1>4 DEF FlushPut, meter, TypeOK, MeterTypeOK, FlushTypeOK, FlushType, RecordType
<1>5. CASE FlushAck
  BY <1>5 DEF FlushAck, NoFlush, ledger, TypeOK, MeterTypeOK, FlushTypeOK, FlushType, RecordType
<1>6. CASE FlushFails \/ Evict
  <2>1. recounted' = recounted + Twice
    BY <1>6 DEF FlushFails, Evict
  <2>2. flush' = NoFlush /\ UNCHANGED <<kv, pending, accepted>>
    BY <1>6 DEF FlushFails, Evict, meter
  <2> QED
    BY <2>1, <2>2, Amounts DEF NoFlush
<1>7. CASE UNCHANGED <<kv, pending, accepted, recounted, flush>>
  BY <1>7
<1> QED
  BY <1>1, <1>2, <1>3, <1>4, <1>5, <1>6, <1>7
     DEF Next, Serve, Flush, vars, Start, Stop, Tick, QuotaRead, QuotaDecide, TrialAnswered,
         UsageGet, UsageAnswer, NewMonth, meter, ledger, flushing

\* The ledger invariant holds in every reachable state.
LEMMA LedgerInvHolds == Spec => []LedgerInv
<1>1. Init => LedgerInv
  BY Constants DEF Init, LedgerInv, Ledger, FlushInv, Twice, NoFlush
<1> QED
  BY <1>1, LedgerStep, MeterTypeCorrect, PTL DEF Spec

\* Not a second is lost, and only a flush that died after its put is counted
\* twice (alarm() takes off what it flushed, after the put).
THEOREM LedgerIsKept == Spec => []Ledger
<1>1. LedgerInv => Ledger
  BY DEF LedgerInv
<1> QED
  BY <1>1, LedgerInvHolds, PTL

\* Pending usage always has an alarm or a flush to carry it to KV.
THEOREM PendingStaysArmed == Spec => []PendingIsArmed
<1>1. Init => PendingIsArmed
  BY DEF Init, PendingIsArmed
<1>2. ASSUME TypeOK, PendingIsArmed, [Next]_vars
      PROVE  PendingIsArmed'
  <2> USE DEF PendingIsArmed
  <2>1. ASSUME NEW s \in Sessions, HandlePing(s)
        PROVE  PendingIsArmed'
    <3>1. Delta(s) = 0 \/ Delta(s) > 0
      BY <1>2, DeltaType
    <3>2. CASE Delta(s) = 0
      BY <1>2, <2>1, <3>2, PingEffect DEF TypeOK, MeterTypeOK
    <3>3. CASE Delta(s) > 0
      BY <2>1, <3>3, PingEffect
    <3> QED
      BY <3>1, <3>2, <3>3
  <2>2. CASE AlarmFires
    BY <1>2, <2>2 DEF AlarmFires, NoFlush, meter, TypeOK, MeterTypeOK
  <2>3. CASE FlushGet
    BY <1>2, <2>3 DEF FlushGet, meter, TypeOK, FlushTypeOK, FlushType
  <2>4. CASE FlushPut
    BY <1>2, <2>4 DEF FlushPut, meter, TypeOK, FlushTypeOK, FlushType
  <2>5. CASE FlushAck
    BY <1>2, <2>5 DEF FlushAck
  <2>6. CASE FlushFails \/ Evict
    BY <1>2, <2>6 DEF FlushFails, Evict, meter
  <2>7. CASE UNCHANGED <<pending, alarm, flush>>
    BY <1>2, <2>7
  <2> QED
    BY <1>2, <2>1, <2>2, <2>3, <2>4, <2>5, <2>6, <2>7
       DEF Next, Serve, Flush, vars, Start, Stop, Tick, QuotaRead, QuotaDecide, TrialAnswered,
           UsageGet, UsageAnswer, NewMonth, meter, flushing
<1> QED
  BY <1>1, <1>2, MeterTypeCorrect, PTL DEF Spec

-----------------------------------------------------------------------------
(* The refinement.                                                          *)

Total == kv.all + pending - Twice

\* Every step of the Timekeeper is a step of UsageLedger or a stutter.
LEMMA PromiseStep ==
    ASSUME TypeOK, LedgerInv, [Next]_vars
    PROVE  Promise!Next \/ UNCHANGED <<Total, faults>>
<1>1. ASSUME NEW s \in Sessions, HandlePing(s)
      PROVE  Promise!Charge
  <2>1. Total' = Total + Delta(s) /\ faults' = faults
    <3>1. pending' = pending + Delta(s) /\ UNCHANGED <<flush, kv, faults>>
      BY <1>1, PingEffect
    <3>2. Twice' = Twice
      BY <3>1 DEF Twice
    <3> QED
      BY <3>1, <3>2, DeltaType, Amounts DEF Total
  <2>2. Total \in Int
    BY DEF Total, Twice, TypeOK, MeterTypeOK, FlushTypeOK, FlushType, RecordType
  <2> QED
    BY <2>1, <2>2, DeltaType, MeterAssumption DEF MeterAssumption, Promise!Charge, Total
<1>2. CASE FlushFails \/ Evict
  <2>1. Total' = Total + Twice /\ Total \in Int /\ Twice \in Nat
    <3>1. flush'.pc = "idle" /\ kv' = kv /\ pending' = pending
      BY <1>2 DEF FlushFails, Evict, NoFlush, meter
    <3>2. Twice' = 0
      BY <3>1 DEF Twice
    <3>3. Twice \in Nat /\ kv.all \in Nat /\ pending \in Nat
      BY DEF Twice, TypeOK, MeterTypeOK, FlushTypeOK, FlushType, RecordType
    <3> QED
      BY <3>1, <3>2, <3>3 DEF Total
  <2>2. Twice <= Total
    BY DEF LedgerInv, FlushInv, Total, Twice, TypeOK, MeterTypeOK, FlushTypeOK, FlushType, RecordType
  <2>3. faults > 0 /\ faults' = faults - 1
    BY <1>2 DEF FlushFails, Evict, Fault
  <2> QED
    BY <2>1, <2>2, <2>3 DEF Promise!Next, Promise!Fault, Total
<1>3. ASSUME UsageGet \/ \E s \in Sessions : QuotaRead(s) \/ TrialAnswered(s)
      PROVE  Promise!Next \/ UNCHANGED <<Total, faults>>
  <2>1. Total' = Total
    BY <1>3 DEF QuotaRead, TrialAnswered, UsageGet, meter, flushing, ledger, Total, Twice
  <2>2. Total \in Nat
    BY DEF LedgerInv, FlushInv, Total, Twice, TypeOK, MeterTypeOK, FlushTypeOK, FlushType, RecordType
  <2>3. faults' = faults \/ (faults > 0 /\ faults' = faults - 1)
    BY <1>3 DEF QuotaRead, TrialAnswered, UsageGet, Fault
  <2> QED
    BY <2>1, <2>2, <2>3 DEF Promise!Next, Promise!Fault, Total
<1>4. CASE AlarmFires
  BY <1>4 DEF AlarmFires, NoFlush, meter, ledger, Total, Twice
<1>5. CASE FlushGet
  BY <1>5 DEF FlushGet, meter, ledger, Total, Twice, TypeOK, FlushTypeOK, FlushType
<1>6. CASE FlushPut
  BY <1>6 DEF FlushPut, meter, Total, Twice, LedgerInv, FlushInv, TypeOK, MeterTypeOK, FlushTypeOK,
     FlushType, RecordType
<1>7. CASE FlushAck
  BY <1>7 DEF FlushAck, NoFlush, ledger, Total, Twice, LedgerInv, FlushInv, TypeOK, MeterTypeOK,
     FlushTypeOK, FlushType, RecordType
<1>8. CASE UNCHANGED <<kv, pending, flush, faults>>
  BY <1>8 DEF Total, Twice
<1> QED
  BY <1>1, <1>2, <1>3, <1>4, <1>5, <1>6, <1>7, <1>8
     DEF Promise!Next, Next, Serve, Flush, vars, Start, Stop, Tick, QuotaDecide, UsageAnswer,
         NewMonth, meter, ledger, flushing

\* The Timekeeper keeps the promise of UsageLedger: nothing charged is taken
\* back, a ping charges at most the clamp, only a fault charges twice.
THEOREM PromiseIsKept == Spec => LedgerSpec
<1>1. Init => Promise!Init
  BY Constants DEF Init, Promise!Init, Twice, NoFlush
<1>2. TypeOK /\ LedgerInv /\ [Next]_vars => [Promise!Next]_<<kv.all + pending - Twice, faults>>
  BY PromiseStep DEF Total
<1> QED
  BY <1>1, <1>2, MeterTypeCorrect, LedgerInvHolds, PTL DEF Spec, LedgerSpec, Promise!Spec

-----------------------------------------------------------------------------
(* Nobody is overcharged.                                                   *)

\* sessionTotals has each key once.
EntriesOnce == \A i, j \in DOMAIN entries : entries[i] = entries[j] => i = j

\* What a session was charged is within its last total, which is within its usage.
Metered == \A s \in Sessions : charged[s] <= total[s] /\ total[s] <= usage[s]

\* A list that has each session at most once is no longer than the sessions are many.
LEMMA OnceIsShort ==
    ASSUME IsFiniteSet(Sessions), NEW list \in Seq(Sessions),
           \A i, j \in DOMAIN list : list[i] = list[j] => i = j
    PROVE  Len(list) <= Cardinality(Sessions)
<1> DEFINE places == 1..Len(list)
<1>1. Len(list) \in Nat /\ list \in [places -> Sessions] /\ DOMAIN list = places
  OBVIOUS
<1>2. IsFiniteSet(places) /\ Cardinality(places) = Len(list)
  BY <1>1, FS_Interval
<1>3. Cardinality(Sessions) \in Nat
  BY FS_CardinalityType
<1>4. \A i, j \in places : list[i] = list[j] => i = j
  BY <1>1
<1> HIDE DEF places
<1>5. ASSUME Cardinality(Sessions) < Cardinality(places) PROVE FALSE
  <2>1. \E i, j \in places : i # j /\ list[i] = list[j]
    BY <1>1, <1>2, <1>5, FS_PigeonHole
  <2> QED
    BY <1>4, <2>1
<1> QED
  BY <1>2, <1>3, <1>5

\* A key is added where it is not there yet (handlePing), so the keys stay apart.
LEMMA KeysOnce ==
    ASSUME TypeOK, EntriesOnce, NEW s \in Sessions
    PROVE  \A i, j \in DOMAIN Keys(s) : Keys(s)[i] = Keys(s)[j] => i = j
<1>1. entries \in Seq(Sessions)
  BY DEF TypeOK, MeterTypeOK
<1>2. CASE \E i \in DOMAIN entries : entries[i] = s
  BY <1>2 DEF Keys, EntriesOnce
<1>3. CASE ~\E i \in DOMAIN entries : entries[i] = s
  <2>1. Keys(s) = Append(entries, s)
    BY <1>3 DEF Keys
  <2>2. /\ DOMAIN entries = 1..Len(entries) /\ Len(entries) \in Nat
        /\ DOMAIN Keys(s) = 1..(Len(entries) + 1)
        /\ Keys(s)[Len(entries) + 1] = s
        /\ \A i \in 1..Len(entries) : Keys(s)[i] = entries[i]
    BY <1>1, <2>1
  <2> QED
    BY <1>3, <2>2 DEF EntriesOnce
<1> QED
  BY <1>2, <1>3

\* With a place for every session, sessionTotals drops none.
LEMMA NoneIsDropped ==
    ASSUME IsFiniteSet(Sessions), Cardinality(Sessions) <= MaxEntries,
           TypeOK, EntriesOnce, NEW s \in Sessions
    PROVE  ~(Len(Keys(s)) > MaxEntries)
<1>1. Keys(s) \in Seq(Sessions)
  BY KeysType
<1>2. Len(Keys(s)) <= Cardinality(Sessions) /\ Len(Keys(s)) \in Nat
  BY <1>1, KeysOnce, OnceIsShort
<1> QED
  BY <1>2, FS_CardinalityType, MeterAssumption DEF MeterAssumption

\* A ping charges what the session ran since its last one, or less (the clamp).
LEMMA MeteredStep ==
    ASSUME IsFiniteSet(Sessions), Cardinality(Sessions) <= MaxEntries,
           TypeOK, EntriesOnce, Metered, [Next]_vars
    PROVE  EntriesOnce' /\ Metered'
<1>1. ASSUME NEW s \in Sessions, HandlePing(s)
      PROVE  EntriesOnce' /\ Metered'
  <2>1. ~(Len(Keys(s)) > MaxEntries)
    BY NoneIsDropped
  <2>2. EntriesOnce'
    <3>1. entries' = Keys(s)
      BY <1>1, <2>1 DEF HandlePing
    <3> QED
      BY <3>1, KeysOnce DEF EntriesOnce
  <2>3. /\ total' = [t \in Sessions |-> IF t = s THEN usage[s] ELSE total[t]]
        /\ charged' = [charged EXCEPT ![s] = @ + Delta(s)]
        /\ usage' = usage
    BY <1>1, <2>1 DEF HandlePing
  <2>4. /\ usage \in [Sessions -> Nat] /\ total \in [Sessions -> Nat]
        /\ charged \in [Sessions -> Nat]
    BY DEF TypeOK, ClientTypeOK, MeterTypeOK
  <2>5. Delta(s) \in Nat /\ Delta(s) <= usage[s] - total[s]
    BY <2>4, DeltaType, MeterAssumption DEF MeterAssumption, Metered, Delta, Least
  <2>6. Metered'
    BY <2>3, <2>4, <2>5 DEF Metered
  <2> QED
    BY <2>2, <2>6
<1>2. ASSUME NEW s \in Sessions, Tick(s)
      PROVE  EntriesOnce' /\ Metered'
  <2>1. UNCHANGED <<entries, total, charged>> /\ usage' = [usage EXCEPT ![s] = @ + 1]
    BY <1>2 DEF Tick, meter
  <2>2. /\ usage \in [Sessions -> Nat] /\ total \in [Sessions -> Nat]
    BY DEF TypeOK, ClientTypeOK, MeterTypeOK
  <2> QED
    BY <2>1, <2>2 DEF EntriesOnce, Metered
<1>3. CASE UNCHANGED <<usage, total, entries, charged>>
  BY <1>3 DEF EntriesOnce, Metered
<1> QED
  BY <1>1, <1>2, <1>3
     DEF Next, Serve, Flush, vars, Start, Stop, QuotaRead, QuotaDecide, TrialAnswered,
         AlarmFires, FlushGet, FlushPut, FlushAck, FlushFails, Evict, UsageGet, UsageAnswer,
         NewMonth, clients, meter

\* No session is charged for more than it ran (handlePing), through lost pings, faults
\* and resets, as long as sessionTotals has a place for every session.
THEOREM NoneIsOvercharged ==
    ASSUME IsFiniteSet(Sessions), Cardinality(Sessions) <= MaxEntries
    PROVE  Spec => []NoOvercharge
<1>1. Init => EntriesOnce /\ Metered
  BY DEF Init, EntriesOnce, Metered
<1>2. TypeOK /\ EntriesOnce /\ Metered /\ [Next]_vars => EntriesOnce' /\ Metered'
  BY MeteredStep
<1>3. TypeOK /\ Metered => NoOvercharge
  BY DEF TypeOK, ClientTypeOK, MeterTypeOK, Metered, NoOvercharge
<1> QED
  BY <1>1, <1>2, <1>3, MeterTypeCorrect, PTL DEF Spec

-----------------------------------------------------------------------------
(* What GET /usage answers.                                                 *)

\* A request in flight knows no more of the ledger than the ledger has by now.
ReadInv ==
    read.pc = "get" => read.seen.all <= kv.all /\ read.asOf <= accepted + recounted

\* KV's sum and what was ever charged only grow.
LEMMA SumsGrow ==
    ASSUME TypeOK, LedgerInv, [Next]_vars
    PROVE  kv'.all >= kv.all /\ accepted' + recounted' >= accepted + recounted
<1>1. ASSUME NEW s \in Sessions, HandlePing(s)
      PROVE  kv' = kv /\ accepted' = accepted + Delta(s) /\ recounted' = recounted /\ Delta(s) \in Nat
  BY <1>1, PingEffect, DeltaType
<1>2. CASE FlushPut
  BY <1>2, Amounts DEF FlushPut, meter, LedgerInv, FlushInv
<1>3. CASE FlushFails \/ Evict
  BY <1>3, Amounts DEF FlushFails, Evict, meter
<1>4. CASE UNCHANGED <<kv, accepted, recounted>>
  BY <1>4, Amounts
<1>5. CASE \E s \in Sessions : HandlePing(s)
  BY <1>1, <1>5, Amounts
<1> QED
  BY <1>2, <1>3, <1>4, <1>5
     DEF Next, Serve, Flush, vars, Start, Stop, Tick, QuotaRead, QuotaDecide, TrialAnswered,
         AlarmFires, FlushGet, FlushAck, UsageGet, UsageAnswer, NewMonth, meter, ledger

LEMMA ReadStep ==
    ASSUME TypeOK, LedgerInv, ReadInv, [Next]_vars
    PROVE  ReadInv'
<1>1. /\ read.seen.all \in Nat /\ read.asOf \in Nat
      /\ kv'.all \in Nat /\ accepted' \in Nat /\ recounted' \in Nat
  <2>1. read.seen.all \in Nat /\ read.asOf \in Nat
    BY DEF TypeOK, RestTypeOK, ReadType, RecordType
  <2>2. accepted' \in Nat
    BY MeterStep DEF MeterTypeOK
  <2>3. kv'.all \in Nat /\ recounted' \in Nat
    BY FlushStep DEF FlushTypeOK, RecordType
  <2> QED
    BY <2>1, <2>2, <2>3
<1>2. CASE UsageGet
  <2>1. UNCHANGED <<kv, accepted, recounted>>
    BY <1>2 DEF UsageGet, meter, ledger
  <2>2. read'.seen \in {kv, NoRecord} /\ read'.asOf = accepted + recounted
    BY <1>2 DEF UsageGet
  <2> QED
    BY <2>1, <2>2, Amounts, Constants DEF ReadInv
<1>3. CASE UsageAnswer \/ Evict
  BY <1>3 DEF UsageAnswer, Evict, Unread, ReadInv
<1>4. CASE read' = read
  BY <1>1, <1>4, SumsGrow, Amounts DEF ReadInv
<1> QED
  BY <1>2, <1>3, <1>4
     DEF Next, Serve, Flush, vars, Start, Stop, Tick, HandlePing, QuotaRead, QuotaDecide,
         TrialAnswered, AlarmFires, FlushGet, FlushPut, FlushAck, FlushFails, NewMonth

\* What GET /usage answers misses no more than KV holds and its read did not see (all of
\* it, if the read failed), and repeats no more than the flush in flight has put there,
\* however many overlap it.
THEOREM UsageAnswerIsBounded == Spec => UsageReadIsBounded
<1>1. Init => ReadInv
  BY DEF Init, ReadInv, Unread
<1>2. ASSUME TypeOK, LedgerInv, ReadInv, read.pc = "get", MonthOf(read.seen) = read.seen.all
      PROVE  /\ MonthlySeconds <= accepted + recounted + Twice
             /\ MonthlySeconds + (kv.all - read.seen.all) >= read.asOf
  <2>1. read.seen.all \in Nat /\ read.asOf \in Nat
    BY <1>2 DEF TypeOK, RestTypeOK, ReadType, RecordType
  <2>2. MonthlySeconds = read.seen.all + pending
    BY <1>2 DEF MonthlySeconds
  <2>3. read.seen.all <= kv.all /\ read.asOf <= accepted + recounted
    BY <1>2 DEF ReadInv
  <2>4. kv.all + pending - Twice = accepted + recounted
    BY <1>2 DEF LedgerInv, Ledger
  <2> QED
    BY <1>2, <2>1, <2>2, <2>3, <2>4, Amounts
<1>3. TypeOK /\ LedgerInv /\ ReadInv /\ [Next]_vars
        => [read.pc = "get" /\ read'.pc = "idle" /\ faults' = faults
                /\ MonthOf(read.seen) = read.seen.all
            => /\ MonthlySeconds <= accepted + recounted + Twice
               /\ MonthlySeconds + (kv.all - read.seen.all) >= read.asOf]_vars
  BY <1>2
<1>4. TypeOK /\ LedgerInv /\ ReadInv /\ [Next]_vars => ReadInv'
  BY ReadStep
<1> QED
  BY <1>1, <1>3, <1>4, MeterTypeCorrect, LedgerInvHolds, PTL DEF Spec, UsageReadIsBounded

=============================================================================
