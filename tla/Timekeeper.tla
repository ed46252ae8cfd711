----------------------------- MODULE Timekeeper -----------------------------
(***************************************************************************)
(* The usage meter of one user: the Timekeeper DO, the container DOs that  *)
(* ping it, its flush alarm and the usage record in KV.  One unit of time  *)
(* is the 60 s of a metrics tick.                                          *)
(*                                                                         *)
(* A handler is cut at its KV and Stripe calls.  The meter's memory and    *)
(* its DO storage agree at every cut (each change of pendingSeconds and    *)
(* sessionTotals is put in the same turn), so they are one variable each;  *)
(* a reset of the DO only loses the handlers in flight.                    *)
(***************************************************************************)
EXTENDS Integers, Sequences, FiniteSets

CONSTANTS
    Sessions,
    MaxDelta,     \* MAX_DELTA_PER_PING
    MaxEntries,   \* MAX_SESSION_ENTRIES
    Quota,        \* what the tier (or the trial) allows in a month
    Trialing,     \* the subscription is in its trial
    MaxUsage,     \* bound: the longest a session runs
    MaxFaults,    \* bound: KV failures and resets of the DO
    MaxMonth,     \* bound: calendar months
    MaxReads      \* bound: GET /usage requests

ASSUME MeterAssumption ==
    /\ MaxDelta \in Nat \ {0} /\ MaxEntries \in Nat \ {0} /\ Quota \in Nat
    /\ Trialing \in BOOLEAN
    /\ MaxUsage \in Nat /\ MaxFaults \in Nat /\ MaxMonth \in Nat /\ MaxReads \in Nat

VARIABLES
    usage,      \* container DOs: usageSeconds, never reset
    running,    \* container DOs: the container runs and its loop ticks
    ping,       \* the ping of each session, with the record its check read
    total,      \* sessionTotals: the last total of a session, 0 if none
    entries,    \* sessionTotals: its keys, oldest first
    pending,    \* pendingSeconds
    alarm,      \* a flush alarm is set
    flush,      \* the alarm handler in flight
    read,       \* GET /usage: the one in flight, what it read, the true usage when
                \* it began, and how many may still come
    trialEnded, \* the trialEnded flag
    kv,         \* the usage record in KV
    month,      \* the calendar month
    faults,     \* faults left
    charged,    \* history: units charged to each session
    accepted,   \* history: units charged in all
    recounted,  \* history: units that reached KV twice
    stripe      \* history: calls of endTrialNow

meter   == <<total, entries, pending, charged, accepted>>
clients == <<usage, running, ping>>
ledger  == <<kv, recounted>>
trial   == <<trialEnded, stripe>>
flushing == <<alarm, flush>>
vars == <<clients, meter, flushing, read, trial, ledger, month, faults>>

-----------------------------------------------------------------------------

RecordType == [month : Nat, seconds : Nat, all : Nat]
NoRecord == [month |-> 0, seconds |-> 0, all |-> 0]
NoFlush == [pc |-> "idle", amount |-> 0, record |-> NoRecord]
Unread(left) == [pc |-> "idle", seen |-> NoRecord, asOf |-> 0, left |-> left]
NoPing == [pc |-> "idle", seen |-> NoRecord]

PingType == [pc : {"idle", "sent", "check", "decide", "charge"}, seen : RecordType]
FlushType == [pc : {"idle", "get", "put", "ack"}, amount : Nat, record : RecordType]
ReadType == [pc : {"idle", "get"}, seen : RecordType, asOf : Nat, left : Nat]

ClientTypeOK ==
    /\ usage \in [Sessions -> Nat] /\ running \in [Sessions -> BOOLEAN]
    /\ ping \in [Sessions -> PingType]

MeterTypeOK ==
    /\ total \in [Sessions -> Nat] /\ entries \in Seq(Sessions)
    /\ pending \in Nat /\ charged \in [Sessions -> Nat] /\ accepted \in Nat

FlushTypeOK ==
    /\ alarm \in BOOLEAN /\ flush \in FlushType
    /\ kv \in RecordType /\ recounted \in Nat /\ month \in Nat

RestTypeOK ==
    /\ read \in ReadType /\ faults \in Nat
    /\ trialEnded \in BOOLEAN /\ stripe \in Nat

TypeOK == ClientTypeOK /\ MeterTypeOK /\ FlushTypeOK /\ RestTypeOK

Init ==
    /\ usage = [s \in Sessions |-> 0] /\ running = [s \in Sessions |-> FALSE]
    /\ ping = [s \in Sessions |-> NoPing]
    /\ total = [s \in Sessions |-> 0] /\ entries = << >>
    /\ pending = 0 /\ alarm = FALSE /\ flush = NoFlush /\ read = Unread(MaxReads)
    /\ trialEnded = FALSE /\ stripe = 0
    /\ kv = NoRecord /\ month = 1 /\ faults = MaxFaults
    /\ charged = [s \in Sessions |-> 0] /\ accepted = 0 /\ recounted = 0

-----------------------------------------------------------------------------
(* The usage record.                                                        *)

MonthOf(record) == IF record.month = month THEN record.seconds ELSE 0

\* buildUpdatedRecord; the other periods roll over as the month does.
BuildUpdatedRecord(record, seconds) ==
    [month |-> month, seconds |-> MonthOf(record) + seconds, all |-> record.all + seconds]

Fault == faults > 0 /\ faults' = faults - 1

-----------------------------------------------------------------------------
(* The container DOs.                                                       *)

\* POST /start refuses when the record says the quota is used up.
Start(s) ==
    /\ ~running[s]
    /\ MonthOf(kv) < Quota
    /\ running' = [running EXCEPT ![s] = TRUE]
    /\ UNCHANGED <<usage, ping, meter, flushing, read, trial, ledger, month, faults>>

Stop(s) ==
    /\ running[s] /\ ping[s].pc = "idle"
    /\ running' = [running EXCEPT ![s] = FALSE]
    /\ UNCHANGED <<usage, ping, meter, flushing, read, trial, ledger, month, faults>>

\* The tick counts 60 s and pings; the ping may fail to get through.
Tick(s) ==
    /\ running[s] /\ ping[s].pc = "idle" /\ usage[s] < MaxUsage
    /\ usage' = [usage EXCEPT ![s] = @ + 1]
    /\ \/ ping' = [ping EXCEPT ![s].pc = "sent"]
       \/ UNCHANGED ping
    /\ UNCHANGED <<running, meter, flushing, read, trial, ledger, month, faults>>

-----------------------------------------------------------------------------
(* The Timekeeper: POST /ping.                                              *)

Least(a, b) == IF a < b THEN a ELSE b

\* (mutant: the last total is ignored)
DeltaFromZero(s) == Least(usage[s], MaxDelta)

\* A total below the last one means the session's counter restarted.
Delta(s) == Least(IF usage[s] < total[s] THEN usage[s] ELSE usage[s] - total[s], MaxDelta)

\* sessionTotals[s] = totalSeconds, and the oldest key goes when there are
\* too many.  A key that is there keeps its place.
Keys(s) == IF \E i \in DOMAIN entries : entries[i] = s THEN entries ELSE Append(entries, s)

HandlePing(s) ==
    /\ ping[s].pc = "sent"
    /\ entries' = IF Len(Keys(s)) > MaxEntries THEN Tail(Keys(s)) ELSE Keys(s)
    /\ total' = [t \in Sessions |->
                    IF Len(Keys(s)) > MaxEntries /\ t = Head(Keys(s)) THEN 0
                    ELSE IF t = s THEN usage[s] ELSE total[t]]
    /\ pending' = pending + Delta(s)
    /\ alarm' = (alarm \/ Delta(s) > 0)
    /\ charged' = [charged EXCEPT ![s] = @ + Delta(s)]
    /\ accepted' = accepted + Delta(s)
    /\ ping' = [ping EXCEPT ![s].pc = "check"]
    /\ UNCHANGED <<usage, running, flush, read, trial, ledger, month, faults>>

\* The quota check reads the record; it fails open.
QuotaRead(s) ==
    /\ ping[s].pc = "check"
    /\ \/ ping' = [ping EXCEPT ![s] = [pc |-> "decide", seen |-> kv]] /\ UNCHANGED faults
       \/ Fault /\ ping' = [ping EXCEPT ![s] = NoPing]
    /\ UNCHANGED <<usage, running, meter, flushing, read, trial, ledger, month>>

Exceeded(s) == MonthOf(ping[s].seen) + pending >= Quota

\* The reply: when the quota is used up the container DO stops its container,
\* after the trial, if there is one, has been ended at Stripe.
QuotaDecide(s) ==
    /\ ping[s].pc = "decide"
    /\ IF Exceeded(s) /\ Trialing /\ ~trialEnded
       THEN /\ stripe' = stripe + 1
            /\ ping' = [ping EXCEPT ![s].pc = "charge"]
            /\ UNCHANGED running
       ELSE /\ running' = [running EXCEPT ![s] = @ /\ ~Exceeded(s)]
            /\ ping' = [ping EXCEPT ![s] = NoPing]
            /\ UNCHANGED stripe
    /\ UNCHANGED <<usage, meter, flushing, read, trialEnded, ledger, month, faults>>

\* endTrialNow answers: the flag is set unless it failed.
TrialAnswered(s) ==
    /\ ping[s].pc = "charge"
    /\ \/ trialEnded' = TRUE /\ UNCHANGED faults
       \/ Fault /\ UNCHANGED trialEnded
    /\ running' = [running EXCEPT ![s] = FALSE]
    /\ ping' = [ping EXCEPT ![s] = NoPing]
    /\ UNCHANGED <<usage, meter, flushing, read, stripe, ledger, month>>

-----------------------------------------------------------------------------
(* The Timekeeper: alarm().                                                 *)

\* (mutant: pendingSeconds is cleared before the write)
AlarmFiresClears ==
    /\ alarm /\ flush.pc = "idle"
    /\ alarm' = FALSE /\ pending' = 0
    /\ flush' = IF pending = 0 THEN NoFlush ELSE [NoFlush EXCEPT !.pc = "get", !.amount = pending]
    /\ UNCHANGED <<clients, total, entries, charged, accepted, read, trial, ledger, month, faults>>

AlarmFires ==
    /\ alarm /\ flush.pc = "idle"
    /\ alarm' = FALSE
    /\ flush' = IF pending = 0 THEN NoFlush ELSE [NoFlush EXCEPT !.pc = "get", !.amount = pending]
    /\ UNCHANGED <<clients, meter, read, trial, ledger, month, faults>>

FlushGet ==
    /\ flush.pc = "get"
    /\ flush' = [flush EXCEPT !.pc = "put", !.record = BuildUpdatedRecord(kv, flush.amount)]
    /\ UNCHANGED <<clients, meter, alarm, read, trial, ledger, month, faults>>

\* The put takes effect in KV; the handler does not know yet.
FlushPut ==
    /\ flush.pc = "put"
    /\ kv' = flush.record
    /\ flush' = [flush EXCEPT !.pc = "ack"]
    /\ UNCHANGED <<clients, meter, alarm, read, trial, recounted, month, faults>>

\* (mutant: pendingSeconds is reset, pings of the meantime included)
FlushAckResets ==
    /\ flush.pc = "ack"
    /\ pending' = 0 /\ flush' = NoFlush
    /\ UNCHANGED <<clients, total, entries, charged, accepted, alarm, read, trial, ledger, month, faults>>

\* Only now is the flushed amount, and no more, taken off pendingSeconds.
FlushAck ==
    /\ flush.pc = "ack"
    /\ pending' = IF pending < flush.amount THEN 0 ELSE pending - flush.amount
    /\ alarm' = (alarm \/ pending' > 0)
    /\ flush' = NoFlush
    /\ UNCHANGED <<clients, total, entries, charged, accepted, read, trial, ledger, month, faults>>

\* What a flush that dies now will have counted twice.
Twice == IF flush.pc = "ack" THEN flush.amount ELSE 0

\* (mutant: no retry is armed)
FlushFailsNoRetry ==
    /\ flush.pc # "idle" /\ Fault
    /\ flush' = NoFlush
    /\ recounted' = recounted + Twice
    /\ UNCHANGED <<clients, meter, alarm, read, trial, kv, month>>

\* A KV call fails (a put that took effect may still report an error): retry.
FlushFails ==
    /\ flush.pc # "idle" /\ Fault
    /\ alarm' = TRUE
    /\ flush' = NoFlush
    /\ recounted' = recounted + Twice
    /\ UNCHANGED <<clients, meter, read, trial, kv, month>>

\* The DO is reset: its handlers are lost, an interrupted alarm is redelivered.
Evict ==
    /\ Fault
    /\ ping' = [s \in Sessions |-> NoPing]
    /\ flush' = NoFlush /\ read' = Unread(read.left)
    /\ alarm' = (alarm \/ flush.pc # "idle")
    /\ recounted' = recounted + Twice
    /\ UNCHANGED <<usage, running, meter, trial, kv, month>>

\* GET /usage: the record is read, then pendingSeconds is added to it.  A failed
\* read is swallowed, and the answer is pendingSeconds alone.
UsageGet ==
    /\ read.pc = "idle" /\ read.left > 0
    /\ \E seen \in {kv, NoRecord} :
        /\ \/ seen = kv /\ UNCHANGED faults
           \/ seen = NoRecord /\ Fault
        /\ read' = [pc |-> "get", seen |-> seen, asOf |-> accepted + recounted,
                    left |-> read.left - 1]
    /\ UNCHANGED <<clients, meter, flushing, trial, ledger, month>>

UsageAnswer ==
    /\ read.pc = "get"
    /\ read' = Unread(read.left)
    /\ UNCHANGED <<clients, meter, flushing, trial, ledger, month, faults>>

\* (mutant: adds what a flush in flight holds, which is pending still)
MonthlySecondsTwice == MonthOf(read.seen) + pending + flush.amount

MonthlySeconds == MonthOf(read.seen) + pending

NewMonth ==
    /\ month < MaxMonth
    /\ month' = month + 1
    /\ UNCHANGED <<clients, meter, flushing, read, trial, ledger, faults>>

-----------------------------------------------------------------------------

Flush == FlushGet \/ FlushPut \/ FlushAck
Serve(s) == HandlePing(s) \/ QuotaRead(s) \/ QuotaDecide(s) \/ TrialAnswered(s)

Next ==
    \/ \E s \in Sessions : Start(s) \/ Stop(s) \/ Tick(s) \/ Serve(s)
    \/ AlarmFires \/ Flush \/ FlushFails \/ Evict
    \/ UsageGet \/ UsageAnswer \/ NewMonth

Spec == Init /\ [][Next]_vars

\* Alarms are delivered and handlers go on; nobody must run a session.
Fairness == WF_vars(AlarmFires) /\ WF_vars(Flush) /\ \A s \in Sessions : WF_vars(Serve(s))

FairSpec == Spec /\ Fairness

-----------------------------------------------------------------------------
(* Properties.                                                              *)

\* Not a second of what pings were charged is lost, and only a flush that died
\* after its put is counted twice: pings that arrive during a flush, failed
\* flushes and resets included (alarm() subtracts what it flushed, after the put).
Ledger == kv.all + pending - Twice = accepted + recounted

\* Pending usage never waits for nothing: an alarm is set or a flush is running.
PendingIsArmed == pending > 0 => alarm \/ flush.pc # "idle"

\* Pending usage reaches KV.
PendingIsFlushed == pending > 0 ~> flush.pc = "ack"

\* The meter implements the ledger it promises, with the record in KV and
\* pendingSeconds in the place of what is charged.
Promise == INSTANCE UsageLedger WITH charged <- kv.all + pending - Twice
LedgerSpec == Promise!Spec

\* A session is never charged for more than it ran, resets and lost pings
\* included (as long as sessionTotals keeps every session).
NoOvercharge == \A s \in Sessions : charged[s] <= usage[s]

\* GET /usage misses at most what KV holds and its read did not see: what reached KV
\* after it had read the record, and all of it if that read failed.  It counts twice
\* at most what the flush in flight has put there and not yet taken from pendingSeconds
\* (while all the usage is of one month, and no reset ends the request).
UsageReadIsBounded ==
    [][read.pc = "get" /\ read'.pc = "idle" /\ faults' = faults
            /\ MonthOf(read.seen) = read.seen.all
        => /\ MonthlySeconds <= accepted + recounted + Twice
           /\ MonthlySeconds + (kv.all - read.seen.all) >= read.asOf]_vars

(* What the documents say and TLC refutes (README, section 6).              *)

\* GET /usage answers the flushed and the pending usage as it was at some
\* moment while the request was served (within one month).
UsageReadExact ==
    [][read.pc = "get" /\ read'.pc = "idle" /\ faults' = faults
        => MonthlySeconds \in read.asOf .. accepted + recounted]_vars

\* endTrialNow is called once.
TrialEndsOnce == stripe <= 1

=============================================================================
