# Codeflare in TLA+

This directory holds the formal model of the parts of Codeflare that keep state
across asynchronous steps: the life of a session's container and of its record,
the metering of what it uses, the final sync of its workspace, the admission of
its starts, the terminals from the browser to the PTY, and the billing record of
its owner. TLC checks the modules on small instances; TLAPS proves the theorems
of the `*_proofs` modules for every value of the constants. Paths below are
relative to the repository root, which has its Worker under `src/src` in the tree
this project was written against.

## 1. The system

A Cloudflare Worker serves the browser. Each session has a *record* in KV (the
only thing a session list reads), a *Container Durable Object* that owns one
container process, and, inside that container, a Node *host server* with the
terminal sessions and a shell *sync daemon*. One *Timekeeper* Durable Object per
user adds up usage. No transaction spans any two of them: a Worker request, a DO
handler and the container overlap at every `await`.

| Component | State | Operations | Talks to |
|---|---|---|---|
| Session routes (`src/routes/session/*`) | none of its own | create, PATCH, touch, stop, delete, list | KV record, the container DO's `destroy` |
| Container routes (`src/routes/container/*`) | none of its own | start (with restart and rollback), destroy, status | KV record and usage record, the container DO |
| Session record (`src/lib/kv-keys.ts`, `src/types.ts`) | status, timestamps, name, metadata copy | get, put, delete; no compare-and-set | everybody writes it |
| Container DO (`src/container/index.ts`, `container-router.ts`) | `_sessionId`, `bucketName`, preferences, vault key in DO storage | `setBucketName`, `startAndWaitForPorts`, `fetch` | container process, hooks |
| Lifecycle hooks (`container-lifecycle.ts`) | the shutdown marker, schedule rows | `onStart`, `onStop`, `onError`, `destroy` | KV record, host server (`/internal/final-sync`) |
| Metrics loop (`container-metrics.ts`) | `NOT_RUNNING_SINCE_KEY`, `usageSeconds`, one schedule row | `collectMetrics` each 60 s | host (`/activity`, `/health`), KV record, Timekeeper |
| Timekeeper (`src/timekeeper/index.ts`) | `pendingSeconds`, `sessionTotals`, `trialEnded`, an alarm | ping, flush, usage, reset | KV usage record, Stripe |
| Subscription tiers, access (`src/lib/subscription.ts`, `access*.ts`) | none | pure functions | user record |
| Circuit breakers (`src/lib/circuit-breaker*.ts`) | state, failures, times, per isolate | `execute` | any external call |
| Rate limiter (`src/lib/rate-limit-core.ts`) | a window and a count in KV, an in-memory fallback | `checkRateLimit` | KV |
| Final sync (`host/src/final-sync.ts`, `server.ts`) | a status file, the daemon's flags | wait for this run's completion | sync daemon (SIGUSR1) |
| Sync daemon (`entrypoint.sh`) | `BISYNC_*` flags, failure count | sleep, bisync, recover, resync | object store |
| Terminal sessions (`host/src/session*.ts`, `server.ts`) | a Map of sessions; of each its clients, owner, timers, PTY | attach, detach, resize, kill, adopt, clean up | browser sockets |
| Terminal route (`src/routes/terminal.ts`) | none of its own | read the record, probe, spend a token, forward | KV record, container DO, host |
| Terminal store of the web client (`web-ui/src/stores/terminal.ts`) | sockets, retry loops, input handlers, claims of a terminal | connect, retry, dispose, leave | the terminal route |
| Session store of the web client (`web-ui/src/stores/session.ts`, `session-polling.ts`, `api/client.ts`) | status shown, guards, miss counts, polling loops | start, stop, delete, refresh, load | session and container routes (`batch-status`, `startup-status`) |
| Billing (`src/routes/stripe-webhook.ts`, `billing.ts`, `src/lib/stripe*.ts`) | user record, dedupe keys, preferences | webhook events, checkout, reconcile | Stripe, KV, R2 |
| Auth, connections, vault, storage, setup, interceptors | tokens | request plumbing | GitHub, Cloudflare, R2 |

What is hard in it:

- **Writes of the whole record by five writers.** `onStart`, `onStop`, the
  metrics tick, and the start, stop, touch and delete routes read the record,
  await, and put it back whole. The order of the puts decides.
- **Readings that lie.** `ctx.container.running` may read false for a live
  container. The code asks for a second reading after 90 s before it gives up.
- **A loop that must not die.** Each tick arms the next; whoever forgets to, or
  arms twice, ends or doubles the loop.
- **Resets of a Durable Object.** Memory and handlers vanish at any await, DO
  storage and the alarm stay.
- **A counter in two places.** `pendingSeconds` is in the DO until a flush has
  put it in KV; the put and the subtraction are two steps.
- **Signals and a file.** The final sync learns about its own run from a
  time-stamped file that another process overwrites.
- **Callbacks of what was replaced.** A socket's close, a retry timer, a
  component's clean-up, a keepalive timer and a breaker's late result all run
  after the thing they belong to may have been superseded.
- **Status shown before it is so.** The web client shows a start or a stop at
  once, holds the lagging list off while it lasts, and must let go of that again
  whatever fails or comes late.
- **Counts without compare-and-set.** The rate limit and the limit on running
  sessions are read, compared and written in separate calls.
- **Events delivered again.** Stripe repeats a webhook until it is acknowledged,
  and the handler is a chain of KV and Stripe calls that can stop at any of them.

What makes each part correct: the record of a session that nobody touches comes
to say what its container does; a stop or delete is final; "stopped" is written
for a container only on confirmed evidence; usage is neither lost nor charged
twice; a final sync reported complete contains the last edits; a signal is never
lost; a terminal session lives while it has a client or a reason; a terminal of
the browser has one connection or one retry, and neither when it shows that it
has none; the status it shows comes to be the record's; a breaker opens and closes for the calls it is about; a limit lets
through what it says; the record grants what Stripe says.

`PROJECT.json` lists every component with its status, and under `hazards` each
place where one of these can go wrong.

## 2. The modules

| Module | Models | Used by |
|---|---|---|
| `SessionLifecycle` | one session: record, container, container DO, requests | the lifecycle runs |
| `MCSessionLifecycle` | symmetry of the requests | TLC only |
| `SharedRecord` | what the writers of a record without a lock promise each other (abstract) | refinement |
| `SessionLifecycle_proofs` | types; confirmation, silent teardown, the shared record, what the liveness properties rest on | TLAPS |
| `UsageLedger` | what the Timekeeper promises (abstract) | refinement |
| `Timekeeper` | one user's meter, its sessions and the usage record | the meter runs |
| `Timekeeper_proofs` | types, ledger, armed alarm, no overcharge, usage answers, refinement | TLAPS |
| `FinalSync` | the sync daemon, its status file, the endpoint that waits for a run | the sync runs (no MC module: one call needs no symmetry) |
| `SavePromise` | what `POST /internal/final-sync` promises its caller (abstract) | refinement |
| `FinalSync_proofs` | types, the promise is kept, one rerun, no trigger is forgotten | TLAPS |
| `PtySessions` | the terminal sessions of one host: Map, PTYs, clients, timers | `pty_safety` |
| `PtySessions_proofs` | types, and the safety properties of the host | TLAPS |
| `CircuitBreaker` | one breaker and its overlapping calls | `breaker` |
| `CircuitBreaker_proofs` | types, and what opens it | TLAPS |
| `Admission` | the rate limiter and the session limit in front of a start | `admission` |
| `MCAdmission` | symmetry of the sessions and requests | TLC only |
| `Admission_proofs` | types, honest counts, the limit and the cap | TLAPS |
| `Billing` | Stripe, its events, their handlers and the user record | `billing` |
| `MCBilling` | symmetry of the handlers | TLC only |
| `Billing_proofs` | types, a coherent record, and what order gives | TLAPS |
| `TerminalClient` | one terminal of the browser's terminal store | `TerminalPath` |
| `TerminalPath` | the client composed with the route, the gates of the DO and the host, the record and the container | `client` |
| `TerminalPath_proofs` | the client's invariants, and that the composition implements the client | TLAPS |
| `SessionStore` | the web client's status of one session, its loops and guards, and a coarse server | `session_store` |

### SessionLifecycle

The variables are the record (`kv`), the process (`up`, `term`, and the exit the
SDK still has to report, `notice`), the DO's storage (`ids`,
`shutdownRequested`, `notRunningSince`, the schedule rows `alarms` and `held`),
one variable for the place and local copy of each handler in flight (`onStart`,
`onStop`, `tick`), and a record for each Worker request (`req`). A handler is
cut where it awaits KV, the container or another DO, because there other
handlers run. It is *not* cut at DO storage calls: the platform's input gate holds
other events back while those are pending.

`updateKvStatus` is two steps, its read and its put. The read decides whether
there is anything to write (identifiers set, record exists); the put is a step of
its own and writes unconditionally. The copy that is put back is kept in `snap`
where it matters for the status.

A schedule row is counted in `alarms`; the row of a tick in flight stays in the
SDK's table until the handler returns and is `held`. `deleteSchedules` removes
both. After a reset a held row is delivered again.

The environment's harm is drawn from `Events` and bounded by `MaxEvents`:

| Event | What happens |
|---|---|
| `crash` | the process exits and the SDK calls `onError` |
| `vanish` | the process exits and nobody is told |
| `blip` | a live container reads not running (or `/health` fails) |
| `evict` | the DO is reset; handlers and the notice in memory are lost |
| `idle`, `quota` | `/activity` or the Timekeeper says to stop |
| `bootfail` | `startAndWaitForPorts` throws |

`SharedRecord` says what is left of a record that many writers share without a lock
or a version: one writes it only after one found it, and writes each copy once. `Holders`
are the handlers and requests that hold such a copy: a hook or a tick between
its read and its put, a start from its validation to its write of "running", a
DELETE from its read to the removal. `RecordSpec` instantiates it; the mutant whose
rollback does not look whether the record is there is caught.

### Timekeeper

One unit of time is one tick of 60 s. The containers (`usage`, `running`,
`ping`), the DO (`total` and `entries` for `sessionTotals`, `pending`, `alarm`,
`trialEnded`), the alarm handler in flight (`flush`), the usage request in flight
(`read`) and the KV record. `HandlePing` is one step because the code up to the
quota check touches only DO storage; the quota check's KV read and the Stripe
call are cuts. `alarm()` is cut into read, put and acknowledgement, and can fail
or be reset at each; a put may take effect and still report failure. The read of a usage
request (`UsageGet`) may fail too: the code swallows that and answers what is pending.

`UsageLedger` says what the meter promises: the amount charged never shrinks, a
step adds at most the clamp, and only a fault may add again what was there.
`Promise` instantiates it with *KV total + pending − what a flush has already
written and not yet subtracted* for the charge.

### FinalSync

The daemon of `start_sync_daemon` in `src/entrypoint.sh` is a place in its loop
(`daemon.pc`), the three `BISYNC_*` flags and the failure count. It is cut between
the commands of the loop, because bash runs a trap there: a signal that arrives
while `rclone` or `jq` runs in the foreground is handled when that command
returns, with the flags as they were, so handling it at arrival is the same. The one
builtin a trap interrupts is `wait`, which the signal therefore ends. `nap` is
the gap between the test of the flags and `wait`.

`update_sync_status` truncates the file, takes the time and writes: `Publish` and
`Published`, and the host may read in between and find nothing (`Unreadable`).
The host's side is a record per call of `POST /internal/final-sync`;
`evaluateFinalSync` is the operator `Evaluate`. Every other signal, from the
fan-out or a second caller, is `BisyncTrigger`.

`SavePromise` is the endpoint as its caller sees it: a call waits, and is told "synced"
only if the store has every edit made before it. `Answer` maps the places of a call
to what it was told, and `SaveSpec` instantiates it.

Edits of the workspace are numbered; `disk` is the newest, `daemon.scanned` the
newest the last scan saw, `store` a lower bound of what is in the object store. A
failed bisync may have uploaded part of what it scanned. Two history variables serve the
properties only: `call[c].due`, the newest edit when a call came in, and
`signal`, whether a signal waits for its scan.

### PtySessions

The host runs each callback to its end, so an action is a whole callback: a
WebSocket message, a close, a timer, a PTY exit, an HTTP request. What
interleaves is their order. `sessions` is the Map of `SessionManager`; the other
functions are the fields of each `Session` object, which may live on after it
left the Map. A connection (`ws`) that the host has begun to close may still
deliver messages it had received (`closing`), as Node does; one whose client
asked for the kill sends no more (`done`).

A keepalive timer is named for the callback that set it (a connection's `error`
or its `close`), because `detach` runs in both and the second overwrites the
handle of the first: `timers` are the timers that are pending, `handle` the one
that `clearTimeout` would reach. `getOrCreate` is split by outcome (`Found`,
`Adopted`, `Created`, `Refused`), and `Kill` is `Session.kill()` of a set of
objects, shared by the kill message, the deletion, the reaper and the shutdown.

### CircuitBreaker

`execute()` up to the await of the call is `Enter` or `Probe`, its outcome
`OnSuccess` or `OnFailure`, which act on whatever the state is by then. `calls`
keeps in which period a call was let through. `Forget` is the breaker map that
drops an entry. `streak` and `relapses` are history: the failures in a row that
the comments of the code speak of.

### Admission

A start request passes the rate limiter and then the count of running sessions;
it is cut at each KV call (`RateGet`, `RatePut`, `SessionGet`, `Count`, `Start`).
`KvFails` is the fallback to the isolate's own map, `Restart` the isolate that
goes with it. The container's life is coarse here (`MarkStopped`, `Exit`, `Heal`,
`Boot`, `Rollback`), since `SessionLifecycle` has it in detail. `since` counts what
was let through, `inWindow` and `spilt` by which counter and window: KV's, or the
isolate's own, which takes the requests whose KV call failed. `raced` and `excused`
name the two interleavings that the code does not exclude (section 6).

### Billing

`sub`, `events`, `due` and `gone` are Stripe's side: the subscriptions of the customer,
what it announced, what it has not seen acknowledged, what it answers 404 to. A status
is one of the four that `parseUserRecord` knows or `unpaid`, which stands for every other
string Stripe may send: it is stored as it comes, and `Parsed` drops it on the next
read. A handler (`h`) is a place
in the chain of calls of `stripe-webhook.ts` with the snapshot of the
subscription it fetched, the record it compares with (`old`), and the record
`updateUserRecord` merges its patch into (`base`). `Fail` is a 500 at any of the
calls, `Finish` the dedupe key and the answer, which may get lost; the handler of a
subscription that is gone from Stripe ends without writing (`Fetch`).

The other requests that write the same record occupy the same places, with a task of
their own (`Asking`), and overlap the handlers as those overlap each other:

| Task | Code | What `AskedWrite` does |
|---|---|---|
| `subscribe` | `POST /auth/subscribe` without a checkout (`auth.ts:344`) | the free tier, a mode the user chose, a trial taken as used if a plan was granted |
| `assign` | `PATCH /api/users/:email` (`users.ts:166`) | any tier and mode an admin names |
| `clean` | `GET /billing/status`, `POST /billing/switch` (`billing.ts:159`, `:292`) | "pending" and "canceled", if the subscription of the record is gone from Stripe |
| `touch` | one field of its own: `billing.ts:122`, `auth.ts:222`, `github-auth.ts:212`, `user-profile.ts:71` | writes back the record it read |

None of them reconciles the agent files. `asked` in the record is history: one of
them set the tier after a handler last did. `said` is history too: every
state a subscription has been in. The guard of
`syncSubscriptionState` that compares `lastSyncedAt` with a time taken after the
read can never hold on one clock and is left out.

### TerminalClient and TerminalPath

One terminal of `web-ui/src/stores/terminal.ts`: `conn`, `owner`, `ctl`,
`retry`, `input` and `shown` are its entries in the store's maps; `sock`,
`timers` and `handlers` are the sockets, timers and input handlers that exist,
whether the maps still name them or not. Each `connect()` makes a numbered loop;
every callback asks whether its loop is `Current` (not aborted and the owner).
`TerminalPath` gives each socket the place of its upgrade request and composes
the client's callbacks with the stages that answer it: the route reads the
record, probes the container, spends a token and forwards; the DO and the host
refuse a container that is not there or not ready, by accepting the socket and
closing it with 4503 or 1013. Its steps are joint ones: `Drops`, `RejectCloses`,
`HostCloses` and `Hangup` are the client's `Closes` with the code that the other
end sends.

### SessionStore

`status`, `init`, `guard`, `misses`, `active` and `cleanup` are one session's
entries in the maps of the store: what it shows, `initializingSessionIds`,
`sessionStartedAt`, `sessionMissCounters`, `activeSessionId`, and the loop whose
clean-up `startupCleanups` holds. A call of `startSession` or `stopSession` is a
record with its place, its errors and the poll it has out; a poll is
its answer, taken when the server reads and applied when the callback runs.
A clean-up clears an interval but cannot call back a poll, which is why a call can be
`over` and still have one. `AfterPoll` is the foot of `poll()`: the first poll runs
before its interval exists, so the loop goes on to `armed` whatever the poll said.
`Missed` and `Listed` are the two halves of `refreshSessionStatuses`, `Exempt` its
three guards. The server is a record, a list of it that lags (`Propagate`) and a
container; `StartupStage` is the set of answers of `startup-status` for each state of
the container.

## 3. The runs

| Run | Question | Bounds |
|---|---|---|
| `lifecycle_safety` | a stop or delete that met nobody is never undone; "stopped" takes two readings; the session implements `SharedRecord` | 2 requests of any of the 5 kinds, all 7 events, 2 events, 2 runs |
| `lifecycle_liveness` | a reported crash ends in a stopped record; an armed loop notices any exit; it heals a false "stopped"; a stop ends the container | 2 requests (start, stop), crash, vanish, evict, 2 events, 2 runs |
| `meter_safety` | the ledger; what a usage answer may miss, its failed read included | 1 session of 3 units, 2 months, 2 faults, 1 usage request |
| `meter_promise` | no session charged for more than it ran; the meter implements `UsageLedger`; pending usage reaches KV | 2 sessions of 2 units in trial, 1 month, 1 fault |
| `sync_safety` | the endpoint implements `SavePromise`: a sync reported complete has saved the edits; a trigger is served | 1 call and any number of other signals, 2 edits, 3 ms |
| `pty_safety` | an unattended PTY has something that ends it; both ends agree on who is attached; only an attached owner sets the size; a PTY with a client ends only by its own exit, its users' word or the host's end; an abandoned PTY does end | 2 ids, one of them a first tab, 2 session objects and a pre-warmed one among them, 3 connections, cap 1 |
| `breaker` | a breaker opens on a streak and reopens on a relapse, whatever reports late; it recovers; it does not stay half-open | 3 calls in flight, threshold 3, 2 half-open attempts |
| `admission` | counts are honest; neither KV's windows nor the isolate's let more than the limit through, and the cap holds, but for two named races | 2 sessions, 2 requests in flight, 3 arrivals, limit 2, cap 1, every KV call may fail |
| `billing` | the settled record mirrors Stripe through failures and repeats; the agent files follow the mode; a used trial stays used; what the handlers leave in the record was once so of a subscription | 2 subscriptions, 2 plans, 2 handlers or other requests at once, 3 events, 2 oddities |
| `client` | one loop at a time; nothing behind a terminal shown as disconnected, something behind one shown as connecting; no doubled input; the size claim survives; reconnecting ends when the container is off and succeeds when it is up | 2 calls of `connect()`, 2 sockets |
| `session_store` | the status shown comes to be the record's; a session without a record leaves the list; no status stays "stopping" or "initializing" but where a request failed | 1 start, 1 stop, 1 refresh in flight, 1 other event, 2 misses, 2 stop polls, 1 error |
| `finding_resurrect` | see section 6 | as small as the counterexample allows |

The type invariants and `OneOwner` of the host are theorems (section 4) and need no
run; `SessionStore!TypeOK` has no proof, and TLC confirms it when
`INVARIANT TypeOK` is added to `session_store.cfg`.

**Why these bounds.** Two requests give every pair of concurrent operations;
between them and the hooks, the tick and one reset there are five writers of the
record at once, more than any counterexample found needed. Two runs let the leftovers of one
run (the window, the marker, a late `onStop`) meet the next. Two events allow
harm on harm: a crash and then the reset that loses its report, a blip in each
of two runs. The longest counterexample found uses two requests and
one event. In `meter_promise` two sessions and two units reach pings of both inside one flush
and a clamped delta; an eviction of the totals is excluded (`MaxEntries` is the
number of sessions, see below), and one fault reaches each cut of the flush. The
books of `meter_safety` add up whoever pings, so one session is enough there: it has a
third unit, a second fault (a failed flush after a lost one) and a second month
instead. With two sessions and two units it holds as well (1.6 million states),
which is left out for its size.

In `sync_safety` one call is enough: calls share nothing but the signals, and
`BisyncTrigger` sends those at any time. Two edits separate what a scan saw from
what came after it. Three milliseconds are a run stamped before the trigger, the
trigger in the same millisecond or later, and a run stamped after it.

In `pty_safety` three connections are one that owns the size, one that takes over
and one that comes back; two objects let one be killed while its id is taken by
another; a cap of one makes the second id be turned away. In `breaker` three
calls fill the threshold while calls of an earlier period are still out. In
`admission` two requests are every pair of overlapping reads and writes, three
arrivals put a third after a race, with a limit of two the third of a window is
refused, by KV or by the isolate (three failed calls are one for each arrival, so that
`MaxFaults` cuts nothing off), and a window of two in a clock of three
instants begins a second window inside the first. In `billing` two subscriptions are the cancel and
resubscribe that the trial marker is about, and three events a checkout, a change
and an end. `MaxOdds` counts everything out of the ordinary together: a failed call, a
lost answer, a subscription gone from Stripe, another request, a handler that begins
beside another or before its turn. Two of them are any pair: a failure of what is repeated, a
clean-up of what is gone, an admin's change and a failure, or one race (another request
that begins beside a handler is two, itself and the race). A checkout page is not opened once the
subscriptions or the events are used up.
In `client` two loops and two sockets are the old connection and the one that
replaced it, which every callback of the old one may meet; what the bounds of a run leave open for
its safety properties, the proofs of section 4 close.

In `session_store` the page may open on a running session, so that one stop and one
start are a stop and a start after it, in either order; each limit is the least at which
both sides of it happen, except that one error ends a loop. The one event is
a crash, a start or deletion from elsewhere, a deletion here, or the user's
coming back to the session. The four properties hold with two events as well (401,000
states), which is left out for its time.

**Symmetry** (of requests, of sessions) is used only in runs without liveness
properties. The properties checked with it treat all requests, or all sessions,
alike.

**Deadlock** is not checked: a session whose user does nothing more, and a meter
whose sessions ended, have stopped for good. So has a daemon killed before its
trap was set, with every call answered. A host that was shut down, a user at the end of
`MaxArrivals` and a customer at the end of `MaxEvents` do nothing more either.

**Fairness.** `SessionLifecycle!Fairness` is weak fairness of each handler in
flight, of the delivery of alarms and reported exits, of each request, and of
time. The event loop runs every handler whose await has resolved, the awaits
there end (but see the two fetches below), and DO alarms are delivered at least
once. Nothing is assumed of users, of the environment's events, or of the
container: `GracefulExit` has no fairness, so `TeardownEnds` holds for a
container that ignores SIGTERM. The fairness of `collectMetrics` includes the
reply of `/activity` and `/health`: the code sets no timeout on these two fetches
(`container-metrics.ts:346`, `:389`), so it is an assumption about the container that
one which runs answers them or has them fail. Where it did neither, the tick would never reach
its foot, and `LoopNotices` and `SelfHeal` would not hold. In the meter it is weak fairness
of the alarm, of the flush and of each ping being served; no session has to run.

`FinalSync!FairSpec` is weak fairness of the daemon's own commands: the shell
goes on to the next, and every `rclone` call ends (the cadence run has no timeout
of its own, so this assumes that `rclone`'s retries end). `Cadence`, the end of
the 15 minutes, is left out on purpose, so that `TriggerIsServed` is about being
woken and not about the next cycle coming round anyway.

`PtySessions!Fairness` is that the timers of a running process fire.
`CircuitBreaker!Fairness`: time passes, a call that was let through ends (every
fetch it wraps has a timeout), and callers keep asking: the status routes are
polled by the browser. `TerminalPath!PathFairness`: timers fire and closes
arrive (weak), and a client that asks again and again gets through every stage
some time (strong, per stage, for the sockets together). The stages are the
route's read, its probe, its rate limit, the gates, the opening; each is an answer that may fail any
number of times but not always, since KV and the container answer and a window of
the rate limit ends. Nothing is assumed of the record, the container or the user.
`WakeLoopEnds` and `Reconnects` have their premises in the formula: the container
is off for good, or ready for good with a record that says so.

`SessionStore!Fairness`: a put reaches the list; intervals and the three minutes of
the guard run out; a request is answered or fails (weak fairness of the two
together), and of infinitely many polls one is answered and not failed; one
that finds the container ready says so (strong). The list is polled as long as the
page is mounted. Nothing is assumed of the user, who may never open or dismiss
anything, nor that a container boots or a record is healed. All calls and events are finite, so
"from some time on" is what can be asked; each property names what excuses it.

`lifecycle_liveness` leaves out `blip`: with transient readings the loop can end
on a live container (section 6), and no liveness claim about the loop would be
left. What transient readings can do to safety is explored in `lifecycle_safety`.
The premises `events = 0` say "once no more harm is to come": a reset may drop
the report of a crash, and then only the loop notices, which is `LoopNotices`
and holds without that premise.

## 4. The proofs

All theorems hold for any constants that satisfy the named assumptions
(`OpsAssumption`, `EventsAssumption`, `BoundsAssumption`, `MeterAssumption`,
`SyncAssumption`, `BreakerAssumption`, `ClientAssumption`, `PtyAssumption`,
`AdmissionAssumption`, `BillingAssumption`): any
number of requests or sessions, events, runs, calls, sockets and connections.

- `TypeCorrect` (`SessionLifecycle_proofs`): `Spec => []TypeOK`. One lemma per
  part of the type invariant, one step per action that disturbs the part.
- `ConfirmationIsEarned` (`SessionLifecycle_proofs`): `Spec => ConfirmNeedsStreak`.
  `TickConfirm` is guarded by the window being past; that the window was opened
  by a reading no tick has contradicted is `StreakInv`: the window is unset, or
  at least one reading has been counted since the last running one.
- `SilentTeardown` (`SessionLifecycle_proofs`): `Spec => TeardownIsSilent`. "No
  write follows" is not inductive. `TeardownInv` says why none can: from the
  moment a lone stop or delete is asked (`AskedInv`) every other request is
  `Quiet` and this one is `Coming` to `destroy()`; once it began (`BegunInv`)
  the identifiers are gone and no handler is past its check of them
  (`NoWriter`), and the request is `Going` through the teardown; `RecordInv`
  keeps `onStart` out. Clearing the identifiers *before* the
  container is stopped is what makes the second half inductive; the mutant that
  clears them later is caught.
- `RecordIsShared` (`SessionLifecycle_proofs`): `Spec => RecordSpec`, the session
  implements `SharedRecord`. `CopiesInv` says that whoever holds a copy found the
  record: a copy in `snap` that will be written is a status a record can have, and a
  request that marks, touches or removes is the one its operation says. Each step is
  then matched by who holds what before and after it: for a hook or the tick
  (`HandlerFinds`, `HandlerWrites`), for a request (`RequestFinds`,
  `RequestWrites`), for a step that ends without writing (`Drop`), and for a reset of the DO,
  which drops the copies of the handlers and leaves those of the requests.
- `DeletedStaysDeleted` (`SessionLifecycle_proofs`) is what the refinement is worth: if
  nobody holds a copy when the record is deleted, it stays deleted and nobody gets a
  copy. The counterexample of `finding_resurrect` is a copy taken before.
- `NoCrashIsForgotten`, `HealStaysPending`, `TeardownGoesOn`
  (`SessionLifecycle_proofs`): the safety that `CrashConverges` and `LoopNotices`,
  `SelfHeal`, and `TeardownEnds` rest on. Liveness itself is out of reach, but that
  what will put the record right is never lost on the way is a step property: a
  crash stays watched (an alarm, a tick about to confirm, or a report to come), a
  live container that is shown stopped stays in the loop's sight, and a teardown stays
  in `destroy()`, each until it is done, or a request, a hook or further harm takes
  over. A foot of the tick that forgets to re-arm, an `onError` that arms nothing
  and an unconfirmed reading that ends the loop would each falsify one of them.
- `MeterTypeCorrect`, `LedgerIsKept`, `PendingStaysArmed`, `PromiseIsKept`
  (`Timekeeper_proofs`). `Ledger` needs to know what a flush in flight holds:
  `FlushInv` says its amount is within `pending`, that the record it is about to
  put is KV's plus that amount, and that after the put KV contains it. With it,
  every step of the meter is a `Charge` or a `Fault` of `UsageLedger` or a
  stutter (`PromiseStep`).
- `NoneIsOvercharged` (`Timekeeper_proofs`), if there are no more sessions than
  `MaxEntries`. `sessionTotals` names each session once (`EntriesOnce`), so the
  pigeonhole principle keeps it within its size and the trim drops nobody;
  then what a session was charged is at most its total, and its total at most what
  it ran (`Metered`). With more sessions the trim can drop one that still runs
  (section 6).
- `UsageAnswerIsBounded` (`Timekeeper_proofs`): `Spec => UsageReadIsBounded`. KV's sum
  and what was ever charged only grow (`SumsGrow`), so what a request read is at most
  what there is (`ReadInv`), also where the read failed and found nothing; the bounds are
  then arithmetic on `Ledger`.
- `SyncTypeCorrect` (`FinalSync_proofs`): `Spec => []TypeOK`. That the failure
  count stays within three needs `CountInv`: it is three only on the way to a resync,
  which leaves it at zero or two.
- `SyncIsAsPromised`, `FinalSyncIsHonest` (`FinalSync_proofs`): `Spec => SaveSpec` and
  `Spec => []SyncedMeansSaved`, for any number of calls. The strengthening `HonestInv` has three parts. `BoundsInv`: no
  stamp is later than the clock, so a new call finds no stamp after its trigger.
  `RunInv`: the file says "syncing" from the stamp to the end of the run, and
  "success" only while the last scan is in the store. `CallInv`: a "syncing" later
  than a call's trigger, and a run the call has accepted, *cover* it (`Covers`): the
  last scan saw its edits, or the next step is a scan. The strict comparison of
  `evaluateFinalSync` is what makes `CallInv` inductive when a call comes in; the
  mutant that accepts an equal stamp is caught. For the refinement each step is then
  an edit, an upload, a call, an answer or a stutter of `SavePromise`: only a scan that
  succeeded, or a part of one, moves `store`, and only `Poll` says "synced".
- `SignalsMakeOneRerun` (`FinalSync_proofs`): `Spec => OneRerun`, from `FlagsInv`: a
  flag that is set was set by a signal since the flags were last reset. The formula is not a
  run's property; TLC agrees with it when it is added to `sync_safety.cfg`.
- `NoTriggerIsForgotten` (`FinalSync_proofs`): `Spec => []TriggerIsRemembered`, what
  `TriggerIsServed` rests on. A trigger that is owed a scan finds it ahead in the
  cycle, or has left a flag that the test at its end will see. It takes the reset of the
  flags before the scan and not after it.
- `BreakerTypeCorrect`, `OpensOnlyOnStreak`, `ReopensOnlyOnRelapse`
  (`CircuitBreaker_proofs`). `Honest` relates the breaker's counters to the
  history: `failureCount` never exceeds the streak, and in the half-open state
  `halfOpenAttempts` never exceeds the relapses, because the probe resets it. The
  counters are compared with the thresholds at the step that opens the breaker, so
  the streak was at least that long. The mutant that keeps the attempts is
  caught.
- `OneLoopAtATime`, `ScreenIsTrue`, `KeysAreSentOnce`, `ClaimSurvives`
  (`TerminalPath_proofs`), for any number of calls of `connect()` and of sockets.
  `OneLoop` alone is not inductive: one has to know that the callbacks of
  superseded loops find themselves not current. `Numbered` says that everything
  refers to a loop that was made, so a new loop's number is in no timer and no
  socket; `Held`, that the controller in the map is that of the loop that still
  counts, so aborting it ends that loop, also where the owner is left in the map
  (`disposeSession`, `disconnectAll`); `Hung`, that a socket the client hung up
  belongs to no current loop, so its close changes nothing. The steps fall into
  six kinds (`Kinds`); everything that leaves does one thing
  to the loops (`LeavingEffect`), and what neither leaves nor dials does none
  (`RestingEffect`).
  `ScreenIsTrue` has two halves: nothing goes on behind a terminal shown as disconnected,
  and a terminal shown as connecting is not left waiting: there is a socket on its way
  or a retry to come (`NotLeftWaiting`, `WaitStep`).
- `PathIsAClient` (`TerminalPath_proofs`): `PathSpec => Spec`. Each joint step of
  the composition is a step of the client or a stutter, so the client's theorems,
  proved once for a client that anything may answer, hold of the composition.
  `PathTypeCorrect` adds the types of what the composition itself keeps.
- `HostTypeCorrect`, `NoPtyIsForgotten`, `AttachmentAgrees`, `OneOwner`,
  `OnlyTheOwnerResizes`, `AttendedPtyIsTheUsers` (`PtySessions_proofs`), for any number of ids, session objects
  and connections. `UnattendedIsLeased` says that a PTY without a client has something
  that will end it. To keep it one has to know what each side believes of the other: a
  connection that was let in has an object that bears its id (`Served`), an object not
  yet made has no PTY and no past (`Fresh`), a timer is the keepalive of an
  object in the Map and never of the pre-warmed entry (`TimersAreNamed`,
  `NotYetWarm`), so the reaper cannot drop the wrong one. What the host closed is out
  of the Map and has no PTY (`Buried`); a late message of its clients therefore
  resizes nothing, which is what `SizedByOwner` rests on. `MapIsCoherent` comes
  with these as a lemma. The actions are sorted into those that end an object
  (`Killing`), those by which a client goes (`Leaving`) and the rest (`Resting`), and
  each kind has one lemma on what it does to clients, timers and the Map.
  `AttendedPtyIsTheUsers` is the other side of the lease: while a client is attached,
  the PTY ends only by its own exit, a kill or deletion that names it, or the
  shutdown. The stale keepalive timer of an earlier client fires and finds a client
  (`EndStep`); that the reaper's entry never has one is `NobodySeesThePrewarmed`.
- `AdmissionTypeCorrect`, `CountsStayHonest`, `LimitIsHeld`, `CapIsHeld`
  (`Admission_proofs`), for any limits, window and number of overlapping requests.
  `PutIsHonest` says what a request carries between its read and its put: the entry it
  read with itself counted, or a fresh one that begins later than what it read.
  `NothingAhead` (no window begins in the future) lets the put count itself in the
  history too, so the counts stay honest. `Tallies`, that without a race KV counts all
  it let through in its window and nothing was let through in a later one, bounds each
  of its windows by the limit; `Spills` says the same of the isolate's own count, with
  or without races, since no await parts its read from its write. What the two let through together is not
  bounded by the limit, and no theorem says so. For the cap, one step lets a session join the ones that count
  (`CountKeepsCap`); it found fewer than the limit beside it or excuses it, and every
  other step adds none (`NoneJoins`).
- `BillingTypeCorrect`, `RecordStaysCoherent`, `ModeFollows`, `UsedTrialStaysUsed`,
  `RecordMirrorsStripe` (`Billing_proofs`), for any plans, handlers, subscriptions,
  events, other requests and failures. What the handlers leave in the record was once so
  of a subscription, however handlers and other requests
  overlap: what Stripe holds and what a handler has fetched was once so (`Told`, over
  the history `said` of everything a subscription has been), the records they merge
  from are coherent too (`AllCoherent`), and a merge writes tier, mode and status
  together; it takes a tier on every plan's price (`Plans \subseteq Tagged`, a premise of
  this theorem and of `RecordMirrorsStripe`). A record whose tier another request set is
  coherent by its mark (`asked`) alone: those writers may leave any combination. The other
  three are about handlers in their order. `Orderly` says what that order is worth:
  one handler at a time (`Alone`), events handled from the first to the last
  (`InTurn`), no lookup that can fail after the first (`Known`), what a handler read
  still so (`Undisturbed`), and agent files that have the record's mode or a handler
  about to see to it (`FollowsMode`). `CaughtUp` then says that once every event is
  written the record is that of the last subscription: the write of an older event
  cannot be the last one outstanding, and the last event's handler fetched the
  subscription as it is. An event that is new undoes nothing but is due
  (`PiecesKept`). `RecordMirrorsStripe` leaves out what the code does not keep: a tier another request
  set since, and a subscription gone from Stripe. A status the code does not know is in
  it, with what the code makes of it: the plan stays granted.

Every safety property of the passing runs is proved, the three refinements
included. Model-checked only: the liveness properties (fairness and ENABLED are out of
the prover's reach), of which those of the lifecycle, the sync and the flush have their
safety proved as said above, and the violation. `SessionStore` promises only
that what it shows *comes to be* right, which is liveness, so its properties are TLC's
alone.

## 5. What the model leaves out

- KV's eventual consistency: a read sees the last write. Every violation shown
  happens even so.
- `super.fetch()` of the container class, which may itself start a container
  when a request reaches the DO.
- The several KV fields other than the status: metrics, timestamps, name,
  `lastFlushedMonthlyTotal`. Metadata copies are written with the value.
- A failing `/health` is charged to the `blip` budget, as a reading of its own
  would repeat the same branch.
- The failures of `getStoredBucketName` and `setBucketName` at a start
  (`lifecycle-init.ts:259`, `shared.ts:53`): a failed read counts as "no name", and then a failed
  write refuses the start before anything is written, or is logged if the name
  was right. Both leave the record and the container as they were.
- The drain inside `destroy()` and `collectMetrics` is one wait that ends
  (completed, failed or timed out): the code goes on in the same way.
- The tier lookup and the trial's state are the constants `Quota` and
  `Trialing`; of the four calendar counters only the month is modelled, the
  others roll over by the same code. `DELETE` of the meter at account removal
  is left out.
- The several sessions of one user meet in the meter and in `Admission`, each time
  with a coarser container than that of `SessionLifecycle`.
- In `PtySessions`: the output buffer and the frame restored on attach, the ping
  interval, the activity tracker. A PTY of the initial 80x24 has been sized by nobody.
- In `Admission`: the quota read (it is in `Timekeeper`), the limiters that refuse
  when KV fails (`failClosed`), the TTL of the key, a tier that changes; a put that
  failed and was applied after all. The cap of 10000 keys on the fallback map is never
  reached by one key.
- In `Billing`: every price resolves to a mode; a customer has subscriptions one
  after the other (the checkout does not refuse a second one while the first lives,
  it relies on the page); signatures, e-mails and the invoice events are left out. Events of one second are
  distinct. Of the other writers of the record: a paid tier at `POST /auth/subscribe`,
  which takes a deployment without Stripe; the rewrite by the setup wizard
  (`setup/index.ts:304`), the deletion by the clean-up of a user, the record made at a
  first login; the tiers "blocked" and the legacy ones, which like "pending" are no
  plan and are never cut by a billing status. `PATCH /preferences` may change the mode of
  the preferences and the agent files by itself (`preferences.ts:109`), and `subscribe` and
  `assign` may write the preferences without the files (`auth.ts:358`, `users.ts:174`): what
  `configured` says is of the files, where only the handlers write them.
- In `TerminalClient`: buffered writes and the terminal emulator; back-off times.
  Many terminals do the same to each, so one is modelled.
- In `SessionStore`: `loadSessions` only when the page opens; a loop has one
  poll out at a time (the code sends the next though the last is unanswered); a 401,
  which ends the polling until the user logs in again; tabs, presets, metrics. A
  session created after the page has loaded is started at once, as the dialog does.
- In `FinalSync`: the clock is monotonic (see the observations for what happens if
  it is not); the files that recovery excludes are gone from disk, and
  later edits under the same name are not counted; the shutdown trap that
  syncs once more on SIGTERM; the host's 125 s against the container DO's 120 s, of
  which only "the wait may end first" is kept; a `jq` that fails.
- Everything listed as `not_modelled` in `PROJECT.json`, each with its reason.

## 6. Where the code and its documents disagree

The run `finding_resurrect` checks one sentence of a comment, and TLC shows a
behaviour of the code that contradicts it. `PROJECT.json` quotes the sentence.

| Run | Sentence | How it fails |
|---|---|---|
| `finding_resurrect` | an `onStop` racing the exit cannot bring a record back | it read the record before the delete and puts it after |

The modules state eight more such sentences under "What the documents say and TLC
refutes". They are not kept as runs; each becomes one by naming the property in
the configuration given.

| Property | Add to | Sentence | How it fails |
|---|---|---|---|
| `StopSettles` (`container-lifecycle.ts:265`) | `lifecycle_safety.cfg` with `start`, `stop` | the residual write of a tick is settled back by `destroy()` | a tick that read the record before the stop writes "running" after it; `destroy()` writes nothing |
| `SettledStatus` (`container-metrics.ts:511`) | `lifecycle_liveness.cfg` with `start`, `vanish` | the record is the truth once things settle | a container that exits between the top and the foot of a tick leaves no alarm and "running" |
| `OneBlipNeverStops` (`container-lifecycle.ts:48`) | `lifecycle_safety.cfg` with `start`, `stop`, `blip`, `vanish` | one false reading never stops a live container | the window of an earlier run is still set when the next begins |
| `TrialEndsOnce` (`timekeeper/index.ts:242`) | `meter_promise.cfg` | the trial is ended once | two sessions exceed together while the first call to Stripe is out |
| `UsageReadExact` (`timekeeper/index.ts:287`) | `meter_safety.cfg` | usage is the record plus what is pending | a flush between the record's read and the addition loses its amount from the answer |
| `TrialIsMarked` (`routes/stripe-webhook.ts:278`) | `billing.cfg` | the trial-used marker prevents unlimited trials by subscribing, cancelling and subscribing again (`sdd/spec/subscription.md:169`) | a subscription cancelled during its trial reaches only the deletion handler, which does not set the marker |
| `SlidingLimit` (`rate-limit-core.ts:57`) | `admission.cfg` with `MaxFaults = 0` | the limit is that of a sliding window (`rate-limit-core.ts:29`, also `:2`, `:34` and `sdd/spec/glossary.md:47`) | a window is fixed at its first request and the next may begin as it ends: late requests of one and early ones of the next pass nearly twice the limit within a window's length |
| `NotSleptOver` (`entrypoint.sh:806`) | `sync_safety.cfg` | a trigger wakes the daemon and skips the remaining sleep | its trap runs between the test of the flags and `wait`, and `wait` blocks for the full 15 minutes |

### Other observations

Reached by the model while it was built, and not kept as runs:

- A start that arrives during an idle stop finds the container running and
  answers `already_running`; the container then goes down.
- `POST /api/container/destroy` brings the container down without writing the
  record, which stays "running".
- `onError` during a tick arms one loop and the foot of the tick a second one
  (the comment at `src/src/container/container-lifecycle.ts:293` argues for one).
- A transient not-running reading at the foot of a tick ends the loop of a live
  container; nothing then heals its record or counts its usage.
- `DELETE` removes the record even when the container's `destroy()` failed
  (`src/src/routes/session/crud.ts:228`), and with it the only handle on it.
- Pings lost for longer than the clamp allows are never charged
  (`src/src/timekeeper/index.ts:177`).
- `sessionTotals` evicts by insertion order, so a session that has run longest is
  dropped first and its next ping charges the clamp again
  (`src/src/timekeeper/index.ts:181`).
- `evaluateFinalSync` says its strict comparison also guards against a clock set
  back (`src/host/src/final-sync.ts:58`). It guards against equality only: a stamp of
  5 ms, a clock set back to 3 ms and a trigger taken then give a "syncing" that is
  later than the trigger and a scan that was earlier.
- The daemon's pid file is written by its parent, possibly before the daemon has
  set its trap; a SIGUSR1 in that window ends it
  (`src/entrypoint.sh:906`), and the session syncs no more.
- A run that fits between two polls of the endpoint overwrites its "syncing" unread,
  and the call times out although the edits are saved; the code accepts this
  (`src/host/src/final-sync.ts:26`).
- Two webhook handlers that overlap, or two events that overtake each other, can
  leave the record on the older state of the subscription: the snapshot is taken
  before the record is read, and neither is compared when the record is written.
  `subscription.md:459` says that a last-synced guard prevents this, but the guard
  compares with a time taken after the read. `MirrorsStripe` therefore has `InOrder`
  as its premise; `RecordIsCoherent` holds without it.
- A failed lookup of the customer in a webhook handler is logged and the event
  acknowledged, so it is never handled (`src/src/routes/stripe-webhook.ts`).
- The two counts at admission are not atomic. Requests that read the same count
  pass together (`raced`), and starts that are counted before another has written
  its record pass the limit on sessions (`excused`); so do sessions whose record a
  tick heals. `subscription.md:402` speaks of running plus initializing sessions;
  the code counts written "running" records.
- KV and the isolate's memory do not know of each other's counts: a request whose KV
  call failed is let through on top of the limit that KV keeps, and each new isolate begins from
  zero. The code means this (`rate-limit-core.ts:79`); `LimitHolds` therefore speaks of
  the windows of each.
- A KV read that fails in `GET /usage` is swallowed, and the answer is `pendingSeconds`
  alone, with nothing to tell it from a month of little use
  (`src/src/timekeeper/index.ts:273`).
- A status of Stripe that the schema does not know, such as "unpaid", "incomplete" or
  "paused", is stored as it comes and read back as no status (`src/src/lib/user-record.ts:15`):
  `getEffectiveTier` then leaves the paid tier granted, whatever the end of the period.
  Only another event changes that.
- The event of a subscription that Stripe answers 404 to is acknowledged unread
  (`src/src/routes/stripe-webhook.ts:340`), so the record keeps what it granted until
  `GET /billing/status` or `POST /billing/switch` clears it.
- The requests that set the mode (`auth.ts:344`, `users.ts:166`) do not reconcile the
  agent files, and the record they leave may be one that no subscription had. A handler whose
  read came before such a request writes the older record back.
- A keepalive timer set by a connection's `error` is overwritten by its `close`
  and can no longer be cleared: a client that returns and leaves again is reaped
  by the old timer, earlier than `decisions/README.md:636` (AD47) promises. `UnattendedIsLeased` holds,
  since the PTY ends too early and never too late.
- A pre-warmed PTY that `POST /sessions` adopts, and no client attaches to, has no
  timer at all: the exception in `UnattendedIsLeased`. The Worker does not call
  that endpoint.
- A kill message removes whatever the Map holds under the connection's id, which
  may by then be another session; that one's PTY then lives outside the Map until
  its clients leave, and `killAll` does not reach it (`src/host/src/server.ts:682`).
- The cap on the host's sessions closes with 1013, which the client retries for
  ever; the ping interval of a refused connection is never cleared
  (`src/host/src/server.ts:642`).
- After a retryable close the terminal is shown as connected for the second that
  its retry waits, and `reconnectOnVisibilityReturn` skips it.
- A close code that is not in the retryable set, a normal closure of the server's for one, ends
  the reconnecting and shows "disconnected" (`web-ui/src/stores/terminal.ts:493`), where
  `sdd/spec/terminal.md:133` has the client retry on any code but 4503, and `:104` lets
  only that one stop it. `Reconnects` holds with the terminal shown as disconnected as its
  other outcome.
- The route's 4503 may come from a KV status that no container confirmed, against
  the comment at `constants.ts:43`.
- In the session store:
  - a start whose container never comes up stays "initializing" for ever. The comment at
    `web-ui/src/api/client.ts:162` says that polling will time out, but it ends on
    errors only, `startup-status` answers "starting" for a container that is
    off, and Guard 2 holds the list off.
  - a stop whose call failed leaves "stopping" for ever, since Guard 1 skips it and
    no loop was begun (`web-ui/src/stores/session.ts:519`); so does a deletion that
    cancels the loop and then fails.
  - a poll that was out when its loop was cancelled still settles the status: "running"
    over a stop, "stopped" over a new start. `sdd/spec/session-lifecycle.md:188` has the
    states go running, stopping, stopped; running may be shown between the last two.
  - three misses in five-second polls remove a session that KV's list does not have
    yet, unless it is in view or starting (`session-polling.ts:144`).

## 7. Coverage and plan

The repository's implementation files include material that is no program of its
own: presets (a vendored lint detector, twice, and the skills of the agents),
landing pages, and generated seeds. Much of the rest is requests without state,
UI components and shell set-up. What keeps state across steps, and what this
project is about, is a small share of the lines; the modules here cover the parts
that interleave, and the map names their lines and no others.

Done: the lifecycle, the meter, the final sync, the host's terminals, the
terminal client and its path, the breaker, admission and billing, each with proofs,
and the session store, model-checked.
Next:

1. Run identities per request in `SessionLifecycle`, to state what happens to a
   newer run that `super.destroy()` meets; then the drain of `destroy()` as the
   call of `FinalSync`, with both budgets.
2. Billing: the in-app plan change and the invoice events; concurrent refresh of
   one rotating token.
3. The queue of review jobs of the agent extensions
   (`preseed/agents/pi/extensions/review-*`), which keeps its own state files.
4. The safety that the other liveness properties rest on, as for the lifecycle: of the
   breaker (`Recovers`, `Shields`), the host (`UnattendedSettles`) and the client
   (`WakeLoopEnds`).
5. An abstract admission and an abstract billing record, and that they are implemented.
