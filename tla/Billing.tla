------------------------------- MODULE Billing ------------------------------
(***************************************************************************)
(* The billing record of one customer: Stripe, its webhook events, the     *)
(* handlers of the events, and the requests that rewrite the same record.  *)
(* Both are cut at their KV and Stripe calls; updateUserRecord is two of   *)
(* them, a read and a write.  Stripe delivers an event until it is         *)
(* acknowledged, in any order.  The stale-write guard of                   *)
(* syncSubscriptionState is left out: it compares lastSyncedAt with a time *)
(* taken after the record was read, so with one clock it never holds.      *)
(***************************************************************************)
EXTENDS Integers, Sequences, FiniteSets

CONSTANTS
    Plans,      \* what can be bought: a tier and a mode
    Paid,       \* plans whose tier is in PAID_TIERS (not unlimited)
    Pro,        \* plans of mode "advanced"
    Tagged,     \* plans whose Stripe price carries metadata.tier
    Handlers,   \* handlers in flight at once
    MaxSubs,    \* bound: subscriptions of the customer, one after the other
    MaxEvents,  \* bound: webhook events
    MaxOdds     \* bound: calls that fail, answers that are lost, subscriptions that are
                \* gone from Stripe, other requests that rewrite the record, and handlers
                \* that begin while another runs or before an older event, all together

ASSUME BillingAssumption ==
    /\ Paid \subseteq Plans /\ Pro \subseteq Plans /\ Tagged \subseteq Plans
    /\ Plans \cap {"free", "pending"} = {}
    /\ MaxSubs \in Nat /\ MaxEvents \in Nat /\ MaxOdds \in Nat

VARIABLES
    sub,        \* Stripe: the subscriptions, oldest first
    offer,      \* the checkout page that is open: with a trial, without, none
    events,     \* Stripe: the events, oldest first
    due,        \* Stripe: those not acknowledged
    gone,       \* Stripe: the subscriptions it answers 404 to
    seen,       \* KV: the dedupe keys
    mapped,     \* KV: the customer's email is stored
    rec,        \* KV: the user record
    configured, \* the mode of the agent files in R2, and of the preferences with them
    h,          \* the handlers and the other requests
    odds,       \* how many of them are left
    raced,      \* history: a handler or another request overlapped or overtook one
    unfinished, \* history: the mode changed and nothing was reconciled
    trials,     \* history: trials granted
    said        \* history: what was ever so of a subscription

stripe == <<sub, events, due, gone>>
kv == <<seen, mapped, rec, configured>>
left == <<odds, raced>>
history == <<unfinished, trials, said>>
vars == <<stripe, offer, kv, h, left, history>>

-----------------------------------------------------------------------------
\* "unpaid" stands for every status the record's schema does not know.
Statuses == {"trialing", "active", "past_due", "canceled", "unpaid"}
Modes == {"default", "advanced"}
Tiers == Plans \cup {"free", "pending"}
Subscriptions == [status : Statuses, plan : Plans]
\* asked is history: another request set the tier since a handler last synced it.
Records == [status : Statuses \cup {"none"}, tier : Tiers, mode : Modes, sub : 0..MaxSubs,
            trialUsed : BOOLEAN, asked : BOOLEAN]
NewUser == [status |-> "none", tier |-> "pending", mode |-> "default", sub |-> 0,
            trialUsed |-> FALSE, asked |-> FALSE]

\* What handlers do for an event, and what the other requests do
Serving == {"checkout", "sync", "delete"}
Asking == {"touch", "subscribe", "assign", "clean"}
Tasks == Serving \cup Asking
Places == {"idle", "read", "resolve", "fetch", "old", "get", "put", "reconcile", "finish",
           "look", "verify"}
NoSnap == [status |-> "none"]
Idle == [at |-> "idle", task |-> "touch", event |-> 0, snap |-> NoSnap,
         old |-> NewUser, base |-> NewUser]

TypeOK ==
    /\ sub \in Seq(Subscriptions) /\ Len(sub) <= MaxSubs
    /\ offer \in {"none", "trial", "paid"}
    /\ events \in Seq([type : {"checkout", "updated", "deleted"}, sub : 1..Len(sub)])
    /\ due \subseteq 1..Len(events) /\ seen \subseteq 1..Len(events)
    /\ gone \subseteq 1..Len(sub)
    /\ mapped \in BOOLEAN
    /\ rec \in Records
    /\ configured \in Modes
    /\ h \in [Handlers -> [at : Places, task : Tasks, event : 0..Len(events),
                           snap : Subscriptions \cup {NoSnap}, old : Records, base : Records]]
    /\ odds \in 0..MaxOdds /\ raced \in BOOLEAN
    /\ unfinished \in BOOLEAN /\ trials \in 0..MaxSubs /\ said \subseteq Subscriptions

Init ==
    /\ sub = << >> /\ events = << >> /\ due = {} /\ gone = {} /\ seen = {}
    /\ offer = "none" /\ mapped = FALSE /\ rec = NewUser /\ configured = "default"
    /\ h = [w \in Handlers |-> Idle]
    /\ odds = MaxOdds /\ raced = FALSE
    /\ unfinished = FALSE /\ trials = 0 /\ said = {}

-----------------------------------------------------------------------------
(* Pure helpers *)

Mode(plan) == IF plan \in Pro THEN "advanced" ELSE "default"

\* parseUserRecord() drops a status it does not know.
Parsed(r) == IF r.status = "unpaid" THEN [r EXCEPT !.status = "none"] ELSE r

\* getEffectiveTier(): expired says billingPeriodEnd is past (or not there).
EffectiveTier(r, expired) ==
    IF /\ r.tier \in Paid
       /\ \/ r.status = "canceled"
          \/ r.status \in {"past_due", "active"} /\ expired
    THEN "free" ELSE r.tier

\* The patches of updateUserRecord over what it read
\* (mutant: the marker says whether the subscription is past its trial now)
SyncedRestartsTrial(x, e) ==
    [x.base EXCEPT !.status = x.snap.status, !.sub = e.sub, !.asked = FALSE,
                   !.tier = IF x.snap.plan \in Tagged THEN x.snap.plan ELSE @,
                   !.mode = Mode(x.snap.plan),
                   !.trialUsed = x.snap.status # "trialing"]

Synced(x, e) ==
    [x.base EXCEPT !.status = x.snap.status, !.sub = e.sub, !.asked = FALSE,
                   !.tier = IF x.snap.plan \in Tagged THEN x.snap.plan ELSE @,
                   !.mode = Mode(x.snap.plan),
                   !.trialUsed = @ \/ x.snap.status # "trialing"]

\* (mutant: the end of a subscription leaves the mode as it was)
EndedKeepsMode(x) ==
    [x.base EXCEPT !.status = "canceled", !.tier = "free", !.asked = FALSE]

Ended(x) ==
    [x.base EXCEPT !.status = "canceled", !.tier = "free", !.mode = "default", !.asked = FALSE]

Merged(x, e) ==
    CASE x.task = "checkout" -> [x.base EXCEPT !.sub = e.sub, !.trialUsed = x.old.trialUsed]
      [] x.task = "sync" -> Synced(x, e)
      [] x.task = "delete" -> Ended(x)

\* POST /auth/subscribe takes the trial of a record that grants a plan as used.
HadTrial(r, expired) == [r EXCEPT !.trialUsed = @ \/ EffectiveTier(r, expired) \in Plans]

\* The patches of the other requests

Joined(x, mode) == [x.base EXCEPT !.tier = "free", !.mode = mode, !.asked = TRUE,
                                  !.trialUsed = x.old.trialUsed]
Assigned(x, tier, mode) == [x.base EXCEPT !.tier = tier, !.mode = mode, !.asked = TRUE]
Cleaned(x) == [x.base EXCEPT !.tier = "pending", !.status = "canceled", !.asked = TRUE]

Odd == odds > 0 /\ odds' = odds - 1
Quiet == \A w \in Handlers : h[w].at = "idle"
Live == sub # << >> /\ sub[Len(sub)].status # "canceled" /\ Len(sub) \notin gone

-----------------------------------------------------------------------------
(* Stripe and the customer *)

Emit(type, i) ==
    /\ Len(events) < MaxEvents
    /\ events' = Append(events, [type |-> type, sub |-> i])
    /\ due' = due \cup {Len(events) + 1}
    /\ said' = said \cup {sub'[i]}

\* POST /billing/checkout: the trial is offered by what the record says now.  (Bound:
\* not once the subscriptions or the events are used up.)
OpenCheckout ==
    /\ ~Live /\ Len(sub) < MaxSubs /\ Len(events) < MaxEvents
    /\ offer' = IF rec.trialUsed THEN "paid" ELSE "trial"
    /\ offer' # offer
    /\ UNCHANGED <<stripe, kv, h, left, history>>

\* The customer completes the page.
Subscribe(plan) ==
    /\ offer # "none" /\ ~Live /\ Len(sub) < MaxSubs
    /\ sub' = Append(sub, [status |-> IF offer = "trial" THEN "trialing" ELSE "active",
                           plan |-> plan])
    /\ Emit("checkout", Len(sub) + 1)
    /\ trials' = IF offer = "trial" THEN trials + 1 ELSE trials
    /\ offer' = "none"
    /\ UNCHANGED <<gone, kv, h, left, unfinished>>

\* The trial ends, a charge fails or succeeds late, the portal changes the plan.
Change(status, plan) ==
    LET now == sub[Len(sub)] IN
    /\ Live /\ [status |-> status, plan |-> plan] # now
    /\ \/ status = now.status
       \/ now.status \in {"trialing", "past_due", "unpaid"} /\ status = "active"
       \/ now.status \in {"trialing", "active"} /\ status = "past_due"
       \/ now.status \in {"trialing", "past_due"} /\ status = "unpaid"
    /\ sub' = [sub EXCEPT ![Len(sub)] = [status |-> status, plan |-> plan]]
    /\ Emit("updated", Len(sub))
    /\ UNCHANGED <<gone, offer, kv, h, left, unfinished, trials>>

Cancel ==
    /\ Live
    /\ sub' = [sub EXCEPT ![Len(sub)].status = "canceled"]
    /\ Emit("deleted", Len(sub))
    /\ UNCHANGED <<gone, offer, kv, h, left, unfinished, trials>>

\* Stripe does not know the subscription any more, and says nothing.
Vanish ==
    /\ Live /\ Odd
    /\ gone' = gone \cup {Len(sub)}
    /\ UNCHANGED <<sub, events, due, offer, kv, h, raced, history>>

-----------------------------------------------------------------------------
(* The webhook handlers *)

\* A handler begins in its turn, or it races.
Begins(inTurn) ==
    \/ inTurn /\ UNCHANGED left
    \/ ~inTurn /\ Odd /\ raced' = TRUE

\* POST /webhook, down to the dispatch on the event's type
Deliver(w, e) ==
    /\ h[w].at = "idle" /\ e \in due
    /\ Begins(Quiet /\ \A d \in due : e <= d)
    /\ \/ /\ e \in seen /\ due' = due \ {e} /\ UNCHANGED h
       \/ /\ e \notin seen /\ UNCHANGED due
          /\ h' = [h EXCEPT ![w] = [Idle EXCEPT
                     !.event = e,
                     !.task = CASE events[e].type = "checkout" -> "checkout"
                                [] events[e].type = "updated" -> "sync"
                                [] events[e].type = "deleted" -> "delete",
                     !.at = IF events[e].type = "checkout" THEN "read" ELSE "resolve"]]
    /\ UNCHANGED <<sub, events, gone, offer, kv, history>>

\* handleCheckoutCompleted: the customer's email is stored, the record is read
\* for its trialUsed.
CheckoutRead(w) ==
    /\ h[w].at = "read"
    /\ mapped' = TRUE
    /\ h' = [h EXCEPT ![w].old = rec, ![w].at = "get"]
    /\ UNCHANGED <<stripe, offer, seen, rec, configured, left, history>>

\* resolveEmailFromCustomer.  A failed lookup at Stripe is swallowed: the handler
\* returns as if done.
Resolve(w) ==
    /\ h[w].at = "resolve"
    /\ \/ /\ mapped' = TRUE /\ UNCHANGED odds
          /\ h' = [h EXCEPT ![w].at = IF h[w].task = "delete" THEN "get" ELSE "fetch"]
       \/ /\ ~mapped /\ Odd /\ UNCHANGED mapped
          /\ h' = [h EXCEPT ![w].at = "finish"]
    /\ UNCHANGED <<stripe, offer, seen, rec, configured, raced, history>>

\* fetchSubscription.  A 404 is logged, and the handler returns as if done.
Fetch(w) ==
    LET i == events[h[w].event].sub IN
    /\ h[w].at = "fetch"
    /\ \/ i \notin gone /\ h' = [h EXCEPT ![w].snap = sub[i], ![w].at = "old"]
       \/ i \in gone /\ h' = [h EXCEPT ![w].at = "finish"]
    /\ UNCHANGED <<stripe, offer, kv, left, history>>

\* syncSubscriptionState: the record before, for the guard and the previous mode
ReadOld(w) ==
    /\ h[w].at = "old"
    /\ h' = [h EXCEPT ![w].old = rec, ![w].at = "get"]
    /\ UNCHANGED <<stripe, offer, kv, left, history>>

\* updateUserRecord: the read (onboarding-complete merges into the record unparsed)
MergeRead(w) ==
    /\ h[w].at = "get"
    /\ \E r \in {Parsed(rec)} \cup (IF h[w].task = "touch" THEN {rec} ELSE {}) :
           h' = [h EXCEPT ![w].base = r, ![w].at = "put"]
    /\ UNCHANGED <<stripe, offer, kv, left, history>>

\* (mutant: the end of a subscription does not reconcile the agent files)
MergeWriteThenFinish(w) ==
    LET x == h[w]
        new == Merged(x, events[x.event])
        done == [x EXCEPT !.old = NewUser, !.base = NewUser] IN
    /\ x.at = "put" /\ x.task \in Serving
    /\ rec' = new
    /\ h' = [h EXCEPT ![w] =
          CASE x.task = "checkout" -> [done EXCEPT !.task = "sync", !.at = "resolve"]
            [] x.task = "sync" -> [done EXCEPT !.at = IF x.old.mode # new.mode
                                                      THEN "reconcile" ELSE "finish"]
            [] x.task = "delete" -> [done EXCEPT !.at = "finish"]]
    /\ UNCHANGED <<stripe, offer, seen, mapped, configured, left, history>>

\* updateUserRecord: the write; where the handler goes on
MergeWrite(w) ==
    LET x == h[w]
        new == Merged(x, events[x.event])
        done == [x EXCEPT !.old = NewUser, !.base = NewUser] IN
    /\ x.at = "put" /\ x.task \in Serving
    /\ rec' = new
    /\ h' = [h EXCEPT ![w] =
          CASE x.task = "checkout" -> [done EXCEPT !.task = "sync", !.at = "resolve"]
            [] x.task = "sync" -> [done EXCEPT !.at = IF x.old.mode # new.mode
                                                      THEN "reconcile" ELSE "finish"]
            [] x.task = "delete" -> [done EXCEPT !.at = "reconcile"]]
    /\ UNCHANGED <<stripe, offer, seen, mapped, configured, left, history>>

\* reconcileAgentConfigs and the preferences; an error is logged and forgotten.
Reconcile(w) ==
    /\ h[w].at = "reconcile"
    /\ h' = [h EXCEPT ![w].at = "finish"]
    /\ \/ /\ configured' = IF h[w].task = "delete" THEN "default" ELSE Mode(h[w].snap.plan)
          /\ UNCHANGED <<odds, unfinished>>
       \/ /\ Odd /\ unfinished' = TRUE
          /\ UNCHANGED configured
    /\ UNCHANGED <<stripe, offer, seen, mapped, rec, raced, trials, said>>

\* The dedupe key is put and the event acknowledged; the answer may get lost.
Finish(w) ==
    /\ h[w].at = "finish"
    /\ seen' = seen \cup {h[w].event}
    /\ h' = [h EXCEPT ![w] = Idle]
    /\ \/ due' = due \ {h[w].event} /\ UNCHANGED odds
       \/ Odd /\ UNCHANGED due
    /\ UNCHANGED <<sub, events, gone, offer, mapped, rec, configured, raced, history>>

\* (mutant: the handler's error is answered with a 200)
FailAcknowledges(w) ==
    /\ h[w].at # "idle" /\ Odd
    /\ unfinished' = (unfinished \/ h[w].at = "reconcile")
    /\ h' = [h EXCEPT ![w] = Idle]
    /\ due' = due \ {h[w].event}
    /\ UNCHANGED <<sub, events, gone, offer, kv, raced, trials, said>>

\* A call fails and the answer is a 500, or the worker dies.
Fail(w) ==
    /\ h[w].at # "idle" /\ Odd
    /\ unfinished' = (unfinished \/ h[w].at = "reconcile")
    /\ h' = [h EXCEPT ![w] = Idle]
    /\ UNCHANGED <<stripe, offer, kv, raced, trials, said>>

-----------------------------------------------------------------------------
(* The other requests that write the record *)

\* "touch": a field of its own, such as the checkout id; "assign": PATCH /users, an
\* admin; "subscribe": POST /auth/subscribe, to the free tier; "clean": GET
\* /billing/status and POST /billing/switch, which look the subscription up first.
Ask(w, task) ==
    /\ h[w].at = "idle"
    /\ \/ Quiet /\ Odd /\ UNCHANGED raced
       \/ ~Quiet /\ odds > 1 /\ odds' = odds - 2 /\ raced' = TRUE
    /\ h' = [h EXCEPT ![w] = [Idle EXCEPT
                 !.task = task,
                 !.at = IF task \in {"touch", "assign"} THEN "get" ELSE "look"]]
    /\ UNCHANGED <<stripe, offer, kv, history>>

\* The record before: whether the trial is used up, or which subscription to verify
Look(w) ==
    /\ h[w].at = "look"
    /\ \E expired \in BOOLEAN :
           h' = [h EXCEPT
               ![w].old = HadTrial(rec, expired),
               ![w].at = IF h[w].task = "clean" THEN "verify" ELSE "get"]
    /\ UNCHANGED <<stripe, offer, kv, left, history>>

\* Only a subscription that is gone from Stripe is cleared in the record.
Verify(w) ==
    /\ h[w].at = "verify"
    /\ \/ h[w].old.sub \in gone /\ h' = [h EXCEPT ![w].at = "get"]
       \/ h[w].old.sub \notin gone /\ h' = [h EXCEPT ![w] = Idle]
    /\ UNCHANGED <<stripe, offer, kv, left, history>>

\* updateUserRecord: the write; tier and mode are what the request asks for.  None of
\* them reconciles the agent files.
AskedWrite(w) ==
    LET x == h[w] IN
    /\ x.at = "put" /\ x.task \in Asking
    /\ \/ x.task = "touch" /\ rec' = x.base
       \/ x.task = "subscribe" /\ \E mode \in Modes : rec' = Joined(x, mode)
       \/ x.task = "assign" /\ \E tier \in Tiers : \E mode \in Modes : rec' = Assigned(x, tier, mode)
       \/ x.task = "clean" /\ rec' = Cleaned(x)
    /\ unfinished' = (unfinished \/ rec'.mode # x.base.mode)
    /\ h' = [h EXCEPT ![w] = Idle]
    /\ UNCHANGED <<stripe, offer, seen, mapped, configured, left, trials, said>>

-----------------------------------------------------------------------------
Step(w) ==
    \/ CheckoutRead(w) \/ Resolve(w) \/ Fetch(w) \/ ReadOld(w) \/ MergeRead(w)
    \/ MergeWrite(w) \/ Reconcile(w) \/ Finish(w)
    \/ Look(w) \/ Verify(w) \/ AskedWrite(w)

Next ==
    \/ OpenCheckout \/ Cancel \/ Vanish
    \/ \E plan \in Plans : Subscribe(plan)
    \/ \E plan \in Plans : \E status \in Statuses : Change(status, plan)
    \/ \E w \in Handlers : Step(w) \/ Fail(w) \/ \E task \in Asking : Ask(w, task)
    \/ \E w \in Handlers : \E e \in due : Deliver(w, e)

Spec == Init /\ [][Next]_vars

-----------------------------------------------------------------------------
(* Properties *)

InOrder == ~raced
Settled == Quiet /\ due = {} /\ sub # << >>

\* REQ-SUB-015: once every event is acknowledged, the record grants what Stripe
\* says, whatever failed or was delivered twice on the way: the plan while it is paid
\* for or on trial, the free tier when it is over; and the plan still in a status the
\* code does not know, such as unpaid.  It takes handlers that did not overlap and
\* events that did not overtake each other (a snapshot or a record read before another
\* handler's write is written after it), no request that set the tier since, and a
\* subscription that is not gone from Stripe, for which events are acknowledged unread.
MirrorsStripe ==
    (Settled /\ InOrder /\ ~rec.asked /\ Len(sub) \notin gone) =>
        LET now == sub[Len(sub)] IN
        CASE now.status \in {"trialing", "active"} ->
                 EffectiveTier(rec, FALSE) = now.plan /\ rec.mode = Mode(now.plan)
          [] now.status = "past_due" ->
                 EffectiveTier(rec, TRUE) = (IF now.plan \in Paid THEN "free" ELSE now.plan)
          [] now.status = "unpaid" ->
                 /\ rec.mode = Mode(now.plan)
                 /\ \A expired \in BOOLEAN : EffectiveTier(rec, expired) = now.plan
          [] now.status = "canceled" ->
                 \A expired \in BOOLEAN : EffectiveTier(rec, expired) = "free"

\* The agent files follow the mode of the record, unless the reconcile itself failed or
\* a request changed the mode, which reconciles nothing: a failure anywhere else leads
\* to a retry that does it.
ModeIsConfigured == (Settled /\ InOrder /\ ~unfinished) => configured = rec.mode

\* A trial that was used up stays used, unless an overlapping handler writes back
\* the record it read before.
TrialStaysUsed == [][(rec.trialUsed /\ InOrder) => rec'.trialUsed]_vars

\* However handlers and other requests overlap, fail and come again, what the handlers
\* last wrote says of a subscription only what was once so: status, tier and mode are
\* those it had at one time (or the status is dropped, if the schema does not know it),
\* and the free tier is that of one that ended.  A request that sets the tier itself
\* leaves its mark on the record (asked), and on every copy that is merged later, until
\* a handler writes again.
Coherent(r, so) ==
    \/ r.asked
    \/ /\ r.mode = Mode(r.tier)
       /\ \E s \in so : /\ s.plan = r.tier
                        /\ (s.status = r.status \/ (s.status = "unpaid" /\ r.status = "none"))
    \/ /\ r.tier = "free" /\ r.status = "canceled" /\ r.mode = "default"
       /\ \E s \in so : s.status = "canceled"
    \/ r.tier = "pending" /\ r.status = "none" /\ r.mode = "default"
RecordIsCoherent == Coherent(rec, said)

-----------------------------------------------------------------------------
(* What the documents say and TLC refutes (README, section 6).              *)

\* REQ-SUB-005 AC6: "A trial-used marker is recorded when the subscription
\* transitions out of trial state", at the latest when its events are handled.
TrialIsMarked ==
    (Settled /\ InOrder /\ trials > 0 /\ sub[Len(sub)].status # "trialing") => rec.trialUsed

=============================================================================
