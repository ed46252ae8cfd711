---------------------------- MODULE Billing_proofs ---------------------------
(***************************************************************************)
(* Proofs about Billing, for any plans, handlers and bounds: the record is *)
(* coherent however handlers overlap, and where they do not it mirrors     *)
(* Stripe, the agent files follow it and a used trial stays used.          *)
(***************************************************************************)
EXTENDS Billing, TLAPS

EventType == [type : {"checkout", "updated", "deleted"}, sub : 1..Len(sub)]
HandlerType == [at : Places, task : Tasks, event : 0..Len(events),
                snap : Subscriptions \cup {NoSnap}, old : Records, base : Records]

\* The type invariant, by what the parts are about
StripeTypeOK ==
    /\ sub \in Seq(Subscriptions) /\ Len(sub) <= MaxSubs
    /\ events \in Seq(EventType)
    /\ gone \subseteq 1..Len(sub)
    /\ offer \in {"none", "trial", "paid"}
    /\ trials \in 0..MaxSubs
KvTypeOK ==
    /\ due \subseteq 1..Len(events) /\ seen \subseteq 1..Len(events)
    /\ mapped \in BOOLEAN
    /\ rec \in Records
    /\ configured \in Modes
    /\ unfinished \in BOOLEAN
    /\ raced \in BOOLEAN
LeftTypeOK == odds \in 0..MaxOdds
HandlersTypeOK == h \in [Handlers -> HandlerType]
SaidTypeOK == said \subseteq Subscriptions

LEMMA TypeParts == TypeOK <=> StripeTypeOK /\ KvTypeOK /\ LeftTypeOK /\ HandlersTypeOK /\ SaidTypeOK
BY DEF TypeOK, StripeTypeOK, KvTypeOK, LeftTypeOK, HandlersTypeOK, SaidTypeOK, EventType,
   HandlerType

LEMMA TypePartsNext ==
    ASSUME StripeTypeOK', KvTypeOK', LeftTypeOK', HandlersTypeOK', SaidTypeOK'
    PROVE  TypeOK'
BY DEF TypeOK, StripeTypeOK, KvTypeOK, LeftTypeOK, HandlersTypeOK, SaidTypeOK, EventType,
   HandlerType

\* What a handler works on: a task has its places, its event and, once fetched, its
\* snapshot of the subscription.
Tasked == \A w \in Handlers :
    /\ (h[w].at # "idle" /\ h[w].task \in Serving) => (h[w].event \in 1..Len(events))
    /\ (h[w].at \in {"idle", "read", "get", "put", "look", "verify"})
            \/ h[w].task \in {"sync", "delete"}
    /\ (h[w].at = "look") => (h[w].task \in Asking)
    /\ (h[w].at = "verify") => (h[w].task = "clean")
    /\ (h[w].at = "read") => (h[w].task = "checkout")
    /\ (h[w].at \in {"fetch", "old"}) => (h[w].task = "sync")
    /\ (h[w].task = "sync" /\ h[w].at \in {"old", "get", "put", "reconcile"})
            => (h[w].snap \in Subscriptions)

-----------------------------------------------------------------------------
(* What the steps of a handler do to the handlers *)

\* One handler moves, the others stay.
Becomes(w, at, task, event, snap, old, base) ==
    /\ h' \in [Handlers -> HandlerType]
    /\ h'[w].at = at /\ h'[w].task = task /\ h'[w].event = event
    /\ h'[w].snap = snap /\ h'[w].old = old /\ h'[w].base = base
    /\ \A v \in Handlers \ {w} : h'[v] = h[v]

LEMMA Values ==
    /\ NewUser \in Records /\ Idle \in HandlerType
    /\ Idle.at = "idle" /\ Idle.task = "touch" /\ Idle.event = 0 /\ Idle.snap = NoSnap
    /\ Idle.old = NewUser /\ Idle.base = NewUser
<1>1. NewUser \in Records
  BY BillingAssumption DEF BillingAssumption, NewUser, Records, Modes, Tiers
<1>2. 0 \in 0..Len(events)
  OBVIOUS
<1> QED
  BY <1>1, <1>2 DEF Idle, HandlerType, Places, Tasks, Asking

\* A handler that is given new values moves to them.
LEMMA MoveEffect ==
    ASSUME HandlersTypeOK, NEW w \in Handlers, NEW x \in HandlerType, h' = [h EXCEPT ![w] = x]
    PROVE  Becomes(w, x.at, x.task, x.event, x.snap, x.old, x.base)
BY DEF HandlersTypeOK, Becomes

\* A handler that ends is idle.
LEMMA EndEffect ==
    ASSUME HandlersTypeOK, NEW w \in Handlers, h' = [h EXCEPT ![w] = Idle]
    PROVE  h' \in [Handlers -> HandlerType] /\ h'[w] = Idle /\ \A v \in Handlers \ {w} : h'[v] = h[v]
BY Values DEF HandlersTypeOK

\* A handler that only goes on keeps all it has.
LEMMA GoEffect ==
    ASSUME HandlersTypeOK, NEW w \in Handlers, NEW p \in Places, h' = [h EXCEPT ![w].at = p]
    PROVE  Becomes(w, p, h[w].task, h[w].event, h[w].snap, h[w].old, h[w].base)
<1> DEFINE x == [h[w] EXCEPT !.at = p]
<1>1. h[w] \in HandlerType
  BY DEF HandlersTypeOK
<1>2. /\ x \in HandlerType /\ x.at = p /\ x.task = h[w].task /\ x.event = h[w].event
      /\ x.snap = h[w].snap /\ x.old = h[w].old /\ x.base = h[w].base
  BY <1>1 DEF HandlerType
<1>3. h' = [h EXCEPT ![w] = x]
  OBVIOUS
<1> HIDE DEF x
<1> QED
  BY <1>2, <1>3, MoveEffect

\* The same for a step that also keeps something: the record as it was before
LEMMA KeepOldEffect ==
    ASSUME HandlersTypeOK, NEW w \in Handlers, NEW r \in Records,
           h' = [h EXCEPT ![w].old = r, ![w].at = "get"]
    PROVE  Becomes(w, "get", h[w].task, h[w].event, h[w].snap, r, h[w].base)
<1> DEFINE x == [h[w] EXCEPT !.old = r, !.at = "get"]
<1>1. h[w] \in HandlerType
  BY DEF HandlersTypeOK
<1>2. /\ x \in HandlerType /\ x.at = "get" /\ x.task = h[w].task /\ x.event = h[w].event
      /\ x.snap = h[w].snap /\ x.old = r /\ x.base = h[w].base
  BY <1>1 DEF HandlerType, Places
<1>3. h' = [h EXCEPT ![w] = x]
  OBVIOUS
<1> HIDE DEF x
<1> QED
  BY <1>2, <1>3, MoveEffect

LEMMA CheckoutReadEffect ==
    ASSUME KvTypeOK, HandlersTypeOK, NEW w \in Handlers, CheckoutRead(w)
    PROVE  Becomes(w, "get", h[w].task, h[w].event, h[w].snap, rec, h[w].base)
BY KeepOldEffect DEF CheckoutRead, KvTypeOK

LEMMA ReadOldEffect ==
    ASSUME KvTypeOK, HandlersTypeOK, NEW w \in Handlers, ReadOld(w)
    PROVE  Becomes(w, "get", h[w].task, h[w].event, h[w].snap, rec, h[w].base)
BY KeepOldEffect DEF ReadOld, KvTypeOK

LEMMA ResolveEffect ==
    ASSUME HandlersTypeOK, NEW w \in Handlers, Resolve(w)
    PROVE  \E p \in {"get", "fetch", "finish"} :
             /\ Becomes(w, p, h[w].task, h[w].event, h[w].snap, h[w].old, h[w].base)
             /\ (p = "finish") => (~mapped /\ mapped' = mapped)
             /\ (p # "finish") => mapped'
             /\ (p = "get") => (h[w].task = "delete")
             /\ (p = "fetch") => (h[w].task # "delete")
<1>1. {"get", "fetch", "finish"} \subseteq Places
  BY DEF Places
<1>2. \E p \in {"get", "fetch", "finish"} :
         /\ h' = [h EXCEPT ![w].at = p]
         /\ (p = "finish") => (~mapped /\ mapped' = mapped)
         /\ (p # "finish") => mapped'
         /\ (p = "get") => (h[w].task = "delete")
         /\ (p = "fetch") => (h[w].task # "delete")
  <2>1. CASE mapped' = TRUE /\ h' = [h EXCEPT ![w].at = IF h[w].task = "delete" THEN "get" ELSE "fetch"]
    BY <2>1
  <2>2. CASE ~mapped /\ mapped' = mapped /\ h' = [h EXCEPT ![w].at = "finish"]
    BY <2>2
  <2> QED
    BY <2>1, <2>2 DEF Resolve
<1> QED
  BY <1>1, <1>2, GoEffect

\* The subscription an event is about
LEMMA EventFacts ==
    ASSUME StripeTypeOK, NEW e \in 1..Len(events)
    PROVE  /\ events[e].sub \in 1..Len(sub) /\ events[e].sub \in 0..MaxSubs
           /\ sub[events[e].sub] \in Subscriptions
           /\ events[e].type \in {"checkout", "updated", "deleted"}
<1>1. events[e] \in EventType
  BY DEF StripeTypeOK
<1>2. events[e].sub \in 1..Len(sub) /\ events[e].type \in {"checkout", "updated", "deleted"}
  BY <1>1 DEF EventType
<1> QED
  BY <1>2, BillingAssumption DEF StripeTypeOK, BillingAssumption

LEMMA FetchEffect ==
    ASSUME StripeTypeOK, HandlersTypeOK, Tasked, NEW w \in Handlers, Fetch(w)
    PROVE  LET i == events[h[w].event].sub IN
           /\ h[w].task = "sync" /\ h[w].event \in 1..Len(events) /\ sub[i] \in Subscriptions
           /\ \/ Becomes(w, "old", h[w].task, h[w].event, sub[i], h[w].old, h[w].base)
              \/ /\ i \in gone
                 /\ Becomes(w, "finish", h[w].task, h[w].event, h[w].snap, h[w].old, h[w].base)
<1> DEFINE i == events[h[w].event].sub
           s == sub[i]
           x == [h[w] EXCEPT !.snap = s, !.at = "old"]
<1>1. h[w] \in HandlerType /\ h[w].at = "fetch"
  BY DEF HandlersTypeOK, Fetch
<1>2. h[w].task = "sync" /\ h[w].event \in 1..Len(events)
  BY <1>1 DEF Tasked, Serving
<1>3. s \in Subscriptions
  BY <1>2, EventFacts
<1>4. h' = [h EXCEPT ![w] = x] \/ (i \in gone /\ h' = [h EXCEPT ![w].at = "finish"])
  BY DEF Fetch
<1> HIDE DEF i, s
<1>5. /\ x \in HandlerType /\ x.at = "old" /\ x.task = h[w].task /\ x.event = h[w].event
      /\ x.snap = s /\ x.old = h[w].old /\ x.base = h[w].base
  BY <1>1, <1>3 DEF HandlerType, Places
<1> HIDE DEF x
<1>6. CASE h' = [h EXCEPT ![w] = x]
  <2>1. Becomes(w, "old", h[w].task, h[w].event, s, h[w].old, h[w].base)
    BY <1>5, <1>6, MoveEffect
  <2> QED
    BY <1>2, <1>3, <2>1 DEF i, s
<1>7. CASE i \in gone /\ h' = [h EXCEPT ![w].at = "finish"]
  <2>1. "finish" \in Places
    BY DEF Places
  <2>2. Becomes(w, "finish", h[w].task, h[w].event, h[w].snap, h[w].old, h[w].base)
    BY <1>7, <2>1, GoEffect
  <2> QED
    BY <1>2, <1>3, <1>7, <2>2 DEF i, s
<1> QED
  BY <1>4, <1>6, <1>7

\* What is left of a record that is parsed: all but a status it does not know
LEMMA ParsedFacts ==
    ASSUME NEW r \in Records
    PROVE  /\ Parsed(r) \in Records
           /\ Parsed(r).tier = r.tier /\ Parsed(r).mode = r.mode
           /\ Parsed(r).trialUsed = r.trialUsed /\ Parsed(r).asked = r.asked
           /\ Parsed(r).status = IF r.status = "unpaid" THEN "none" ELSE r.status
<1>1. CASE r.status = "unpaid"
  <2>1. Parsed(r) = [r EXCEPT !.status = "none"]
    BY <1>1 DEF Parsed
  <2> QED
    BY <1>1, <2>1 DEF Records
<1>2. CASE r.status # "unpaid"
  BY <1>2 DEF Parsed
<1> QED
  BY <1>1, <1>2

LEMMA MergeReadEffect ==
    ASSUME KvTypeOK, HandlersTypeOK, NEW w \in Handlers, MergeRead(w)
    PROVE  \E r \in {rec, Parsed(rec)} :
               Becomes(w, "put", h[w].task, h[w].event, h[w].snap, h[w].old, r)
<1>1. h[w] \in HandlerType /\ rec \in Records /\ Parsed(rec) \in Records
  BY ParsedFacts DEF HandlersTypeOK, KvTypeOK
<1>2. PICK r \in {rec, Parsed(rec)} : h' = [h EXCEPT ![w].base = r, ![w].at = "put"]
  BY DEF MergeRead
<1> DEFINE x == [h[w] EXCEPT !.base = r, !.at = "put"]
<1>3. h' = [h EXCEPT ![w] = x]
  BY <1>2
<1>4. /\ x \in HandlerType /\ x.at = "put" /\ x.task = h[w].task /\ x.event = h[w].event
      /\ x.snap = h[w].snap /\ x.old = h[w].old /\ x.base = r
  BY <1>1 DEF HandlerType, Places
<1> HIDE DEF x
<1> QED
  BY <1>3, <1>4, MoveEffect

\* What updateUserRecord writes for a handler, task by task
LEMMA MergedFacts ==
    ASSUME NEW x \in HandlerType, NEW e, x.task \in Serving, e.sub \in 0..MaxSubs,
           x.task = "sync" => x.snap \in Subscriptions
    PROVE  /\ Merged(x, e) \in Records
           /\ x.task = "checkout" =>
                /\ Merged(x, e).tier = x.base.tier /\ Merged(x, e).mode = x.base.mode
                /\ Merged(x, e).status = x.base.status /\ Merged(x, e).asked = x.base.asked
                /\ Merged(x, e).trialUsed = x.old.trialUsed
           /\ x.task = "delete" =>
                /\ Merged(x, e).tier = "free" /\ Merged(x, e).mode = "default"
                /\ Merged(x, e).status = "canceled"
                /\ Merged(x, e).trialUsed = x.base.trialUsed
           /\ x.task = "sync" =>
                /\ Merged(x, e).tier = IF x.snap.plan \in Tagged THEN x.snap.plan
                                       ELSE x.base.tier
                /\ Merged(x, e).mode = Mode(x.snap.plan)
                /\ Merged(x, e).status = x.snap.status
                /\ x.base.trialUsed => Merged(x, e).trialUsed
<1>1. x.base \in Records /\ x.old \in Records
  BY DEF HandlerType
<1>2. e.sub \in 0..MaxSubs
  OBVIOUS
<1>3. x.task = "sync" => x.snap \in Subscriptions
  OBVIOUS
<1>4. CASE x.task = "checkout"
  <2>1. Merged(x, e) = [x.base EXCEPT !.sub = e.sub, !.trialUsed = x.old.trialUsed]
    BY <1>4 DEF Merged
  <2>2. x.old.trialUsed \in BOOLEAN
    BY <1>1 DEF Records
  <2>3. /\ Merged(x, e).tier = x.base.tier /\ Merged(x, e).mode = x.base.mode
        /\ Merged(x, e).status = x.base.status /\ Merged(x, e).asked = x.base.asked
        /\ Merged(x, e).trialUsed = x.old.trialUsed
    BY <1>1, <2>1 DEF Records
  <2>4. Merged(x, e) \in Records
    BY <1>1, <1>2, <1>4, <2>1, <2>2 DEF Records
  <2> QED
    BY <1>4, <2>3, <2>4
<1>5. CASE x.task = "delete"
  <2>1. Merged(x, e) = [x.base EXCEPT !.status = "canceled", !.tier = "free",
                                      !.mode = "default", !.asked = FALSE]
    BY <1>5 DEF Merged, Ended
  <2>2. Merged(x, e) \in Records
    BY <1>1, <2>1 DEF Records, Statuses, Modes, Tiers
  <2>3. /\ Merged(x, e).tier = "free" /\ Merged(x, e).mode = "default"
        /\ Merged(x, e).status = "canceled" /\ Merged(x, e).trialUsed = x.base.trialUsed
    BY <1>1, <2>1 DEF Records
  <2> QED
    BY <1>5, <2>2, <2>3
<1>6. CASE x.task = "sync"
  <2> DEFINE tier == IF x.snap.plan \in Tagged THEN x.snap.plan ELSE x.base.tier
             mode == Mode(x.snap.plan)
             used == x.base.trialUsed \/ x.snap.status # "trialing"
  <2>1. Merged(x, e) = [x.base EXCEPT !.status = x.snap.status, !.sub = e.sub, !.asked = FALSE,
                                      !.tier = tier, !.mode = mode, !.trialUsed = used]
    BY <1>1, <1>6 DEF Merged, Synced, Records
  <2>2. x.snap.status \in Statuses /\ x.snap.plan \in Plans
    BY <1>3, <1>6 DEF Subscriptions
  <2>3. tier \in Tiers /\ mode \in Modes
    BY <1>1, <2>2 DEF Records, Mode, Modes, Tiers
  <2>4. used \in BOOLEAN /\ (x.base.trialUsed => used)
    OBVIOUS
  <2> HIDE DEF tier, mode, used
  <2>5. /\ Merged(x, e).tier = tier /\ Merged(x, e).mode = mode
        /\ Merged(x, e).status = x.snap.status /\ Merged(x, e).trialUsed = used
    BY <1>1, <2>1 DEF Records
  <2>6. Merged(x, e) \in Records
    BY <1>1, <1>2, <1>6, <2>1, <2>2, <2>3, <2>4 DEF Records
  <2> QED
    BY <1>3, <1>6, <2>4, <2>5, <2>6 DEF tier, mode
<1> QED
  BY <1>4, <1>5, <1>6 DEF Serving

\* What a handler that writes has to write
LEMMA WriterFacts ==
    ASSUME StripeTypeOK, HandlersTypeOK, Tasked, NEW w \in Handlers, h[w].at = "put"
    PROVE  /\ h[w] \in HandlerType
           /\ h[w].task \in Serving => events[h[w].event].sub \in 0..MaxSubs
           /\ h[w].task = "sync" => h[w].snap \in Subscriptions
BY EventFacts DEF Tasked, HandlersTypeOK

\* Where a handler goes on after the write
LEMMA MergeWriteEffect ==
    ASSUME StripeTypeOK, HandlersTypeOK, Tasked, NEW w \in Handlers, MergeWrite(w)
    PROVE  LET x == h[w]
               new == Merged(x, events[x.event]) IN
           /\ x.at = "put" /\ x.task \in Serving /\ rec' = new
           /\ \/ /\ x.task = "checkout"
                 /\ Becomes(w, "resolve", "sync", x.event, x.snap, NewUser, NewUser)
              \/ /\ x.task = "sync" /\ x.old.mode # new.mode
                 /\ Becomes(w, "reconcile", x.task, x.event, x.snap, NewUser, NewUser)
              \/ /\ x.task = "sync" /\ x.old.mode = new.mode
                 /\ Becomes(w, "finish", x.task, x.event, x.snap, NewUser, NewUser)
              \/ /\ x.task = "delete"
                 /\ Becomes(w, "reconcile", x.task, x.event, x.snap, NewUser, NewUser)
<1> DEFINE x == h[w]
           new == Merged(x, events[x.event])
           done == [x EXCEPT !.old = NewUser, !.base = NewUser]
           To(at, task) == [done EXCEPT !.task = task, !.at = at]
<1>1. x \in HandlerType /\ NewUser \in Records
  BY Values DEF HandlersTypeOK
<1>2. /\ x.at = "put" /\ x.task \in Serving /\ rec' = new
      /\ h' = [h EXCEPT ![w] =
          CASE x.task = "checkout" -> [done EXCEPT !.task = "sync", !.at = "resolve"]
            [] x.task = "sync" -> [done EXCEPT !.at = IF x.old.mode # new.mode
                                                      THEN "reconcile" ELSE "finish"]
            [] x.task = "delete" -> [done EXCEPT !.at = "reconcile"]]
  BY DEF MergeWrite
<1> HIDE DEF new
<1>3. /\ done \in HandlerType /\ done.task = x.task /\ done.event = x.event
      /\ done.snap = x.snap /\ done.old = NewUser /\ done.base = NewUser
  BY <1>1 DEF HandlerType
<1>4. ASSUME NEW at \in {"resolve", "reconcile", "finish"}, NEW task \in Serving,
             h' = [h EXCEPT ![w] = To(at, task)]
      PROVE  Becomes(w, at, task, x.event, x.snap, NewUser, NewUser)
  <2> DEFINE y == To(at, task)
  <2> HIDE DEF done
  <2>1. /\ y \in HandlerType /\ y.at = at /\ y.task = task /\ y.event = x.event
        /\ y.snap = x.snap /\ y.old = NewUser /\ y.base = NewUser
    BY <1>3 DEF HandlerType, Places, Tasks
  <2>2. h' = [h EXCEPT ![w] = y]
    BY <1>4
  <2> HIDE DEF y
  <2> QED
    BY <2>1, <2>2, MoveEffect
<1> HIDE DEF done
<1>5. ASSUME NEW at \in {"reconcile", "finish"}, h' = [h EXCEPT ![w] = [done EXCEPT !.at = at]]
      PROVE  Becomes(w, at, x.task, x.event, x.snap, NewUser, NewUser)
  <2>1. [done EXCEPT !.at = at] = To(at, x.task)
    BY <1>3 DEF HandlerType
  <2>2. h' = [h EXCEPT ![w] = To(at, x.task)]
    BY <1>5, <2>1
  <2> HIDE DEF To
  <2> QED
    BY <1>2, <1>4, <2>2
<1>6. CASE x.task = "checkout"
  <2>1. h' = [h EXCEPT ![w] = To("resolve", "sync")]
    BY <1>2, <1>6
  <2> HIDE DEF To
  <2>2. Becomes(w, "resolve", "sync", x.event, x.snap, NewUser, NewUser)
    BY <1>4, <2>1 DEF Serving
  <2> QED
    BY <1>2, <1>6, <2>2 DEF new
<1>7. CASE x.task = "sync" /\ x.old.mode # new.mode
  <2>1. h' = [h EXCEPT ![w] = [done EXCEPT !.at = "reconcile"]]
    BY <1>2, <1>7
  <2>2. Becomes(w, "reconcile", x.task, x.event, x.snap, NewUser, NewUser)
    BY <1>5, <2>1
  <2> QED
    BY <1>2, <1>7, <2>2 DEF new
<1>8. CASE x.task = "sync" /\ x.old.mode = new.mode
  <2>1. h' = [h EXCEPT ![w] = [done EXCEPT !.at = "finish"]]
    BY <1>2, <1>8
  <2>2. Becomes(w, "finish", x.task, x.event, x.snap, NewUser, NewUser)
    BY <1>5, <2>1
  <2> QED
    BY <1>2, <1>8, <2>2 DEF new
<1>9. CASE x.task = "delete"
  <2>1. h' = [h EXCEPT ![w] = [done EXCEPT !.at = "reconcile"]]
    BY <1>2, <1>9
  <2>2. Becomes(w, "reconcile", x.task, x.event, x.snap, NewUser, NewUser)
    BY <1>5, <2>1
  <2> QED
    BY <1>2, <1>9, <2>2 DEF new
<1> QED
  BY <1>2, <1>6, <1>7, <1>8, <1>9 DEF Serving

LEMMA ReconcileEffect ==
    ASSUME HandlersTypeOK, NEW w \in Handlers, Reconcile(w)
    PROVE  Becomes(w, "finish", h[w].task, h[w].event, h[w].snap, h[w].old, h[w].base)
BY GoEffect DEF Reconcile, Places

\* A webhook that finds its dedupe key, or a handler that begins
LEMMA DeliverEffect ==
    ASSUME StripeTypeOK, KvTypeOK, HandlersTypeOK, NEW w \in Handlers, NEW e \in due, Deliver(w, e)
    PROVE  \/ e \in seen /\ due' = due \ {e} /\ UNCHANGED h
           \/ /\ e \in 1..Len(events) /\ e \notin seen /\ UNCHANGED due
              /\ \E at \in {"read", "resolve"} : \E task \in {"checkout", "sync", "delete"} :
                   /\ Becomes(w, at, task, e, NoSnap, NewUser, NewUser)
                   /\ (at = "read") <=> (task = "checkout")
                   /\ (task = "checkout") <=> (events[e].type = "checkout")
                   /\ (task = "delete") <=> (events[e].type = "deleted")
<1>1. e \in 1..Len(events) /\ events[e].type \in {"checkout", "updated", "deleted"}
  BY EventFacts DEF KvTypeOK
<1>2. e \in 0..Len(events)
  BY <1>1
<1> DEFINE task == CASE events[e].type = "checkout" -> "checkout"
                     [] events[e].type = "updated" -> "sync"
                     [] events[e].type = "deleted" -> "delete"
           at == IF events[e].type = "checkout" THEN "read" ELSE "resolve"
           x == [Idle EXCEPT !.event = e, !.task = task, !.at = at]
<1>3. /\ task \in {"checkout", "sync", "delete"} /\ at \in {"read", "resolve"}
      /\ (at = "read") <=> (task = "checkout")
      /\ (task = "checkout") <=> (events[e].type = "checkout")
      /\ (task = "delete") <=> (events[e].type = "deleted")
  BY <1>1
<1>4. \/ e \in seen /\ due' = due \ {e} /\ UNCHANGED h
      \/ e \notin seen /\ UNCHANGED due /\ h' = [h EXCEPT ![w] = x]
  BY DEF Deliver
<1> HIDE DEF task, at
<1>5. /\ x \in HandlerType /\ x.at = at /\ x.task = task /\ x.event = e
      /\ x.snap = NoSnap /\ x.old = NewUser /\ x.base = NewUser
  BY <1>2, <1>3, Values DEF HandlerType, Places, Tasks, Serving, Idle
<1> HIDE DEF x
<1>6. h' = [h EXCEPT ![w] = x] => Becomes(w, at, task, e, NoSnap, NewUser, NewUser)
  BY <1>5, MoveEffect
<1> QED
  BY <1>1, <1>3, <1>4, <1>6

-----------------------------------------------------------------------------
(* What the other requests do to the handlers *)

Asks(w) == \E task \in Asking : Ask(w, task)

LEMMA AskEffect ==
    ASSUME HandlersTypeOK, NEW w \in Handlers, Asks(w)
    PROVE  \E at \in {"get", "look"} : \E task \in Asking :
             /\ Becomes(w, at, task, 0, NoSnap, NewUser, NewUser)
             /\ (task = "subscribe") => (at = "look")
<1>1. PICK task \in Asking : Ask(w, task)
  BY DEF Asks
<1> DEFINE at == IF task \in {"touch", "assign"} THEN "get" ELSE "look"
           x == [Idle EXCEPT !.task = task, !.at = at]
<1>2. h' = [h EXCEPT ![w] = x]
  BY <1>1 DEF Ask
<1>3. at \in {"get", "look"} /\ ((task = "subscribe") => (at = "look"))
  OBVIOUS
<1> HIDE DEF at
<1>4. /\ x \in HandlerType /\ x.at = at /\ x.task = task /\ x.event = 0
      /\ x.snap = NoSnap /\ x.old = NewUser /\ x.base = NewUser
  BY <1>3, Values DEF HandlerType, Places, Tasks, Idle
<1> HIDE DEF x
<1>5. Becomes(w, at, task, 0, NoSnap, NewUser, NewUser)
  BY <1>2, <1>4, MoveEffect
<1> QED
  BY <1>3, <1>5

LEMMA LookEffect ==
    ASSUME KvTypeOK, HandlersTypeOK, NEW w \in Handlers, Look(w)
    PROVE  \E p \in {"get", "verify"} : \E r \in Records :
             /\ Becomes(w, p, h[w].task, h[w].event, h[w].snap, r, h[w].base)
             /\ (p = "verify") => (h[w].task = "clean")
             /\ rec.trialUsed => r.trialUsed
<1>1. h[w] \in HandlerType /\ rec \in Records
  BY DEF HandlersTypeOK, KvTypeOK
<1> DEFINE p == IF h[w].task = "clean" THEN "verify" ELSE "get"
<1>2. PICK expired \in BOOLEAN : h' = [h EXCEPT ![w].old = HadTrial(rec, expired), ![w].at = p]
  BY DEF Look
<1> DEFINE r == HadTrial(rec, expired)
           x == [h[w] EXCEPT !.old = r, !.at = p]
<1>3. r \in Records /\ (rec.trialUsed => r.trialUsed)
  BY <1>1 DEF Records, HadTrial
<1>4. p \in {"get", "verify"} /\ ((p = "verify") => (h[w].task = "clean"))
  OBVIOUS
<1>5. h' = [h EXCEPT ![w] = x]
  BY <1>2
<1> HIDE DEF r, p
<1>6. /\ x \in HandlerType /\ x.at = p /\ x.task = h[w].task /\ x.event = h[w].event
      /\ x.snap = h[w].snap /\ x.old = r /\ x.base = h[w].base
  BY <1>1, <1>3, <1>4 DEF HandlerType, Places
<1> HIDE DEF x
<1>7. Becomes(w, p, h[w].task, h[w].event, h[w].snap, r, h[w].base)
  BY <1>5, <1>6, MoveEffect
<1> QED
  BY <1>3, <1>4, <1>7

LEMMA VerifyEffect ==
    ASSUME HandlersTypeOK, Tasked, NEW w \in Handlers, Verify(w)
    PROVE  /\ h[w].task = "clean"
           /\ \/ Becomes(w, "get", h[w].task, h[w].event, h[w].snap, h[w].old, h[w].base)
              \/ /\ h' \in [Handlers -> HandlerType] /\ h'[w] = Idle
                 /\ \A v \in Handlers \ {w} : h'[v] = h[v]
BY GoEffect, EndEffect DEF Verify, Places, Tasked

LEMMA AskedWriteEffect ==
    ASSUME HandlersTypeOK, NEW w \in Handlers, AskedWrite(w)
    PROVE  LET x == h[w] IN
           /\ x.at = "put" /\ x.task \in Asking /\ x \in HandlerType
           /\ rec' \in Records
           /\ x.task = "touch" => rec' = x.base
           /\ x.task # "touch" => rec'.asked
           /\ rec'.trialUsed = IF x.task = "subscribe" THEN x.old.trialUsed ELSE x.base.trialUsed
           /\ unfinished' = (unfinished \/ rec'.mode # x.base.mode)
           /\ h' \in [Handlers -> HandlerType] /\ h'[w] = Idle
           /\ \A v \in Handlers \ {w} : h'[v] = h[v]
<1> DEFINE x == h[w]
<1>1. x \in HandlerType /\ x.base \in Records /\ x.old \in Records
  BY DEF HandlersTypeOK, HandlerType
<1>2. x.old.trialUsed \in BOOLEAN
  BY <1>1 DEF Records
<1>3. /\ h' \in [Handlers -> HandlerType] /\ h'[w] = Idle
      /\ \A v \in Handlers \ {w} : h'[v] = h[v]
  BY EndEffect DEF AskedWrite
<1>4. /\ x.at = "put" /\ x.task \in Asking
      /\ unfinished' = (unfinished \/ rec'.mode # x.base.mode)
      /\ \/ x.task = "touch" /\ rec' = x.base
         \/ x.task = "subscribe" /\ \E mode \in Modes : rec' = Joined(x, mode)
         \/ /\ x.task = "assign"
            /\ \E tier \in Tiers : \E mode \in Modes : rec' = Assigned(x, tier, mode)
         \/ x.task = "clean" /\ rec' = Cleaned(x)
  BY Zenon DEF AskedWrite
<1> HIDE DEF x
<1> DEFINE Sound ==
      /\ rec' \in Records
      /\ x.task = "touch" => rec' = x.base
      /\ x.task # "touch" => rec'.asked
      /\ rec'.trialUsed = IF x.task = "subscribe" THEN x.old.trialUsed ELSE x.base.trialUsed
<1>5. ASSUME x.task = "touch", rec' = x.base PROVE Sound
  BY <1>1, <1>5
<1>6. ASSUME NEW mode \in Modes, x.task = "subscribe", rec' = Joined(x, mode) PROVE Sound
  <2>1. /\ Joined(x, mode) \in Records /\ Joined(x, mode).asked
        /\ Joined(x, mode).trialUsed = x.old.trialUsed
    BY <1>1, <1>2 DEF Joined, Records, Tiers
  <2> QED
    BY <1>6, <2>1
<1>7. ASSUME NEW tier \in Tiers, NEW mode \in Modes, x.task = "assign",
             rec' = Assigned(x, tier, mode)
      PROVE  Sound
  <2>1. /\ Assigned(x, tier, mode) \in Records /\ Assigned(x, tier, mode).asked
        /\ Assigned(x, tier, mode).trialUsed = x.base.trialUsed
    BY <1>1 DEF Assigned, Records
  <2> QED
    BY <1>7, <2>1
<1>8. ASSUME x.task = "clean", rec' = Cleaned(x) PROVE Sound
  <2>1. /\ Cleaned(x) \in Records /\ Cleaned(x).asked
        /\ Cleaned(x).trialUsed = x.base.trialUsed
    BY <1>1 DEF Cleaned, Records, Tiers, Statuses
  <2> QED
    BY <1>8, <2>1
<1>9. Sound
  BY <1>4, <1>5, <1>6, <1>7, <1>8
<1> QED
  BY <1>1, <1>3, <1>4, <1>9 DEF x

\* A handler ends with its event's dedupe key, or with an error.
LEMMA EndingEffect ==
    ASSUME HandlersTypeOK, NEW w \in Handlers, Finish(w) \/ Fail(w)
    PROVE  h' \in [Handlers -> HandlerType] /\ h'[w] = Idle /\ \A v \in Handlers \ {w} : h'[v] = h[v]
BY EndEffect DEF Finish, Fail

\* A handler or another request makes a step.
HandlerActs(w) == Step(w) \/ Fail(w) \/ Asks(w) \/ \E e \in due : Deliver(w, e)

LEMMA ActsKeep ==
    ASSUME NEW w \in Handlers, HandlerActs(w)
    PROVE  UNCHANGED <<sub, events, gone, offer, trials, said>> /\ (mapped => mapped')
<1>1. CASE CheckoutRead(w) \/ Resolve(w) \/ Fetch(w) \/ ReadOld(w) \/ MergeRead(w)
  BY <1>1 DEF CheckoutRead, Resolve, Fetch, ReadOld, MergeRead, stripe, kv, history
<1>2. CASE MergeWrite(w) \/ Reconcile(w) \/ Finish(w) \/ Fail(w)
  BY <1>2 DEF MergeWrite, Reconcile, Finish, Fail, stripe, kv, history
<1>3. CASE Asks(w)
  BY <1>3 DEF Asks, Ask, stripe, kv, history
<1>6. CASE Look(w) \/ Verify(w)
  <2>1. UNCHANGED <<stripe, kv, offer, history>>
    BY <1>6, Zenon DEF Look, Verify
  <2> QED
    BY <2>1 DEF stripe, kv, history
<1>5. CASE AskedWrite(w)
  BY <1>5 DEF AskedWrite, stripe
<1>4. ASSUME NEW e \in due, Deliver(w, e)
      PROVE  UNCHANGED <<sub, events, gone, offer, trials, said>> /\ mapped' = mapped
  BY <1>4 DEF Deliver, kv, history
<1> QED
  BY <1>1, <1>2, <1>3, <1>4, <1>5, <1>6 DEF HandlerActs, Step

-----------------------------------------------------------------------------
(* What Stripe does *)

LEMMA EmitEffect ==
    ASSUME StripeTypeOK, KvTypeOK, NEW type \in {"checkout", "updated", "deleted"},
           sub' \in Seq(Subscriptions), Len(sub) <= Len(sub'), NEW i \in 1..Len(sub'),
           Emit(type, i)
    PROVE  /\ events' \in Seq(EventType') /\ Len(events') = Len(events) + 1
           /\ events'[Len(events) + 1] = [type |-> type, sub |-> i]
           /\ \A j \in 1..Len(events) : events'[j] = events[j]
           /\ due' = due \cup {Len(events) + 1} /\ said' = said \cup {sub'[i]}
<1>1. EventType \subseteq EventType'
  BY DEF EventType, StripeTypeOK
<1>2. events \in Seq(EventType')
  <2>1. events \in Seq(EventType)
    BY DEF StripeTypeOK
  <2> HIDE DEF EventType
  <2> QED
    BY <1>1, <2>1
<1>3. [type |-> type, sub |-> i] \in EventType'
  BY DEF EventType
<1>4. events' = Append(events, [type |-> type, sub |-> i])
      /\ due' = due \cup {Len(events) + 1} /\ said' = said \cup {sub'[i]}
  BY DEF Emit
<1> DEFINE e == [type |-> type, sub |-> i]
           T == EventType'
<1> HIDE DEF e, T
<1>5. /\ Append(events, e) \in Seq(T) /\ Len(Append(events, e)) = Len(events) + 1
      /\ Append(events, e)[Len(events) + 1] = e
      /\ \A j \in 1..Len(events) : Append(events, e)[j] = events[j]
  BY <1>2, <1>3 DEF e, T
<1> QED
  BY <1>4, <1>5 DEF e, T

\* A change of the subscription is announced: by an event of the last one, "deleted" if
\* and only if that is how it ended, and the first is a checkout.
Announces ==
    /\ StripeTypeOK'
    /\ Len(events') = Len(events) + 1
    /\ \A j \in 1..Len(events) : events'[j] = events[j]
    /\ due' = due \cup {Len(events) + 1}
    /\ Len(sub') > 0
    /\ said' = said \cup {sub'[Len(sub')]}
    /\ \A i \in 1..Len(sub') : (i # Len(sub')) => (i \in 1..Len(sub) /\ sub'[i] = sub[i])
    /\ events'[Len(events')].sub = Len(sub')
    /\ (events'[Len(events')].type = "deleted") <=> (sub'[Len(sub')].status = "canceled")
    /\ (Len(sub) = 0) => (events'[Len(events')].type = "checkout")
    /\ UNCHANGED <<gone, kv, h, left, unfinished>>

LEMMA SubscribeAnnounces ==
    ASSUME StripeTypeOK, KvTypeOK, NEW plan \in Plans, Subscribe(plan), trials <= Len(sub)
    PROVE  Announces /\ trials' <= Len(sub')
<1> DEFINE s == [status |-> IF offer = "trial" THEN "trialing" ELSE "active", plan |-> plan]
<1>1. s \in Subscriptions /\ s.status # "canceled"
  BY DEF Subscriptions, Statuses
<1>2. sub' = Append(sub, s) /\ Emit("checkout", Len(sub) + 1) /\ Len(sub) < MaxSubs
  BY DEF Subscribe
<1> HIDE DEF s
<1>3. sub \in Seq(Subscriptions) /\ Len(sub) \in Nat
  BY DEF StripeTypeOK
<1>4. /\ sub' \in Seq(Subscriptions) /\ Len(sub') = Len(sub) + 1
      /\ sub'[Len(sub) + 1] = s /\ \A i \in 1..Len(sub) : sub'[i] = sub[i]
  BY <1>1, <1>2, <1>3
<1>5. Len(sub) + 1 \in 1..Len(sub')
  BY <1>3, <1>4
<1>6. /\ events' \in Seq(EventType') /\ Len(events') = Len(events) + 1
      /\ events'[Len(events) + 1] = [type |-> "checkout", sub |-> Len(sub) + 1]
      /\ \A j \in 1..Len(events) : events'[j] = events[j]
      /\ due' = due \cup {Len(events) + 1} /\ said' = said \cup {sub'[Len(sub')]}
  BY <1>2, <1>3, <1>4, <1>5, EmitEffect
<1>7. offer' \in {"none", "trial", "paid"} /\ trials' \in {trials, trials + 1}
  BY DEF Subscribe
<1>8. trials' \in 0..MaxSubs /\ trials' <= Len(sub')
  BY <1>2, <1>3, <1>4, <1>7, BillingAssumption DEF StripeTypeOK, BillingAssumption
<1>9. UNCHANGED <<gone, kv, h, left, unfinished>>
  BY DEF Subscribe
<1>10. StripeTypeOK'
  BY <1>2, <1>3, <1>4, <1>6, <1>7, <1>8, <1>9, BillingAssumption DEF StripeTypeOK, BillingAssumption
<1> QED
  BY <1>1, <1>3, <1>4, <1>6, <1>8, <1>9, <1>10 DEF Announces

\* The last subscription changes or ends.
LEMMA LastAnnounced ==
    ASSUME StripeTypeOK, KvTypeOK, Len(sub) > 0, NEW s \in Subscriptions,
           sub' \in Seq(Subscriptions), Len(sub') = Len(sub), sub'[Len(sub)] = s,
           \A i \in 1..Len(sub) : (i # Len(sub)) => sub'[i] = sub[i],
           NEW type \in {"updated", "deleted"}, Emit(type, Len(sub)),
           (type = "deleted") <=> (s.status = "canceled"),
           UNCHANGED <<gone, offer, kv, h, left, unfinished, trials>>
    PROVE  Announces /\ trials' = trials
<1>1. Len(sub) \in Nat /\ Len(sub) \in 1..Len(sub') /\ Len(sub) <= MaxSubs
  BY DEF StripeTypeOK
<1>2. /\ events' \in Seq(EventType') /\ Len(events') = Len(events) + 1
      /\ events'[Len(events) + 1] = [type |-> type, sub |-> Len(sub)]
      /\ \A j \in 1..Len(events) : events'[j] = events[j]
      /\ due' = due \cup {Len(events) + 1} /\ said' = said \cup {sub'[Len(sub)]}
  BY <1>1, EmitEffect
<1>3. StripeTypeOK'
  BY <1>1, <1>2 DEF StripeTypeOK
<1>4. UNCHANGED <<gone, kv, h, left, unfinished>> /\ trials' = trials
  OBVIOUS
<1>5. events'[Len(events')].sub = Len(sub') /\ events'[Len(events')].type = type
  BY <1>2
<1>6. \A i \in 1..Len(sub') : (i # Len(sub')) => (i \in 1..Len(sub) /\ sub'[i] = sub[i])
  OBVIOUS
<1> QED
  BY <1>1, <1>2, <1>3, <1>4, <1>5, <1>6 DEF Announces

LEMMA LastChanges ==
    ASSUME StripeTypeOK, KvTypeOK, Len(sub) > 0, NEW s \in Subscriptions,
           sub' = [sub EXCEPT ![Len(sub)] = s],
           NEW type \in {"updated", "deleted"}, Emit(type, Len(sub)),
           (type = "deleted") <=> (s.status = "canceled"),
           UNCHANGED <<gone, offer, kv, h, left, unfinished, trials>>
    PROVE  Announces /\ trials' = trials /\ Len(sub') = Len(sub)
<1>1. sub \in Seq(Subscriptions) /\ Len(sub) \in 1..Len(sub)
  BY DEF StripeTypeOK
<1>2. /\ sub' \in Seq(Subscriptions) /\ Len(sub') = Len(sub)
      /\ sub'[Len(sub)] = s /\ \A i \in 1..Len(sub) : (i # Len(sub)) => sub'[i] = sub[i]
  BY <1>1
<1> QED
  BY <1>2, LastAnnounced

LEMMA ChangeAnnounces ==
    ASSUME StripeTypeOK, KvTypeOK, NEW plan \in Plans, NEW status \in Statuses,
           Change(status, plan)
    PROVE  Announces /\ trials' = trials /\ Len(sub') = Len(sub)
<1> DEFINE s == [status |-> status, plan |-> plan]
<1>1. sub \in Seq(Subscriptions) /\ Len(sub) > 0
  BY DEF StripeTypeOK, Change, Live
<1>2. s \in Subscriptions /\ s.status = status
  BY DEF Subscriptions
<1>3. status # "canceled"
  BY DEF Change, Live
<1>4. /\ sub' = [sub EXCEPT ![Len(sub)] = s] /\ Emit("updated", Len(sub))
      /\ UNCHANGED <<gone, offer, kv, h, left, unfinished, trials>>
  BY DEF Change
<1> HIDE DEF s
<1> QED
  BY <1>1, <1>2, <1>3, <1>4, LastChanges

LEMMA CancelAnnounces ==
    ASSUME StripeTypeOK, KvTypeOK, Cancel
    PROVE  Announces /\ trials' = trials /\ Len(sub') = Len(sub)
<1> DEFINE s == [sub[Len(sub)] EXCEPT !.status = "canceled"]
<1>1. sub \in Seq(Subscriptions) /\ Len(sub) > 0
  BY DEF StripeTypeOK, Cancel, Live
<1>2. sub[Len(sub)] \in Subscriptions
  BY <1>1
<1>3. s \in Subscriptions /\ s.status = "canceled"
  BY <1>2 DEF Subscriptions, Statuses
<1>4. /\ sub' = [sub EXCEPT ![Len(sub)] = s] /\ Emit("deleted", Len(sub))
      /\ UNCHANGED <<gone, offer, kv, h, left, unfinished, trials>>
  BY DEF Cancel
<1> HIDE DEF s
<1> QED
  BY <1>1, <1>3, <1>4, LastChanges

\* Whatever Stripe does to a subscription, it announces.
StripeActs ==
    \/ Cancel
    \/ \E plan \in Plans : Subscribe(plan)
    \/ \E plan \in Plans : \E status \in Statuses : Change(status, plan)

\* What nobody is told of
Apart == OpenCheckout \/ Vanish \/ UNCHANGED vars

LEMMA ApartEffect ==
    ASSUME StripeTypeOK, Apart
    PROVE  /\ UNCHANGED <<sub, events, due, kv, h, history>>
           /\ gone \subseteq gone' /\ gone' \subseteq 1..Len(sub) /\ raced' = raced
           /\ offer' = offer \/ offer' \in {"trial", "paid"}
<1>1. CASE Vanish
  <2>1. Len(sub) \in 1..Len(sub)
    BY <1>1 DEF Vanish, Live, StripeTypeOK
  <2> QED
    BY <1>1, <2>1 DEF Vanish, StripeTypeOK
<1> QED
  BY <1>1 DEF Apart, OpenCheckout, vars, stripe, left, StripeTypeOK

LEMMA NextCases ==
    ASSUME [Next]_vars
    PROVE  StripeActs \/ Apart \/ \E w \in Handlers : HandlerActs(w)
<1>1. ASSUME NEW w \in Handlers, Step(w) \/ Fail(w) \/ \E task \in Asking : Ask(w, task)
      PROVE  HandlerActs(w)
  BY <1>1 DEF HandlerActs, Asks
<1>2. ASSUME NEW w \in Handlers, \E e \in due : Deliver(w, e) PROVE HandlerActs(w)
  BY <1>2 DEF HandlerActs
<1> QED
  BY <1>1, <1>2, Zenon DEF Next, StripeActs, Apart

LEMMA StripeAnnounces ==
    ASSUME StripeTypeOK, KvTypeOK, trials <= Len(sub), StripeActs
    PROVE  Announces /\ trials' <= Len(sub')
BY SubscribeAnnounces, ChangeAnnounces, CancelAnnounces DEF StripeActs

-----------------------------------------------------------------------------
(* Types and tasks *)

\* The trials are no more than the subscriptions: what keeps their type.
Typed == TypeOK /\ Tasked /\ trials <= Len(sub)

LEMMA TypedInit == Init => Typed
<1> SUFFICES ASSUME Init PROVE Typed
  OBVIOUS
<1> USE BillingAssumption DEF BillingAssumption
<1>1. h \in [Handlers -> HandlerType] /\ \A w \in Handlers : h[w] = Idle
  BY Values DEF Init
<1>2. sub = << >> /\ Len(sub) = 0 /\ sub \in Seq(Subscriptions)
  BY DEF Init
<1>3. events = << >> /\ Len(events) = 0 /\ events \in Seq(EventType)
  BY DEF Init
<1>4. StripeTypeOK
  BY <1>2, <1>3 DEF Init, StripeTypeOK
<1>5. KvTypeOK
  BY Values DEF Init, KvTypeOK, Modes
<1>6. LeftTypeOK
  BY DEF Init, LeftTypeOK
<1>7. Tasked
  BY <1>1, Values DEF Tasked
<1>8. trials <= Len(sub)
  BY <1>2 DEF Init
<1>9. SaidTypeOK
  BY DEF Init, SaidTypeOK
<1> QED
  BY <1>1, <1>4, <1>5, <1>6, <1>7, <1>8, <1>9, TypeParts DEF Typed, HandlersTypeOK

\* A step uses up one of what is left, or two.
Falls ==
    \/ odds' = odds
    \/ odds > 0 /\ odds' = odds - 1
    \/ odds > 1 /\ odds' = odds - 2

LEMMA LeftStep ==
    ASSUME TypeOK, [Next]_vars
    PROVE  LeftTypeOK'
<1>1. ASSUME StripeActs \/ Apart PROVE Falls
  BY <1>1, Zenon DEF StripeActs, Apart, Cancel, Subscribe, Change, OpenCheckout, Vanish, Odd,
     Falls, vars, left
<1>2. ASSUME NEW w \in Handlers, HandlerActs(w) PROVE Falls
  <2>1. CASE Step(w)
    BY <2>1, Zenon DEF Step, CheckoutRead, Resolve, Fetch, ReadOld, MergeRead, MergeWrite,
       Reconcile, Finish, Look, Verify, AskedWrite, Odd, Falls, left
  <2>2. CASE Fail(w) \/ Asks(w)
    BY <2>2, Zenon DEF Fail, Asks, Ask, Odd, Falls
  <2>3. ASSUME NEW e \in due, Deliver(w, e) PROVE Falls
    BY <2>3, Zenon DEF Deliver, Begins, Odd, Falls, left
  <2> QED
    BY <1>2, <2>1, <2>2, <2>3 DEF HandlerActs
<1>3. Falls
  BY <1>1, <1>2, NextCases
<1>4. odds \in 0..MaxOdds /\ MaxOdds \in Nat
  BY TypeParts, BillingAssumption DEF BillingAssumption, LeftTypeOK
<1> QED
  BY <1>3, <1>4 DEF Falls, LeftTypeOK

\* What Stripe and the customer do keeps the handlers and the record.
LEMMA AnnounceKeepsTypes ==
    ASSUME TypeOK, Tasked, Announces
    PROVE  StripeTypeOK' /\ KvTypeOK' /\ HandlersTypeOK' /\ Tasked'
<1> USE TypeParts
<1>1. Len(events) \in Nat /\ Len(events') = Len(events) + 1
  BY DEF Announces, StripeTypeOK
<1>2. /\ UNCHANGED <<seen, mapped, rec, configured, h, unfinished, raced>>
      /\ due' = due \cup {Len(events) + 1}
  BY DEF Announces, kv, left
<1>3. KvTypeOK'
  BY <1>1, <1>2 DEF KvTypeOK
<1>4. HandlersTypeOK'
  <2>1. HandlerType \subseteq HandlerType'
    BY <1>1 DEF HandlerType
  <2>2. h \in [Handlers -> HandlerType]
    BY DEF HandlersTypeOK
  <2>3. h \in [Handlers -> HandlerType']
    <3> DEFINE S == HandlerType
               T == HandlerType'
    <3>1. S \subseteq T /\ h \in [Handlers -> S]
      BY <2>1, <2>2
    <3> HIDE DEF S, T
    <3>2. h \in [Handlers -> T]
      BY <3>1
    <3> QED
      BY <3>2 DEF T
  <2> QED
    BY <1>2, <2>3 DEF HandlersTypeOK
<1>5. Tasked'
  BY <1>1, <1>2 DEF Tasked
<1> QED
  BY <1>3, <1>4, <1>5 DEF Announces

\* A handler that comes to where its task may be leaves all of them on their task.
LEMMA MoveKeepsTasked ==
    ASSUME Tasked, NEW w \in Handlers, UNCHANGED events,
           NEW at, NEW task, NEW event, NEW snap, NEW old, NEW base,
           Becomes(w, at, task, event, snap, old, base),
           task \in Serving => event \in 1..Len(events),
           at \in {"idle", "read", "get", "put", "look", "verify"} \/ task \in {"sync", "delete"},
           at = "look" => task \in Asking,
           at = "verify" => task = "clean",
           at = "read" => task = "checkout",
           at \in {"fetch", "old"} => task = "sync",
           (task = "sync" /\ at \in {"old", "get", "put", "reconcile"}) => snap \in Subscriptions
    PROVE  Tasked'
BY DEF Tasked, Becomes

LEMMA EndKeepsTasked ==
    ASSUME Tasked, NEW w \in Handlers, UNCHANGED events, h'[w] = Idle,
           \A v \in Handlers \ {w} : h'[v] = h[v]
    PROVE  Tasked'
BY Values DEF Tasked

\* What was so of a subscription is remembered.
LEMMA SaidGrows ==
    ASSUME TypeOK, trials <= Len(sub), [Next]_vars
    PROVE  said \subseteq said' /\ SaidTypeOK'
<1> USE TypeParts DEF SaidTypeOK
<1>1. CASE StripeActs
  <2>1. sub' \in Seq(Subscriptions) /\ Len(sub') > 0 /\ said' = said \cup {sub'[Len(sub')]}
    BY <1>1, StripeAnnounces DEF Announces, StripeTypeOK
  <2> QED
    BY <2>1
<1>2. CASE Apart
  BY <1>2, ApartEffect DEF history
<1>3. CASE \E w \in Handlers : HandlerActs(w)
  BY <1>3, ActsKeep
<1> QED
  BY <1>1, <1>2, <1>3, NextCases

LEMMA TypedStep ==
    ASSUME Typed, [Next]_vars
    PROVE  Typed'
<1> USE TypeParts DEF Typed
<1> SUFFICES StripeTypeOK' /\ KvTypeOK' /\ HandlersTypeOK' /\ Tasked' /\ trials' <= Len(sub')
  BY LeftStep, SaidGrows, TypePartsNext
<1>1. CASE StripeActs
  BY <1>1, StripeAnnounces, AnnounceKeepsTypes
<1>2. CASE Apart
  BY <1>2, ApartEffect DEF kv, history, StripeTypeOK, KvTypeOK, HandlersTypeOK, Tasked, EventType,
     HandlerType
<1>3. ASSUME NEW w \in Handlers, HandlerActs(w)
      PROVE  StripeTypeOK' /\ KvTypeOK' /\ HandlersTypeOK' /\ Tasked' /\ trials' <= Len(sub')
  <2>1. UNCHANGED <<sub, events, gone, offer, trials>>
    BY <1>3, ActsKeep
  <2>2. StripeTypeOK' /\ trials' <= Len(sub')
    BY <2>1 DEF StripeTypeOK, EventType
  <2>3. due' \subseteq 1..Len(events') /\ seen' \subseteq 1..Len(events')
    <3>1. CASE Finish(w)
      <4>1. h[w].event \in 1..Len(events)
        BY <3>1 DEF Finish, Tasked, Serving
      <4> QED
        BY <2>1, <3>1, <4>1 DEF Finish, KvTypeOK
    <3>2. CASE ~Finish(w)
      BY <1>3, <2>1, <3>2 DEF HandlerActs, Step, CheckoutRead, Resolve, Fetch, ReadOld, MergeRead,
         MergeWrite, Reconcile, Fail, Asks, Ask, Look, Verify, AskedWrite, Deliver, KvTypeOK,
         stripe, kv
    <3> QED
      BY <3>1, <3>2
  <2>4. mapped' \in BOOLEAN
    BY <1>3 DEF HandlerActs, Step, CheckoutRead, Resolve, Fetch, ReadOld, MergeRead, MergeWrite,
       Reconcile, Finish, Fail, Asks, Ask, Look, Verify, AskedWrite, Deliver, KvTypeOK, kv
  <2>5. configured' \in Modes
    BY <1>3 DEF HandlerActs, Step, CheckoutRead, Resolve, Fetch, ReadOld, MergeRead, MergeWrite,
       Reconcile, Finish, Fail, Asks, Ask, Look, Verify, AskedWrite, Deliver, KvTypeOK, kv, Mode,
       Modes
  <2>6. unfinished' \in BOOLEAN
    BY <1>3 DEF HandlerActs, Step, CheckoutRead, Resolve, Fetch, ReadOld, MergeRead, MergeWrite,
       Reconcile, Finish, Fail, Asks, Ask, Look, Verify, AskedWrite, Deliver, KvTypeOK, history
  <2>7. rec' \in Records
    <3>1. CASE MergeWrite(w)
      BY <3>1, MergeWriteEffect, WriterFacts, MergedFacts
    <3>2. CASE AskedWrite(w)
      BY <3>2, AskedWriteEffect
    <3>3. CASE ~MergeWrite(w) /\ ~AskedWrite(w)
      BY <1>3, <3>3 DEF HandlerActs, Step, CheckoutRead, Resolve, Fetch, ReadOld, MergeRead,
         Reconcile, Finish, Fail, Asks, Ask, Look, Verify, Deliver, KvTypeOK, kv
    <3> QED
      BY <3>1, <3>2, <3>3
  <2>11. raced' \in BOOLEAN
    <3>1. raced' = raced \/ raced' = TRUE
      BY <1>3, Zenon DEF HandlerActs, Step, CheckoutRead, Resolve, Fetch, ReadOld, MergeRead,
         MergeWrite, Reconcile, Finish, Fail, Asks, Ask, Look, Verify, AskedWrite, Deliver, Begins,
         left
    <3> QED
      BY <3>1 DEF KvTypeOK
  <2>8. KvTypeOK'
    BY <2>3, <2>4, <2>5, <2>6, <2>7, <2>11 DEF KvTypeOK
  <2>9. HandlerType' = HandlerType
    BY <2>1 DEF HandlerType
  <2>10. h' \in [Handlers -> HandlerType] /\ Tasked'
    <3>1. CASE CheckoutRead(w)
      <4>1. h[w].at = "read" /\ h[w].task = "checkout"
        BY <3>1 DEF CheckoutRead, Tasked
      <4>2. h[w].event \in 1..Len(events)
        BY <4>1 DEF Tasked, Serving
      <4> QED
        BY <2>1, <3>1, <4>1, <4>2, CheckoutReadEffect, MoveKeepsTasked DEF Becomes
    <3>2. CASE Resolve(w)
      <4>1. h[w].at = "resolve" /\ h[w].task \in {"sync", "delete"}
        BY <3>2 DEF Resolve, Tasked
      <4>2. PICK p \in {"get", "fetch", "finish"} :
              /\ Becomes(w, p, h[w].task, h[w].event, h[w].snap, h[w].old, h[w].base)
              /\ (p = "get") => (h[w].task = "delete")
              /\ (p = "fetch") => (h[w].task # "delete")
        BY <3>2, ResolveEffect
      <4>3. h[w].event \in 1..Len(events)
        BY <4>1 DEF Tasked, Serving
      <4>4. Tasked'
        BY <2>1, <4>1, <4>2, <4>3, MoveKeepsTasked
      <4> QED
        BY <4>2, <4>4 DEF Becomes
    <3>3. CASE Fetch(w)
      <4> DEFINE s == sub[events[h[w].event].sub]
      <4>1. /\ s \in Subscriptions /\ h[w].event \in 1..Len(events) /\ h[w].task = "sync"
            /\ \/ Becomes(w, "old", h[w].task, h[w].event, s, h[w].old, h[w].base)
               \/ Becomes(w, "finish", h[w].task, h[w].event, h[w].snap, h[w].old, h[w].base)
        BY <3>3, FetchEffect
      <4> HIDE DEF s
      <4>2. CASE Becomes(w, "old", h[w].task, h[w].event, s, h[w].old, h[w].base)
        BY <2>1, <4>1, <4>2, MoveKeepsTasked DEF Becomes
      <4>3. CASE Becomes(w, "finish", h[w].task, h[w].event, h[w].snap, h[w].old, h[w].base)
        BY <2>1, <4>1, <4>3, MoveKeepsTasked DEF Becomes
      <4> QED
        BY <4>1, <4>2, <4>3
    <3>4. CASE ReadOld(w)
      <4>1. Becomes(w, "get", h[w].task, h[w].event, h[w].snap, rec, h[w].base)
        BY <3>4, ReadOldEffect
      <4>2. h[w].at = "old" /\ h[w].task = "sync"
        BY <3>4 DEF ReadOld, Tasked
      <4>3. h[w].event \in 1..Len(events) /\ h[w].snap \in Subscriptions
        BY <4>2 DEF Tasked, Serving
      <4>4. Tasked'
        BY <2>1, <4>1, <4>2, <4>3, MoveKeepsTasked
      <4> QED
        BY <4>1, <4>4 DEF Becomes
    <3>5. CASE MergeRead(w)
      <4>1. PICK r \in {rec, Parsed(rec)} :
              Becomes(w, "put", h[w].task, h[w].event, h[w].snap, h[w].old, r)
        BY <3>5, MergeReadEffect
      <4>2. h[w].at = "get"
        BY <3>5 DEF MergeRead
      <4>3. /\ h[w].task \in Serving => h[w].event \in 1..Len(events)
            /\ h[w].task = "sync" => h[w].snap \in Subscriptions
        BY <4>2 DEF Tasked
      <4>4. Tasked'
        BY <2>1, <4>1, <4>3, MoveKeepsTasked
      <4> QED
        BY <4>1, <4>4 DEF Becomes
    <3>6. CASE MergeWrite(w)
      <4>1. h[w].at = "put" /\ h[w].task \in Serving
        BY <3>6 DEF MergeWrite
      <4>2. /\ h[w].event \in 1..Len(events)
            /\ h[w].task = "sync" => h[w].snap \in Subscriptions
        BY <4>1 DEF Tasked
      <4>3. \/ Becomes(w, "resolve", "sync", h[w].event, h[w].snap, NewUser, NewUser)
            \/ \E at \in {"reconcile", "finish"} :
                 /\ Becomes(w, at, h[w].task, h[w].event, h[w].snap, NewUser, NewUser)
                 /\ h[w].task \in {"sync", "delete"}
        BY <3>6, MergeWriteEffect
      <4>4. CASE Becomes(w, "resolve", "sync", h[w].event, h[w].snap, NewUser, NewUser)
        BY <2>1, <4>2, <4>4, MoveKeepsTasked DEF Becomes
      <4>5. ASSUME NEW at \in {"reconcile", "finish"},
                   Becomes(w, at, h[w].task, h[w].event, h[w].snap, NewUser, NewUser),
                   h[w].task \in {"sync", "delete"}
            PROVE  h' \in [Handlers -> HandlerType] /\ Tasked'
        BY <2>1, <4>2, <4>5, MoveKeepsTasked DEF Becomes
      <4> QED
        BY <4>3, <4>4, <4>5
    <3>7. CASE Reconcile(w)
      <4>1. h[w].at = "reconcile" /\ h[w].task \in {"sync", "delete"}
        BY <3>7 DEF Reconcile, Tasked
      <4>2. h[w].event \in 1..Len(events)
        BY <4>1 DEF Tasked, Serving
      <4> QED
        BY <2>1, <3>7, <4>1, <4>2, ReconcileEffect, MoveKeepsTasked DEF Becomes
    <3>8. CASE Finish(w) \/ Fail(w)
      BY <2>1, <3>8, EndingEffect, EndKeepsTasked
    <3>9. CASE Asks(w)
      <4>1. PICK at \in {"get", "look"}, task \in Asking :
              Becomes(w, at, task, 0, NoSnap, NewUser, NewUser)
        BY <3>9, AskEffect
      <4>2. Tasked'
        BY <2>1, <4>1, MoveKeepsTasked DEF Asking, Serving
      <4> QED
        BY <4>1, <4>2 DEF Becomes
    <3>11. CASE Look(w)
      <4>1. PICK p \in {"get", "verify"}, r \in Records :
              /\ Becomes(w, p, h[w].task, h[w].event, h[w].snap, r, h[w].base)
              /\ (p = "verify") => (h[w].task = "clean")
        BY <3>11, LookEffect
      <4>2. h[w].task \in Asking
        BY <3>11 DEF Look, Tasked
      <4>3. Tasked'
        BY <2>1, <4>1, <4>2, MoveKeepsTasked DEF Asking, Serving
      <4> QED
        BY <4>1, <4>3 DEF Becomes
    <3>12. CASE Verify(w)
      <4>1. h[w].task = "clean"
        BY <3>12, VerifyEffect
      <4>2. CASE Becomes(w, "get", h[w].task, h[w].event, h[w].snap, h[w].old, h[w].base)
        BY <2>1, <4>1, <4>2, MoveKeepsTasked DEF Asking, Serving, Becomes
      <4> QED
        BY <2>1, <3>12, <4>2, VerifyEffect, EndKeepsTasked
    <3>13. CASE AskedWrite(w)
      BY <2>1, <3>13, AskedWriteEffect, EndKeepsTasked
    <3>10. ASSUME NEW e \in due, Deliver(w, e)
           PROVE  h' \in [Handlers -> HandlerType] /\ Tasked'
      <4>1. CASE UNCHANGED h
        BY <2>1, <4>1 DEF Tasked, HandlersTypeOK
      <4>2. ASSUME NEW at \in {"read", "resolve"}, NEW task \in {"checkout", "sync", "delete"},
                   Becomes(w, at, task, e, NoSnap, NewUser, NewUser), e \in 1..Len(events),
                   (at = "read") <=> (task = "checkout")
            PROVE  h' \in [Handlers -> HandlerType] /\ Tasked'
        BY <2>1, <4>2, MoveKeepsTasked DEF Becomes
      <4> QED
        BY <3>10, <4>1, <4>2, DeliverEffect
    <3> QED
      BY <1>3, <3>1, <3>2, <3>3, <3>4, <3>5, <3>6, <3>7, <3>8, <3>9, <3>10, <3>11, <3>12, <3>13
         DEF HandlerActs, Step
  <2> QED
    BY <2>2, <2>8, <2>9, <2>10 DEF HandlersTypeOK
<1> QED
  BY <1>1, <1>2, <1>3, NextCases

-----------------------------------------------------------------------------
(* The record is coherent *)

\* So are the records from which handlers merge.
AllCoherent == RecordIsCoherent /\ \A w \in Handlers : Coherent(h[w].base, said)

\* What is, was said; so was what a handler fetched; and an end was, if one is announced
\* or being handled.
AnEnd == \E s \in said : s.status = "canceled"
Told ==
    /\ \A i \in 1..Len(sub) : sub[i] \in said
    /\ \A i \in 1..Len(events) : (events[i].type = "deleted") => AnEnd
    /\ \A w \in Handlers :
          /\ (h[w].task = "sync" /\ h[w].at \in {"old", "get", "put"}) => h[w].snap \in said
          /\ (h[w].task = "delete") => AnEnd

-----------------------------------------------------------------------------
(* The handlers in their order *)

Active(w) == h[w].at # "idle"
Serves(w) == Active(w) /\ h[w].task \in Serving

\* Stripe: the first event is a checkout, the last is about the last subscription and
\* says whether it is over.
Announced ==
    /\ (Len(sub) > 0) <=> (Len(events) > 0)
    /\ (Len(events) > 0) =>
          /\ events[1].type = "checkout"
          /\ events[Len(events)].sub = Len(sub)
          /\ (events[Len(events)].type = "deleted") <=> (sub[Len(sub)].status = "canceled")

Alone == \A v, w \in Handlers : (Active(v) /\ Active(w)) => v = w

\* Events are handled from the first to the last: what is not handled is due, and
\* what a handler has at hand comes next.
InTurn ==
    /\ \A i \in 1..Len(events) : i \in seen \/ i \in due
    /\ \A i \in seen : \A j \in 1..i : j \in seen
    /\ \A w \in Handlers : Serves(w) =>
          /\ h[w].event \in due \ seen
          /\ \A j \in 1..Len(events) : j < h[w].event => j \in seen
          /\ (h[w].task = "delete") <=> (events[h[w].event].type = "deleted")

\* After the first event the customer is known, so no lookup can fail.
Known ==
    /\ (seen # {}) => mapped
    /\ \A w \in Handlers : (Serves(w) /\ h[w].at # "read") => mapped

\* What a handler has read is still so, its snapshot unless a newer event is due.
Undisturbed == \A w \in Handlers :
    /\ (h[w].at = "put") => (h[w].base \in {rec, Parsed(rec)})
    /\ (h[w].at \in {"get", "put"} /\ h[w].task \in {"checkout", "sync"}) => (h[w].old = rec)
    /\ (h[w].at \in {"get", "put"} /\ h[w].task = "subscribe" /\ rec.trialUsed)
            => h[w].old.trialUsed
    /\ (h[w].at \in {"old", "get", "put"} /\ h[w].task = "sync" /\ h[w].event = Len(events))
            => (h[w].snap = sub[Len(sub)])

\* The record of a subscription, whose status may be dropped if it is not known
Matches(r, s) ==
    IF s.status = "canceled" THEN r.tier = "free"
    ELSE /\ r.tier = s.plan /\ r.mode = Mode(s.plan)
         /\ r.status = s.status \/ (s.status = "unpaid" /\ r.status = "none")

Written(i) == i \in seen \/ \E w \in Handlers : h[w].at \in {"reconcile", "finish"} /\ h[w].event = i

\* When every event is written, the record is that of the last subscription, unless it is
\* gone from Stripe or a request set the tier.
CaughtUp ==
    (/\ Len(sub) > 0 /\ Len(sub) \notin gone /\ ~rec.asked
     /\ \A i \in due : Written(i)) => Matches(rec, sub[Len(sub)])

\* The agent files have the mode of the record, or a handler is about to see to it.
FollowsMode == ~unfinished =>
    \/ configured = rec.mode /\ \A w \in Handlers : h[w].at # "reconcile"
    \/ \E w \in Handlers :
          /\ h[w].at = "reconcile"
          /\ rec.mode = IF h[w].task = "delete" THEN "default" ELSE Mode(h[w].snap.plan)

Orderly == InOrder =>
    Alone /\ InTurn /\ Known /\ Undisturbed /\ FollowsMode /\ (Plans \subseteq Tagged => CaughtUp)

Pieces == Alone /\ InTurn /\ Known /\ Undisturbed /\ FollowsMode

-----------------------------------------------------------------------------
(* One handler at a time *)

\* In order before if in order after: what raced has raced.
LEMMA NoRace ==
    ASSUME InOrder', [Next]_vars
    PROVE  /\ InOrder
           /\ \A w \in Handlers : Asks(w) => Quiet
           /\ \A w \in Handlers : \A e \in due : Deliver(w, e) => (Quiet /\ \A d \in due : e <= d)
<1>1. ASSUME NEW w \in Handlers, Asks(w) PROVE Quiet /\ InOrder
  <2>1. (Quiet /\ raced' = raced) \/ raced' = TRUE
    BY <1>1, Zenon DEF Asks, Ask
  <2> QED
    BY <2>1 DEF InOrder
<1>2. ASSUME NEW w \in Handlers, NEW e \in due, Deliver(w, e)
      PROVE  Quiet /\ (\A d \in due : e <= d) /\ InOrder
  <2>1. Begins(Quiet /\ \A d \in due : e <= d)
    BY <1>2 DEF Deliver
  <2>2. \/ Quiet /\ (\A d \in due : e <= d) /\ UNCHANGED left
        \/ raced' = TRUE
    BY <2>1, Zenon DEF Begins
  <2>3. ~raced' /\ (UNCHANGED left => raced' = raced)
    BY DEF InOrder, left
  <2> QED
    BY <2>2, <2>3 DEF InOrder
<1>3. ASSUME NEW w \in Handlers, Step(w) \/ Fail(w) PROVE InOrder
  BY <1>3, Zenon DEF Step, CheckoutRead, Resolve, Fetch, ReadOld, MergeRead, MergeWrite, Reconcile,
     Finish, Fail, Look, Verify, AskedWrite, left, InOrder
<1>4. ASSUME StripeActs \/ Apart PROVE InOrder
  BY <1>4, Zenon DEF StripeActs, Cancel, Subscribe, Change, Apart, OpenCheckout, Vanish, vars, left,
     InOrder
<1>5. ASSUME NEW w \in Handlers, HandlerActs(w) PROVE InOrder
  BY <1>1, <1>2, <1>3, <1>5 DEF HandlerActs
<1>6. InOrder
  BY <1>4, <1>5, NextCases
<1> QED
  BY <1>1, <1>2, <1>6

\* Where handlers do not overlap, all but the one that acts are idle and stay so.
LEMMA OthersIdle ==
    ASSUME HandlersTypeOK, KvTypeOK, StripeTypeOK, Tasked, Alone, InOrder', [Next]_vars,
           NEW w \in Handlers, HandlerActs(w)
    PROVE  \A v \in Handlers \ {w} : h[v].at = "idle" /\ h'[v] = h[v]
<1>1. \A v \in Handlers \ {w} : h'[v] = h[v]
  <2>1. ASSUME NEW e \in due, Deliver(w, e) PROVE \A v \in Handlers \ {w} : h'[v] = h[v]
    BY <2>1, DeliverEffect DEF Becomes
  <2>2. CASE MergeWrite(w)
    BY <2>2, MergeWriteEffect DEF Becomes
  <2>3. CASE Resolve(w)
    BY <2>3, ResolveEffect DEF Becomes
  <2>4. CASE CheckoutRead(w) \/ Fetch(w) \/ ReadOld(w) \/ MergeRead(w) \/ Reconcile(w)
    BY <2>4, CheckoutReadEffect, FetchEffect, ReadOldEffect, MergeReadEffect, ReconcileEffect
       DEF Becomes
  <2>5. CASE Finish(w) \/ Fail(w) \/ Asks(w)
    BY <2>5, EndingEffect, AskEffect DEF Becomes
  <2>6. CASE Look(w) \/ Verify(w) \/ AskedWrite(w)
    BY <2>6, LookEffect, VerifyEffect, AskedWriteEffect DEF Becomes
  <2> QED
    BY <2>1, <2>2, <2>3, <2>4, <2>5, <2>6 DEF HandlerActs, Step
<1>2. \A v \in Handlers \ {w} : h[v].at = "idle"
  <2>1. CASE Quiet
    BY <2>1 DEF Quiet
  <2>2. CASE Step(w) \/ Fail(w)
    <3>1. h[w].at # "idle"
      BY <2>2, Zenon DEF Step, CheckoutRead, Resolve, Fetch, ReadOld, MergeRead, MergeWrite,
         Reconcile, Finish, Fail, Look, Verify, AskedWrite
    <3> QED
      BY <3>1 DEF Alone, Active
  <2> QED
    BY <2>1, <2>2, NoRace DEF HandlerActs
<1> QED
  BY <1>1, <1>2

\* What all the lemmas on the steps of a handler start from
Begun(w) ==
    /\ StripeTypeOK /\ KvTypeOK /\ HandlersTypeOK /\ Tasked
    /\ Announced /\ Pieces
    /\ HandlerActs(w)
    /\ \A v \in Handlers \ {w} : h[v].at = "idle" /\ h'[v] = h[v]
    /\ \A v \in Handlers : Asks(v) => Quiet
    /\ \A v \in Handlers : \A e \in due : Deliver(v, e) => (Quiet /\ \A d \in due : e <= d)

\* The other requests leave the webhooks alone, and nothing for one to do.
LEMMA AsksKeep ==
    ASSUME NEW w \in Handlers, Asks(w) \/ Look(w) \/ Verify(w) \/ AskedWrite(w)
    PROVE  /\ UNCHANGED <<due, seen, mapped, configured>>
           /\ ~AskedWrite(w) => UNCHANGED <<rec, unfinished>>
<1>1. CASE Asks(w)
  BY <1>1, Zenon DEF Asks, Ask, stripe, kv, history
<1>2. CASE Look(w) \/ Verify(w)
  <2>1. UNCHANGED <<stripe, kv, history>>
    BY <1>2, Zenon DEF Look, Verify
  <2> QED
    BY <2>1 DEF stripe, kv, history
<1>3. CASE AskedWrite(w)
  BY <1>3 DEF AskedWrite, stripe
<1> QED
  BY <1>1, <1>2, <1>3

LEMMA AsksServeNothing ==
    ASSUME HandlersTypeOK, KvTypeOK, Tasked, NEW w \in Handlers,
           Asks(w) \/ Look(w) \/ Verify(w) \/ AskedWrite(w)
    PROVE  ~Serves(w)' /\ h'[w].at \in {"idle", "look", "verify", "get"}
<1>1. CASE Asks(w)
  BY <1>1, AskEffect DEF Becomes, Serves, Asking, Serving
<1>2. CASE Look(w)
  <2>1. h[w].task \in Asking
    BY <1>2 DEF Look, Tasked
  <2> QED
    BY <1>2, <2>1, LookEffect DEF Becomes, Serves, Asking, Serving
<1>3. CASE Verify(w) \/ AskedWrite(w)
  BY <1>3, VerifyEffect, AskedWriteEffect, Values DEF Becomes, Serves, Active, Asking, Serving
<1> QED
  BY <1>1, <1>2, <1>3

LEMMA AloneStep ==
    ASSUME NEW w \in Handlers, Begun(w)
    PROVE  Alone'
BY DEF Begun, Alone, Active

\* The events a handler does not finish stay as they are.
LEMMA InTurnStep ==
    ASSUME NEW w \in Handlers, Begun(w)
    PROVE  InTurn'
<1> USE DEF Begun, Pieces
<1> DEFINE Holds(v) == Serves(v) =>
          /\ h[v].event \in due \ seen
          /\ \A j \in 1..Len(events) : j < h[v].event => j \in seen
          /\ (h[v].task = "delete") <=> (events[h[v].event].type = "deleted")
<1>1. UNCHANGED <<sub, events>> /\ Len(events) \in Nat
  <2>1. UNCHANGED <<sub, events>>
    BY ActsKeep
  <2>2. Len(events) \in Nat
    BY DEF StripeTypeOK
  <2> QED
    BY <2>1, <2>2
<1>2. \A v \in Handlers \ {w} : ~Serves(v)'
  BY DEF Serves, Active
<1>3. CASE CheckoutRead(w) \/ Fetch(w) \/ ReadOld(w) \/ MergeRead(w) \/ Reconcile(w) \/ Resolve(w)
  <2>1. UNCHANGED <<due, seen>>
    BY <1>3 DEF CheckoutRead, Resolve, Fetch, ReadOld, MergeRead, Reconcile, stripe, kv
  <2>2. h'[w].event = h[w].event /\ h'[w].task = h[w].task /\ h[w].at # "idle"
    BY <1>3, CheckoutReadEffect, FetchEffect, ReadOldEffect, MergeReadEffect, ReconcileEffect,
       ResolveEffect DEF Becomes, CheckoutRead, Resolve, Fetch, ReadOld, MergeRead, Reconcile
  <2> QED
    BY <1>1, <1>2, <2>1, <2>2 DEF InTurn, Serves, Active
<1>4. CASE MergeWrite(w)
  <2>1. UNCHANGED <<due, seen>>
    BY <1>4 DEF MergeWrite, stripe
  <2>2. /\ h[w].at = "put"
        /\ h[w].task \in Serving /\ h'[w].event = h[w].event
        /\ \/ h'[w].task = h[w].task
           \/ h[w].task = "checkout" /\ h'[w].task = "sync"
    BY <1>4, MergeWriteEffect DEF Becomes
  <2> QED
    BY <1>1, <1>2, <2>1, <2>2 DEF InTurn, Serves, Active
<1>5. CASE Fail(w)
  <2>1. UNCHANGED <<due, seen>> /\ h'[w] = Idle
    BY <1>5, EndingEffect DEF Fail, stripe, kv
  <2> QED
    BY <1>1, <1>2, <2>1, Values DEF InTurn, Serves, Active
<1>6. CASE Asks(w) \/ Look(w) \/ Verify(w) \/ AskedWrite(w)
  <2>1. UNCHANGED <<due, seen>>
    BY <1>6, AsksKeep
  <2>2. ~Serves(w)'
    BY <1>6, AsksServeNothing
  <2> QED
    BY <1>1, <1>2, <2>1, <2>2 DEF InTurn
<1>7. CASE Finish(w)
  <2>1. h[w].at = "finish" /\ h[w].task \in {"sync", "delete"}
    BY <1>7 DEF Finish, Tasked
  <2>2. /\ h[w].event \in 1..Len(events)
        /\ \A j \in 1..Len(events) : j < h[w].event => j \in seen
    BY <2>1 DEF Tasked, InTurn, Serves, Active, Serving
  <2>3. seen' = seen \cup {h[w].event} /\ due' \in {due, due \ {h[w].event}} /\ h'[w] = Idle
    BY <1>7, EndingEffect DEF Finish
  <2>4. \A i \in seen' : \A j \in 1..i : j \in seen'
    BY <1>1, <2>2, <2>3 DEF InTurn, KvTypeOK
  <2>5. \A i \in 1..Len(events) : i \in seen' \/ i \in due'
    BY <2>3 DEF InTurn
  <2> QED
    BY <1>1, <1>2, <2>3, <2>4, <2>5, Values DEF InTurn, Serves, Active
<1>8. ASSUME NEW e \in due, Deliver(w, e)
      PROVE  InTurn'
  <2>1. seen' = seen /\ \A d \in due : e <= d
    BY <1>8 DEF Deliver, kv
  <2>2. CASE e \in seen /\ due' = due \ {e} /\ UNCHANGED h
    <3>1. ~Serves(w)'
      BY <1>8, <2>2 DEF Deliver, Serves, Active
    <3> QED
      BY <1>1, <1>2, <2>1, <2>2, <3>1 DEF InTurn
  <2>3. ASSUME e \in 1..Len(events), e \notin seen, UNCHANGED due,
               NEW at \in {"read", "resolve"}, NEW task \in {"checkout", "sync", "delete"},
               Becomes(w, at, task, e, NoSnap, NewUser, NewUser),
               (task = "delete") <=> (events[e].type = "deleted")
        PROVE  InTurn'
    <3>1. \A j \in 1..Len(events) : j < e => j \in seen
      BY <2>1, <2>3 DEF InTurn
    <3>2. h'[w].event = e /\ h'[w].task = task
      BY <2>3 DEF Becomes
    <3> QED
      BY <1>1, <1>2, <2>1, <2>3, <3>1, <3>2 DEF InTurn, Serves
  <2> QED
    BY <1>8, <2>2, <2>3, DeliverEffect
<1> QED
  BY <1>3, <1>4, <1>5, <1>6, <1>7, <1>8 DEF HandlerActs, Step

LEMMA KnownStep ==
    ASSUME NEW w \in Handlers, Begun(w)
    PROVE  Known'
<1> USE DEF Begun, Pieces
<1>1. \A v \in Handlers \ {w} : ~Serves(v)'
  BY DEF Serves, Active
<1>2. mapped => mapped'
  BY ActsKeep
<1>3. CASE CheckoutRead(w)
  BY <1>3 DEF CheckoutRead, Known
<1>4. ASSUME ~CheckoutRead(w), h[w].at # "idle", h[w].at # "read", h[w].task \in Serving
      PROVE  Known'
  BY <1>2, <1>4 DEF Known, Serves, Active
<1>5. ASSUME ~CheckoutRead(w), h[w].at = "read" \/ h[w].task \notin Serving, Step(w) \/ Fail(w)
      PROVE  Known'
  <2>1. \/ Fail(w)
        \/ MergeRead(w) /\ h[w].task \notin Serving
        \/ Look(w) \/ Verify(w) \/ AskedWrite(w)
    <3>1. \/ h[w].at \in {"get", "put", "look", "verify"}
          \/ h[w].task \in Serving
          \/ h[w].at = "idle"
      BY DEF Tasked, Serving
    <3>2. (h[w].at = "read") => (h[w].task \in Serving)
      BY DEF Tasked, Serving
    <3> QED
      BY <1>5, <3>1, <3>2, Zenon DEF Step, Resolve, Fetch, ReadOld, MergeRead, MergeWrite,
         Reconcile, Finish, Fail, Look, Verify, AskedWrite
  <2>2. seen' = seen
    BY <2>1, AsksKeep DEF Fail, MergeRead, kv
  <2>3. ~Serves(w)'
    BY <2>1, EndingEffect, MergeReadEffect, AsksServeNothing, Values DEF Becomes, Serves, Active
  <2> QED
    BY <1>1, <1>2, <2>2, <2>3 DEF Known
<1>6. CASE Asks(w)
  <2>1. seen' = seen /\ ~Serves(w)'
    BY <1>6, AsksKeep, AsksServeNothing
  <2> QED
    BY <1>1, <1>2, <2>1 DEF Known
<1>7. ASSUME NEW e \in due, Deliver(w, e)
      PROVE  Known'
  <2>1. seen' = seen /\ (\A d \in due : e <= d) /\ h[w].at = "idle"
    BY <1>7 DEF Deliver, kv
  <2>2. CASE UNCHANGED h
    BY <1>1, <1>2, <2>1, <2>2 DEF Known, Serves, Active
  <2>3. ASSUME e \in 1..Len(events), e \notin seen,
               NEW at \in {"read", "resolve"}, NEW task \in {"checkout", "sync", "delete"},
               Becomes(w, at, task, e, NoSnap, NewUser, NewUser),
               (at = "read") <=> (task = "checkout"),
               (task = "checkout") <=> (events[e].type = "checkout")
        PROVE  Known'
    <3>1. h'[w].at = at
      BY <2>3 DEF Becomes
    <3>2. CASE at = "read"
      BY <1>1, <1>2, <2>1, <3>1, <3>2 DEF Known, Serves
    <3>3. CASE at # "read"
      <4>1. Len(events) \in Nat /\ e \in 2..Len(events) /\ 1 \in 1..Len(events)
        BY <2>3, <3>3 DEF Announced, StripeTypeOK
      <4>2. 1 \in seen
        BY <2>1, <4>1 DEF InTurn
      <4>3. mapped'
        BY <1>2, <4>2 DEF Known
      <4> QED
        BY <4>3 DEF Known
    <3> QED
      BY <3>2, <3>3
  <2> QED
    BY <1>7, <2>2, <2>3, DeliverEffect
<1> QED
  <2>1. (Step(w) \/ Fail(w)) => (h[w].at # "idle")
    BY Zenon DEF Step, CheckoutRead, Resolve, Fetch, ReadOld, MergeRead, MergeWrite, Reconcile,
       Finish, Fail, Look, Verify, AskedWrite
  <2> QED
    BY <1>3, <1>4, <1>5, <1>6, <1>7, <2>1 DEF HandlerActs

\* What the handlers have read
LEMMA UndisturbedStep ==
    ASSUME NEW w \in Handlers, Begun(w)
    PROVE  Undisturbed'
<1> USE DEF Begun, Pieces
<1> DEFINE Holds(x) ==
      /\ (x.at = "put") => (x.base \in {rec', Parsed(rec')})
      /\ (x.at \in {"get", "put"} /\ x.task \in {"checkout", "sync"}) => (x.old = rec')
      /\ (x.at \in {"get", "put"} /\ x.task = "subscribe" /\ rec'.trialUsed) => x.old.trialUsed
      /\ (x.at \in {"old", "get", "put"} /\ x.task = "sync" /\ x.event = Len(events'))
            => (x.snap = sub'[Len(sub')])
<1>1. SUFFICES Holds(h'[w])
  <2>1. \A v \in Handlers \ {w} : Holds(h'[v])
    OBVIOUS
  <2> QED
    BY <1>1, <2>1 DEF Undisturbed
<1>2. UNCHANGED <<sub, events>>
  BY ActsKeep
<1>3. CASE CheckoutRead(w)
  <2>1. rec' = rec /\ h[w].task = "checkout"
    BY <1>3 DEF CheckoutRead, Tasked
  <2> QED
    BY <1>3, <2>1, CheckoutReadEffect DEF Becomes
<1>4. CASE Resolve(w)
  <2>1. h[w].at = "resolve" /\ h[w].task \in {"sync", "delete"}
    BY <1>4 DEF Resolve, Tasked
  <2> QED
    BY <1>4, <2>1, ResolveEffect DEF Becomes
<1>5. CASE Fetch(w)
  <2>1. h[w].event = Len(events) => events[h[w].event].sub = Len(sub)
    <3>1. h[w].event \in 1..Len(events) /\ Len(events) \in Nat
      BY <1>5, FetchEffect DEF StripeTypeOK
    <3> QED
      BY <3>1 DEF Announced
  <2> QED
    BY <1>2, <1>5, <2>1, FetchEffect DEF Becomes
<1>6. CASE ReadOld(w)
  <2>1. rec' = rec /\ h[w].at = "old"
    BY <1>6 DEF ReadOld, kv
  <2> QED
    BY <1>2, <1>6, <2>1, ReadOldEffect DEF Becomes, Undisturbed
<1>7. CASE MergeRead(w)
  <2>1. rec' = rec /\ h[w].at = "get"
    BY <1>7 DEF MergeRead, kv
  <2> QED
    BY <1>2, <1>7, <2>1, MergeReadEffect DEF Becomes, Undisturbed
<1>8. CASE MergeWrite(w) \/ Reconcile(w) \/ Finish(w) \/ Fail(w)
  <2>1. h'[w].at \in {"resolve", "reconcile", "finish", "idle"}
    BY <1>8, MergeWriteEffect, ReconcileEffect, EndingEffect, Values DEF Becomes
  <2> QED
    BY <2>1
<1>9. CASE Asks(w)
  BY <1>9, AskEffect DEF Becomes, Asking
<1>11. CASE Look(w)
  <2>1. rec' = rec /\ h[w].task \in Asking
    BY <1>11, AsksKeep DEF Look, Tasked, AskedWrite
  <2> QED
    BY <1>11, <2>1, LookEffect DEF Becomes, Asking
<1>12. CASE Verify(w)
  <2>1. h[w].task = "clean"
    BY <1>12, VerifyEffect
  <2> QED
    BY <1>12, <2>1, VerifyEffect, Values DEF Becomes
<1>13. CASE AskedWrite(w)
  BY <1>13, AskedWriteEffect, Values
<1>10. ASSUME NEW e \in due, Deliver(w, e)
       PROVE  Holds(h'[w])
  <2>1. h'[w].at \in {"idle", "read", "resolve"}
    <3>1. h[w].at = "idle"
      BY <1>10 DEF Deliver
    <3> QED
      BY <1>10, <3>1, DeliverEffect DEF Becomes
  <2> QED
    BY <2>1
<1> QED
  BY <1>3, <1>4, <1>5, <1>6, <1>7, <1>8, <1>9, <1>10, <1>11, <1>12, <1>13 DEF HandlerActs, Step

\* The agent files follow the write that changes the mode.
LEMMA FollowsModeStep ==
    ASSUME NEW w \in Handlers, Begun(w)
    PROVE  FollowsMode'
<1> USE DEF Begun, Pieces
<1>1. \A v \in Handlers : h[v].at = "reconcile" => v = w
  OBVIOUS
<1>2. \A v \in Handlers \ {w} : h'[v].at # "reconcile"
  OBVIOUS
<1>3. ASSUME h[w].at # "reconcile", h'[w].at # "reconcile", rec'.mode = rec.mode,
             UNCHANGED <<configured, unfinished>>
      PROVE  FollowsMode'
  BY <1>1, <1>2, <1>3 DEF FollowsMode
<1>4. CASE CheckoutRead(w) \/ Resolve(w) \/ Fetch(w) \/ ReadOld(w) \/ MergeRead(w) \/ Finish(w)
  <2>1. h[w].at # "reconcile" /\ UNCHANGED <<rec, configured, unfinished>>
    BY <1>4 DEF CheckoutRead, Resolve, Fetch, ReadOld, MergeRead, Finish, kv, history
  <2>2. h'[w].at # "reconcile"
    BY <1>4, CheckoutReadEffect, ResolveEffect, FetchEffect, ReadOldEffect, MergeReadEffect,
       EndingEffect, Values DEF Becomes
  <2> QED
    BY <1>3, <2>1, <2>2
<1>5. CASE Asks(w) \/ Look(w) \/ Verify(w)
  <2>1. UNCHANGED <<rec, configured, unfinished>>
    BY <1>5, AsksKeep DEF AskedWrite, Asks, Ask, Look, Verify
  <2>2. h[w].at # "reconcile"
    BY <1>5, Zenon DEF Asks, Ask, Look, Verify
  <2> QED
    BY <1>3, <1>5, <2>1, <2>2, AsksServeNothing
<1>10. CASE AskedWrite(w)
  <2>1. /\ h[w].at = "put" /\ h'[w].at = "idle"
        /\ unfinished' = (unfinished \/ rec'.mode # h[w].base.mode) /\ configured' = configured
    BY <1>10, AskedWriteEffect, AsksKeep, Values
  <2>2. h[w].base.mode = rec.mode
    BY <2>1, ParsedFacts DEF Undisturbed, KvTypeOK
  <2>3. ~unfinished => configured = rec.mode
    BY <1>1, <2>1 DEF FollowsMode
  <2>4. ~unfinished' => (~unfinished /\ rec'.mode = rec.mode)
    BY <2>1, <2>2
  <2> QED
    BY <1>2, <2>1, <2>3, <2>4 DEF FollowsMode
<1>6. ASSUME NEW e \in due, Deliver(w, e)
      PROVE  FollowsMode'
  <2>1. h[w].at = "idle" /\ UNCHANGED <<rec, configured, unfinished>>
    BY <1>6 DEF Deliver, kv, history
  <2>2. h'[w].at # "reconcile"
    BY <1>6, <2>1, DeliverEffect DEF Becomes
  <2> QED
    BY <1>3, <2>1, <2>2
<1>7. CASE Fail(w)
  <2>1. h'[w].at # "reconcile"
    BY <1>7, EndingEffect, Values
  <2>2. UNCHANGED <<rec, configured>> /\ unfinished' = (unfinished \/ h[w].at = "reconcile")
    BY <1>7 DEF Fail, kv
  <2> QED
    BY <1>1, <1>2, <2>1, <2>2 DEF FollowsMode
<1>8. CASE Reconcile(w)
  <2>1. h[w].at = "reconcile" /\ h'[w].at # "reconcile" /\ rec' = rec
    BY <1>8, ReconcileEffect DEF Reconcile, Becomes
  <2>2. \/ /\ configured' = IF h[w].task = "delete" THEN "default" ELSE Mode(h[w].snap.plan)
           /\ unfinished' = unfinished
        \/ unfinished' = TRUE
    BY <1>8 DEF Reconcile
  <2> QED
    BY <1>1, <1>2, <2>1, <2>2 DEF FollowsMode
<1>9. CASE MergeWrite(w)
  <2> DEFINE new == Merged(h[w], events[h[w].event])
  <2>1. /\ h[w].at = "put" /\ h[w].task \in Serving
        /\ rec' = new /\ UNCHANGED <<configured, unfinished>>
    BY <1>9, MergeWriteEffect DEF MergeWrite, history
  <2>2. h[w].base.mode = rec.mode /\ (h[w].task \in {"checkout", "sync"} => h[w].old = rec)
    BY <2>1, ParsedFacts DEF Undisturbed, KvTypeOK
  <2>3. /\ h[w].task = "checkout" => new.mode = rec.mode
        /\ h[w].task = "delete" => new.mode = "default"
        /\ h[w].task = "sync" => new.mode = Mode(h[w].snap.plan)
    BY <2>1, <2>2, WriterFacts, MergedFacts
  <2> HIDE DEF new
  <2>4. ~unfinished => configured = rec.mode
    BY <1>1, <2>1 DEF FollowsMode
  <2>5. CASE h[w].task = "checkout"
    <3>1. h'[w].at # "reconcile"
      BY <1>9, <2>5, MergeWriteEffect, Values DEF Becomes
    <3> QED
      BY <1>3, <2>1, <2>3, <2>5, <3>1
  <2>6. CASE h[w].task = "delete"
    <3>1. h'[w].at = "reconcile" /\ h'[w].task = "delete"
      BY <1>9, <2>6, MergeWriteEffect DEF Becomes
    <3> QED
      BY <2>1, <2>3, <2>6, <3>1 DEF FollowsMode
  <2>7. CASE h[w].task = "sync"
    <3>1. \/ /\ h'[w].at = "reconcile" /\ h'[w].task = "sync" /\ h'[w].snap = h[w].snap
          \/ h'[w].at = "finish" /\ h[w].old.mode = new.mode
      BY <1>9, <2>7, MergeWriteEffect DEF Becomes, new
    <3>2. CASE h'[w].at = "finish"
      <4>1. new.mode = rec.mode
        BY <2>2, <2>7, <3>1, <3>2
      <4> QED
        BY <1>3, <2>1, <3>2, <4>1
    <3>3. CASE h'[w].at = "reconcile"
      BY <2>1, <2>3, <2>7, <3>1, <3>3 DEF FollowsMode
    <3> QED
      BY <3>1, <3>2, <3>3
  <2> QED
    BY <2>1, <2>5, <2>6, <2>7 DEF Serving
<1> QED
  BY <1>4, <1>5, <1>6, <1>7, <1>8, <1>9, <1>10 DEF HandlerActs, Step

\* The record catches up with Stripe when the last event is written.
LEMMA CaughtUpStep ==
    ASSUME NEW w \in Handlers, Begun(w), Plans \subseteq Tagged, CaughtUp
    PROVE  CaughtUp'
<1> USE DEF Begun, Pieces
<1>1. UNCHANGED <<sub, events, gone>>
  BY ActsKeep
<1>2. ASSUME rec' = rec, \A i \in due : i \in due' \/ Written(i),
             \A i \in due' : Written(i)' => Written(i)
      PROVE  CaughtUp'
  BY <1>1, <1>2 DEF CaughtUp
<1>3. ASSUME UNCHANGED <<rec, due, seen>>, h'[w].at \notin {"reconcile", "finish"}
      PROVE  CaughtUp'
  BY <1>2, <1>3 DEF Written
<1>4. CASE CheckoutRead(w) \/ ReadOld(w) \/ MergeRead(w)
  <2>1. UNCHANGED <<rec, due, seen>>
    BY <1>4 DEF CheckoutRead, ReadOld, MergeRead, kv, stripe
  <2>2. h'[w].at \notin {"reconcile", "finish"}
    BY <1>4, CheckoutReadEffect, ReadOldEffect, MergeReadEffect DEF Becomes
  <2> QED
    BY <1>3, <2>1, <2>2
<1>11. CASE Fetch(w)
  <2> DEFINE i == events[h[w].event].sub
  <2>1. UNCHANGED <<rec, due, seen>> /\ h[w].at = "fetch"
    BY <1>11 DEF Fetch, kv, stripe
  <2>2. /\ h[w].task = "sync" /\ h[w].event \in 1..Len(events) /\ h'[w].event = h[w].event
        /\ h'[w].at = "old" \/ (h'[w].at = "finish" /\ i \in gone)
    BY <1>11, FetchEffect DEF Becomes
  <2>3. CASE h'[w].at = "old"
    BY <1>3, <2>1, <2>3
  <2>4. CASE h'[w].at = "finish" /\ i \in gone
    <3>1. CASE i = Len(sub)
      BY <1>1, <2>4, <3>1 DEF CaughtUp
    <3>2. CASE i # Len(sub)
      <4> DEFINE n == Len(events)
      <4>1. n \in Nat /\ n \in 1..n /\ h[w].event < n
        BY <2>2, <3>2 DEF Announced, StripeTypeOK
      <4>2. h[w].event \in due \ seen
        BY <2>1, <2>2 DEF InTurn, Serves, Active, Serving
      <4>3. n \in due /\ n \notin seen
        BY <2>2, <4>1, <4>2 DEF InTurn
      <4>4. \A v \in Handlers : h'[v].at = "idle" \/ h'[v].event # n
        BY <2>2, <4>1
      <4> HIDE DEF n
      <4>5. \A j : (j = n) => ~Written(j)'
        BY <2>1, <4>3, <4>4 DEF Written
      <4> QED
        BY <2>1, <4>3, <4>5 DEF CaughtUp
    <3> QED
      BY <3>1, <3>2
  <2> QED
    BY <2>2, <2>3, <2>4
<1>5. CASE Resolve(w)
  <2>1. UNCHANGED <<rec, due, seen>> /\ h[w].at = "resolve"
    BY <1>5 DEF Resolve, stripe
  <2>2. mapped
    BY <2>1 DEF Known, Serves, Active, Tasked, Serving
  <2> QED
    BY <1>3, <1>5, <2>1, <2>2, ResolveEffect DEF Becomes
<1>6. CASE Fail(w)
  <2>1. UNCHANGED <<rec, due, seen>>
    BY <1>6 DEF Fail, kv, stripe
  <2>2. h'[w].at \notin {"reconcile", "finish"}
    BY <1>6, EndingEffect, Values
  <2> QED
    BY <1>3, <2>1, <2>2
<1>12. CASE Asks(w) \/ Look(w) \/ Verify(w)
  <2>1. UNCHANGED <<rec, due, seen>>
    <3>1. UNCHANGED <<due, seen>>
      BY <1>12, AsksKeep
    <3>2. CASE AskedWrite(w)
      <4>1. FALSE
        BY <1>12, <3>2, Zenon DEF AskedWrite, Asks, Ask, Look, Verify
      <4> QED
        BY <4>1
    <3> QED
      BY <1>12, <3>1, <3>2, AsksKeep
  <2>2. h'[w].at \notin {"reconcile", "finish"}
    BY <1>12, AsksServeNothing
  <2> QED
    BY <1>3, <2>1, <2>2
<1>13. CASE AskedWrite(w)
  <2>1. /\ h[w].at = "put" /\ h[w].task \in Asking /\ h'[w].at = "idle"
        /\ h[w].task = "touch" => rec' = h[w].base
        /\ h[w].task # "touch" => rec'.asked
    BY <1>13, AskedWriteEffect, Values
  <2>2. UNCHANGED <<due, seen>>
    BY <1>13, AsksKeep
  <2>3. CASE h[w].task = "touch"
    <3>1. rec' \in {rec, Parsed(rec)}
      BY <2>1, <2>3 DEF Undisturbed
    <3>2. rec'.asked = rec.asked /\ \A s : Matches(rec, s) => Matches(rec', s)
      BY <3>1, ParsedFacts DEF KvTypeOK, Matches
    <3>3. \A i \in due : Written(i)' => Written(i)
      BY <2>1, <2>2 DEF Written
    <3> QED
      BY <1>1, <2>2, <3>2, <3>3 DEF CaughtUp
  <2>4. CASE h[w].task # "touch"
    BY <2>1, <2>4 DEF CaughtUp
  <2> QED
    BY <2>3, <2>4
<1>7. CASE Reconcile(w)
  <2>1. UNCHANGED <<rec, due, seen>> /\ h[w].at = "reconcile" /\ h'[w].event = h[w].event
    BY <1>7, ReconcileEffect DEF Reconcile, stripe, Becomes
  <2> QED
    BY <1>2, <2>1 DEF Written
<1>8. CASE Finish(w)
  <2>1. /\ rec' = rec /\ h[w].at = "finish" /\ seen' = seen \cup {h[w].event}
        /\ due' \in {due, due \ {h[w].event}} /\ h'[w].at = "idle"
    BY <1>8, EndingEffect, Values DEF Finish
  <2>2. Written(h[w].event)
    BY <2>1 DEF Written
  <2>3. \A i \in due' : Written(i)' => Written(i)
    BY <2>1, <2>2 DEF Written
  <2> QED
    BY <1>2, <2>1, <2>2, <2>3
<1>9. ASSUME NEW e \in due, Deliver(w, e)
      PROVE  CaughtUp'
  <2>1. UNCHANGED <<rec, seen>> /\ h[w].at = "idle"
    BY <1>9 DEF Deliver, kv
  <2>2. h'[w].at \notin {"reconcile", "finish"}
    BY <1>9, <2>1, DeliverEffect DEF Becomes
  <2>3. due' = due \/ (due' = due \ {e} /\ e \in seen)
    BY <1>9, DeliverEffect
  <2> QED
    BY <1>2, <2>1, <2>2, <2>3 DEF Written
<1>10. CASE MergeWrite(w)
  <2> DEFINE new == Merged(h[w], events[h[w].event])
  <2>1. h[w].at = "put" /\ h[w].task \in Serving /\ rec' = new /\ UNCHANGED <<due, seen>>
    BY <1>10, MergeWriteEffect DEF MergeWrite, stripe
  <2>2. /\ h[w].task = "delete" => new.tier = "free"
        /\ h[w].task = "sync" => /\ h[w].snap \in Subscriptions
                                 /\ new.tier = IF h[w].snap.plan \in Tagged THEN h[w].snap.plan
                                               ELSE h[w].base.tier
                                 /\ new.mode = Mode(h[w].snap.plan)
                                 /\ new.status = h[w].snap.status
    BY <2>1, WriterFacts, MergedFacts
  <2> HIDE DEF new
  <2>4. /\ h[w].event \in due \ seen /\ h[w].event \in 1..Len(events)
        /\ (h[w].task = "delete") <=> (events[h[w].event].type = "deleted")
    BY <2>1 DEF InTurn, Serves, Active, Tasked
  <2>5. CASE h[w].task = "checkout"
    <3>1. h'[w].at = "resolve"
      BY <1>10, <2>5, MergeWriteEffect DEF Becomes
    <3>2. \E i \in due' : ~Written(i)'
      BY <2>1, <2>4, <2>5, <3>1 DEF Written
    <3> QED
      BY <3>2 DEF CaughtUp
  <2>6. ASSUME h[w].task \in {"sync", "delete"}, \A i \in due' : Written(i)'
        PROVE  Matches(new, sub[Len(sub)])
    <3> DEFINE n == Len(events)
    <3>1. n \in Nat /\ n \in 1..n /\ h[w].event <= n
      BY <2>4, <2>6 DEF StripeTypeOK
    <3>2. \A i \in due : i \in seen \/ i = h[w].event
      <4>1. h'[w].event = h[w].event
        BY <1>10, <2>6, MergeWriteEffect DEF Becomes
      <4> QED
        BY <2>1, <2>6, <4>1 DEF Written
    <3>3. h[w].event = n
      <4>1. SUFFICES ASSUME h[w].event # n PROVE FALSE
        OBVIOUS
      <4>2. n \in seen
        BY <3>1, <3>2, <4>1 DEF InTurn
      <4>3. h[w].event \in 1..n
        BY <2>4, <2>6
      <4> QED
        BY <2>4, <2>6, <4>2, <4>3 DEF InTurn
    <3>4. (h[w].task = "delete") <=> (sub[Len(sub)].status = "canceled")
      BY <2>4, <2>6, <3>1, <3>3 DEF Announced
    <3>5. h[w].task = "sync" => h[w].snap = sub[Len(sub)]
      BY <2>1, <3>3 DEF Undisturbed
    <3>6. h[w].task = "sync" => h[w].snap.plan \in Tagged
      BY <2>2 DEF Subscriptions
    <3> QED
      BY <2>2, <2>6, <3>4, <3>5, <3>6 DEF Matches
  <2> QED
    BY <1>1, <2>1, <2>5, <2>6 DEF CaughtUp, Serving
<1> QED
  BY <1>4, <1>5, <1>6, <1>7, <1>8, <1>9, <1>10, <1>11, <1>12, <1>13 DEF HandlerActs, Step

-----------------------------------------------------------------------------
(* The order as a whole *)

LEMMA AnnouncedKept ==
    ASSUME StripeTypeOK, Announced, Announces
    PROVE  Announced'
<1>1. Len(events) \in Nat
  BY DEF StripeTypeOK
<1>2. events'[1].type = "checkout"
  <2>1. CASE Len(events) = 0
    BY <2>1 DEF Announces, Announced
  <2>2. CASE Len(events) > 0
    BY <1>1, <2>2 DEF Announces, Announced
  <2> QED
    BY <1>1, <2>1, <2>2
<1> QED
  BY <1>1, <1>2 DEF Announces, Announced

\* A new event is due, and no handler has it yet.
LEMMA PiecesKept ==
    ASSUME StripeTypeOK, KvTypeOK, Tasked, Pieces, Announces
    PROVE  Pieces' /\ CaughtUp'
<1> USE DEF Pieces
<1>1. /\ UNCHANGED <<h, seen, mapped, rec, configured, unfinished>>
      /\ Len(events') = Len(events) + 1 /\ Len(events) \in Nat
      /\ \A j \in 1..Len(events) : events'[j] = events[j]
      /\ due' = due \cup {Len(events) + 1}
  BY DEF Announces, kv, StripeTypeOK
<1>2. \A w \in Handlers : Serves(w) => h[w].event \in 1..Len(events)
  BY DEF Serves, Active, Tasked
<1>3. Alone'
  BY <1>1 DEF Alone, Active
<1>4. InTurn'
  <2>1. \A w \in Handlers : Serves(w)' <=> Serves(w)
    BY <1>1 DEF Serves, Active
  <2>2. \A i \in 1..Len(events') : i \in seen' \/ i \in due'
    BY <1>1 DEF InTurn
  <2>3. \A i \in seen' : \A j \in 1..i : j \in seen'
    BY <1>1 DEF InTurn
  <2>4. ASSUME NEW w \in Handlers, Serves(w)
        PROVE  /\ h'[w].event \in due' \ seen'
               /\ \A j \in 1..Len(events') : j < h'[w].event => j \in seen'
               /\ (h'[w].task = "delete") <=> (events'[h'[w].event].type = "deleted")
    BY <1>1, <1>2, <2>4 DEF InTurn
  <2> QED
    BY <2>1, <2>2, <2>3, <2>4 DEF InTurn
<1>5. Known'
  BY <1>1 DEF Known, Serves, Active
<1>6. Undisturbed'
  <2>1. ASSUME NEW w \in Handlers, h[w].at # "idle", h[w].task = "sync"
        PROVE  h[w].event # Len(events')
    BY <1>1, <1>2, <2>1 DEF Serves, Active, Serving
  <2> QED
    BY <1>1, <2>1 DEF Undisturbed
<1>7. FollowsMode'
  BY <1>1 DEF FollowsMode
<1>8. CaughtUp'
  <2>1. Len(events) + 1 \notin seen'
    BY <1>1 DEF KvTypeOK
  <2>2. ASSUME NEW w \in Handlers, h[w].at \in {"reconcile", "finish"}
        PROVE  h[w].event # Len(events) + 1
    BY <1>1, <1>2, <2>2 DEF Serves, Active, Tasked, Serving
  <2>3. \E i \in due' : ~Written(i)'
    <3>1. \A i : (i = Len(events) + 1) => ~Written(i)'
      BY <1>1, <2>1, <2>2 DEF Written
    <3> QED
      BY <1>1, <3>1
  <2> QED
    BY <2>3 DEF CaughtUp
<1> QED
  BY <1>3, <1>4, <1>5, <1>6, <1>7, <1>8

Ordered == Typed /\ Announced /\ Orderly

LEMMA OrderedInit == Init => Ordered
<1> SUFFICES ASSUME Init PROVE Announced /\ Orderly
  BY TypedInit DEF Ordered
<1>1. Announced
  BY DEF Init, Announced
<1>2. \A w \in Handlers : h[w].at = "idle" /\ ~Serves(w)
  BY Values DEF Init, Serves, Active
<1>3. Alone /\ Known /\ Undisturbed
  BY <1>2 DEF Alone, Active, Known, Undisturbed, Init
<1>4. InTurn
  BY <1>2 DEF InTurn, Init
<1>5. FollowsMode
  BY <1>2 DEF FollowsMode, Init, NewUser
<1>6. CaughtUp
  BY DEF CaughtUp, Init
<1> QED
  BY <1>1, <1>3, <1>4, <1>5, <1>6 DEF Orderly

LEMMA AnnouncedStep ==
    ASSUME Typed, Announced, [Next]_vars
    PROVE  Announced'
<1> USE TypeParts DEF Typed
<1>1. CASE StripeActs
  BY <1>1, StripeAnnounces, AnnouncedKept
<1>2. ASSUME UNCHANGED <<sub, events>> PROVE Announced'
  BY <1>2 DEF Announced
<1>3. CASE Apart
  BY <1>2, <1>3, ApartEffect
<1>4. CASE \E w \in Handlers : HandlerActs(w)
  BY <1>2, <1>4, ActsKeep
<1> QED
  BY <1>1, <1>3, <1>4, NextCases

LEMMA OrderlyStep ==
    ASSUME Ordered, InOrder', [Next]_vars
    PROVE  Pieces' /\ (Plans \subseteq Tagged => CaughtUp')
<1> USE TypeParts DEF Typed, Ordered
<1>1. InOrder
  BY NoRace
<1>2. Pieces /\ (Plans \subseteq Tagged => CaughtUp)
  BY <1>1 DEF Orderly, Pieces
<1>3. CASE StripeActs
  BY <1>2, <1>3, StripeAnnounces, PiecesKept
<1>4. CASE Apart
  <2>1. UNCHANGED <<sub, events, due, seen, mapped, rec, configured, h, unfinished>>
        /\ gone \subseteq gone'
    BY <1>4, ApartEffect DEF kv, history
  <2> QED
    BY <1>2, <2>1 DEF Pieces, Alone, Active, InTurn, Serves, Known, Undisturbed, FollowsMode,
       CaughtUp, Written
<1>5. ASSUME NEW w \in Handlers, HandlerActs(w)
      PROVE  Pieces' /\ (Plans \subseteq Tagged => CaughtUp')
  <2>1. Begun(w)
    BY <1>2, <1>5, NoRace, OthersIdle DEF Begun, Pieces
  <2> QED
    BY <1>2, <2>1, AloneStep, InTurnStep, KnownStep, UndisturbedStep, FollowsModeStep, CaughtUpStep
       DEF Pieces
<1>6. CASE \E w \in Handlers : HandlerActs(w)
  BY <1>5, <1>6
<1> QED
  BY <1>3, <1>4, <1>6, NextCases

LEMMA OrderedStep == Ordered /\ [Next]_vars => Ordered'
<1> SUFFICES ASSUME Ordered, [Next]_vars PROVE Ordered'
  OBVIOUS
<1>1. Typed' /\ Announced'
  BY TypedStep, AnnouncedStep DEF Ordered
<1>2. Orderly'
  BY OrderlyStep DEF Orderly, Pieces
<1> QED
  BY <1>1, <1>2 DEF Ordered

LEMMA AlwaysOrdered == Spec => []Ordered
BY OrderedInit, OrderedStep, PTL DEF Spec

-----------------------------------------------------------------------------
(* The record is coherent, however handlers overlap *)

LEMMA NewUserCoherent == \A S : Coherent(NewUser, S)
BY DEF Coherent, NewUser

\* A record that was so stays one that was so.
LEMMA CoherentGrows ==
    ASSUME NEW S, NEW T, S \subseteq T, NEW r, Coherent(r, S)
    PROVE  Coherent(r, T)
BY DEF Coherent

\* What Stripe says, it has said.
LEMMA ToldByStripe ==
    ASSUME TypeOK, Told, Announces
    PROVE  Told'
<1> USE TypeParts
<1>1. /\ said' = said \cup {sub'[Len(sub')]} /\ h' = h
      /\ sub' \in Seq(Subscriptions) /\ Len(sub') > 0
      /\ Len(events) \in Nat /\ Len(events') = Len(events) + 1
  BY DEF Announces, StripeTypeOK
<1>2. AnEnd => AnEnd'
  BY <1>1 DEF AnEnd
<1>3. \A i \in 1..Len(sub') : sub'[i] \in said'
  BY <1>1 DEF Announces, Told
<1>4. \A i \in 1..Len(events') : (events'[i].type = "deleted") => AnEnd'
  <2>1. ASSUME NEW i \in 1..Len(events), events'[i].type = "deleted" PROVE AnEnd'
    BY <1>2, <2>1 DEF Announces, Told
  <2>2. ASSUME events'[Len(events')].type = "deleted" PROVE AnEnd'
    BY <1>1, <2>2 DEF Announces, AnEnd
  <2> QED
    BY <1>1, <2>1, <2>2
<1>5. \A w \in Handlers :
         /\ (h'[w].task = "sync" /\ h'[w].at \in {"old", "get", "put"}) => h'[w].snap \in said'
         /\ (h'[w].task = "delete") => AnEnd'
  BY <1>1, <1>2 DEF Told
<1> QED
  BY <1>3, <1>4, <1>5 DEF Told

\* A handler works on what was said.
LEMMA ToldByHandlers ==
    ASSUME Typed, Told, NEW w \in Handlers, HandlerActs(w)
    PROVE  Told'
<1> USE TypeParts DEF Typed
<1>1. UNCHANGED <<sub, events, said>>
  BY ActsKeep
<1> DEFINE Sound(v) ==
       /\ (h[v].task = "sync" /\ h[v].at \in {"old", "get", "put"}) => h[v].snap \in said
       /\ (h[v].task = "delete") => AnEnd
<1>2. \A v \in Handlers : Sound(v)
  BY DEF Told
<1>3. ASSUME /\ (h'[w].task = "sync" /\ h'[w].at \in {"old", "get", "put"}) => h'[w].snap \in said
             /\ (h'[w].task = "delete") => AnEnd,
             \A v \in Handlers \ {w} : h'[v] = h[v]
      PROVE  Told'
  <2>1. AnEnd' <=> AnEnd
    BY <1>1 DEF AnEnd
  <2>2. \A v \in Handlers :
           /\ (h'[v].task = "sync" /\ h'[v].at \in {"old", "get", "put"}) => h'[v].snap \in said
           /\ (h'[v].task = "delete") => AnEnd
    BY <1>2, <1>3
  <2> QED
    BY <1>1, <2>1, <2>2 DEF Told
<1>4. CASE CheckoutRead(w)
  <2>1. h[w].task = "checkout"
    BY <1>4 DEF CheckoutRead, Tasked
  <2> QED
    BY <1>3, <1>4, <2>1, CheckoutReadEffect DEF Becomes
<1>5. CASE Resolve(w)
  <2>1. h'[w].task = h[w].task /\ (h'[w].at = "get" => h[w].task = "delete")
        /\ h'[w].at \in {"get", "fetch", "finish"} /\ \A v \in Handlers \ {w} : h'[v] = h[v]
    BY <1>5, ResolveEffect DEF Becomes
  <2> QED
    BY <1>2, <1>3, <2>1
<1>6. CASE Fetch(w)
  <2> DEFINE s == sub[events[h[w].event].sub]
  <2>1. /\ h[w].task = "sync" /\ h[w].event \in 1..Len(events)
        /\ \/ Becomes(w, "old", h[w].task, h[w].event, s, h[w].old, h[w].base)
           \/ Becomes(w, "finish", h[w].task, h[w].event, h[w].snap, h[w].old, h[w].base)
    BY <1>6, FetchEffect
  <2>2. s \in said
    BY <2>1, EventFacts DEF Told
  <2> HIDE DEF s
  <2> QED
    BY <1>3, <2>1, <2>2 DEF Becomes
<1>7. CASE ReadOld(w) \/ MergeRead(w)
  <2>1. /\ h'[w].task = h[w].task /\ h'[w].snap = h[w].snap
        /\ \A v \in Handlers \ {w} : h'[v] = h[v]
    BY <1>7, ReadOldEffect, MergeReadEffect DEF Becomes
  <2>2. h[w].at \in {"old", "get"}
    BY <1>7 DEF ReadOld, MergeRead
  <2> QED
    BY <1>2, <1>3, <2>1, <2>2
<1>8. CASE MergeWrite(w)
  <2>1. /\ h'[w].at \in {"resolve", "reconcile", "finish", "idle"}
        /\ (h'[w].task = "delete") => (h[w].task = "delete")
        /\ \A v \in Handlers \ {w} : h'[v] = h[v]
    BY <1>8, MergeWriteEffect, Values DEF Becomes
  <2> QED
    BY <1>2, <1>3, <2>1
<1>9. CASE Reconcile(w)
  BY <1>2, <1>3, <1>9, ReconcileEffect DEF Becomes
<1>10. CASE Finish(w) \/ Fail(w)
  <2>1. h'[w].task = "touch" /\ \A v \in Handlers \ {w} : h'[v] = h[v]
    BY <1>10, EndingEffect, Values
  <2> QED
    BY <1>3, <2>1
<1>12. CASE Asks(w) \/ Look(w) \/ Verify(w) \/ AskedWrite(w)
  <2>1. h'[w].task \in Asking /\ \A v \in Handlers \ {w} : h'[v] = h[v]
    <3>1. CASE Asks(w)
      BY <3>1, AskEffect DEF Becomes
    <3>2. CASE Look(w)
      BY <3>2, LookEffect DEF Becomes, Look, Tasked
    <3>3. CASE Verify(w) \/ AskedWrite(w)
      BY <3>3, VerifyEffect, AskedWriteEffect, Values DEF Becomes, Asking
    <3> QED
      BY <1>12, <3>1, <3>2, <3>3
  <2> QED
    BY <1>3, <2>1 DEF Asking
<1>11. ASSUME NEW e \in due, Deliver(w, e)
       PROVE  Told'
  <2>1. CASE UNCHANGED h
    <3>1. AnEnd' <=> AnEnd
      BY <1>1 DEF AnEnd
    <3> QED
      BY <1>1, <2>1, <3>1 DEF Told
  <2>2. CASE ~UNCHANGED h
    <3>1. /\ e \in 1..Len(events) /\ h'[w].at \in {"read", "resolve"}
          /\ (h'[w].task = "delete") => (events[e].type = "deleted")
          /\ \A v \in Handlers \ {w} : h'[v] = h[v]
      BY <1>11, <2>2, DeliverEffect DEF Becomes
    <3> QED
      BY <1>3, <3>1 DEF Told
  <2> QED
    BY <2>1, <2>2
<1> QED
  BY <1>4, <1>5, <1>6, <1>7, <1>8, <1>9, <1>10, <1>11, <1>12 DEF HandlerActs, Step

LEMMA ToldStep ==
    ASSUME Typed, Told, [Next]_vars
    PROVE  Told'
<1>1. CASE StripeActs
  BY <1>1, StripeAnnounces, ToldByStripe, TypeParts DEF Typed
<1>2. CASE Apart
  <2>1. UNCHANGED <<sub, events, h, said>>
    BY <1>2, ApartEffect, TypeParts DEF history, Typed
  <2> QED
    BY <2>1 DEF Told, AnEnd
<1>3. CASE \E w \in Handlers : HandlerActs(w)
  BY <1>3, ToldByHandlers
<1> QED
  BY <1>1, <1>2, <1>3, NextCases

\* A record that is parsed is as coherent as it was.
LEMMA ParsedCoherent ==
    ASSUME NEW r \in Records, NEW S \in SUBSET Subscriptions, Coherent(r, S)
    PROVE  Coherent(Parsed(r), S)
<1>1. CASE r.status = "unpaid"
  <2>1. CASE r.asked
    BY <2>1, ParsedFacts DEF Coherent
  <2>2. CASE ~r.asked
    <3>1. r.mode = Mode(r.tier) /\ \E s \in S : s.plan = r.tier /\ s.status = "unpaid"
      BY <1>1, <2>2 DEF Coherent
    <3> QED
      BY <1>1, <3>1, ParsedFacts DEF Coherent
  <2> QED
    BY <2>1, <2>2
<1>2. CASE r.status # "unpaid"
  BY <1>2 DEF Parsed
<1> QED
  BY <1>1, <1>2

\* What a handler of an event writes is coherent if what it merges into was.
LEMMA MergedCoherent ==
    ASSUME Plans \subseteq Tagged, NEW x \in HandlerType, NEW e, Coherent(x.base, said),
           x.task \in Serving, e.sub \in 0..MaxSubs,
           x.task = "sync" => (x.snap \in Subscriptions /\ x.snap \in said),
           x.task = "delete" => AnEnd
    PROVE  Coherent(Merged(x, e), said)
<1>1. CASE x.task = "checkout"
  BY <1>1, MergedFacts DEF Coherent
<1>2. CASE x.task = "delete"
  BY <1>2, MergedFacts DEF Coherent, AnEnd
<1>3. CASE x.task = "sync"
  <2>1. x.snap.plan \in Plans /\ x.snap = [status |-> x.snap.status, plan |-> x.snap.plan]
    BY <1>3 DEF Subscriptions
  <2>2. /\ Merged(x, e).tier = x.snap.plan /\ Merged(x, e).status = x.snap.status
        /\ Merged(x, e).mode = Mode(x.snap.plan)
    BY <1>3, <2>1, MergedFacts
  <2> QED
    BY <1>3, <2>1, <2>2 DEF Coherent
<1> QED
  BY <1>1, <1>2, <1>3 DEF Serving

LEMMA CoherentStep ==
    ASSUME Plans \subseteq Tagged, Typed, Told, AllCoherent, [Next]_vars
    PROVE  AllCoherent'
<1> USE TypeParts DEF Typed, AllCoherent
<1>0. said \subseteq said'
  BY SaidGrows
<1>1. ASSUME UNCHANGED <<rec, h>> PROVE AllCoherent'
  BY <1>0, <1>1, CoherentGrows DEF RecordIsCoherent
<1>2. CASE StripeActs
  BY <1>1, <1>2, StripeAnnounces DEF Announces, kv
<1>3. CASE Apart
  BY <1>1, <1>3, ApartEffect DEF kv
<1>4. ASSUME NEW w \in Handlers, HandlerActs(w)
      PROVE  AllCoherent'
  <2>1. ASSUME Coherent(rec', said), Coherent(h'[w].base, said),
               \A v \in Handlers \ {w} : h'[v] = h[v]
        PROVE  AllCoherent'
    <3>1. \A v \in Handlers : Coherent(h'[v].base, said)
      BY <2>1
    <3> QED
      BY <1>0, <2>1, <3>1, CoherentGrows DEF RecordIsCoherent
  <2>2. Coherent(rec, said)
    BY DEF RecordIsCoherent
  <2>3. CASE CheckoutRead(w) \/ Resolve(w) \/ Fetch(w) \/ ReadOld(w) \/ MergeRead(w) \/ Reconcile(w)
    <3>1. rec' = rec
      BY <2>3 DEF CheckoutRead, Resolve, Fetch, ReadOld, MergeRead, Reconcile, kv
    <3>2. /\ h'[w].base \in {rec, Parsed(rec), h[w].base}
          /\ \A v \in Handlers \ {w} : h'[v] = h[v]
      BY <2>3, CheckoutReadEffect, ResolveEffect, FetchEffect, ReadOldEffect, MergeReadEffect,
         ReconcileEffect DEF Becomes
    <3>3. Coherent(Parsed(rec), said)
      BY <2>2, ParsedCoherent DEF KvTypeOK, SaidTypeOK
    <3> QED
      BY <2>1, <2>2, <3>1, <3>2, <3>3
  <2>4. CASE MergeWrite(w)
    <3>1. Coherent(rec', said)
      <4>1. /\ h[w].at = "put" /\ h[w].task \in Serving
            /\ rec' = Merged(h[w], events[h[w].event])
        BY <2>4, MergeWriteEffect
      <4>2. /\ h[w].task = "sync" => h[w].snap \in said
            /\ h[w].task = "delete" => AnEnd
        BY <4>1 DEF Told
      <4> QED
        BY <4>1, <4>2, WriterFacts, MergedCoherent
    <3>2. h'[w].base = NewUser /\ \A v \in Handlers \ {w} : h'[v] = h[v]
      BY <2>4, MergeWriteEffect DEF Becomes
    <3> QED
      BY <2>1, <3>1, <3>2, NewUserCoherent
  <2>5. CASE Finish(w) \/ Fail(w)
    <3>1. rec' = rec
      BY <2>5 DEF Finish, Fail, kv
    <3>2. h'[w].base = NewUser /\ \A v \in Handlers \ {w} : h'[v] = h[v]
      BY <2>5, EndingEffect, Values
    <3> QED
      BY <2>1, <2>2, <3>1, <3>2, NewUserCoherent
  <2>7. CASE Asks(w) \/ Look(w) \/ Verify(w)
    <3>1. rec' = rec
      BY <2>7, AsksKeep DEF Asks, Ask, Look, Verify, kv
    <3>2. h'[w].base \in {NewUser, h[w].base} /\ \A v \in Handlers \ {w} : h'[v] = h[v]
      BY <2>7, AskEffect, LookEffect, VerifyEffect, Values DEF Becomes
    <3> QED
      BY <2>1, <2>2, <3>1, <3>2, NewUserCoherent
  <2>8. CASE AskedWrite(w)
    <3>1. /\ rec' = h[w].base \/ rec'.asked
          /\ h'[w].base = NewUser /\ \A v \in Handlers \ {w} : h'[v] = h[v]
      BY <2>8, AskedWriteEffect, Values
    <3>2. Coherent(rec', said)
      BY <3>1 DEF Coherent
    <3> QED
      BY <2>1, <3>1, <3>2, NewUserCoherent
  <2>6. ASSUME NEW e \in due, Deliver(w, e)
        PROVE  AllCoherent'
    <3>1. rec' = rec
      BY <2>6 DEF Deliver, kv
    <3>2. UNCHANGED h \/ (h'[w].base = NewUser /\ \A v \in Handlers \ {w} : h'[v] = h[v])
      BY <2>6, DeliverEffect DEF Becomes
    <3> QED
      BY <1>1, <2>1, <2>2, <3>1, <3>2, NewUserCoherent
  <2> QED
    BY <1>4, <2>3, <2>4, <2>5, <2>6, <2>7, <2>8 DEF HandlerActs, Step
<1>5. CASE \E w \in Handlers : HandlerActs(w)
  BY <1>4, <1>5
<1> QED
  BY <1>2, <1>3, <1>5, NextCases

-----------------------------------------------------------------------------
(* The theorems *)

\* The type invariant of the billing record, its events and its handlers.
THEOREM BillingTypeCorrect == Spec => []TypeOK
BY AlwaysOrdered, PTL DEF Ordered, Typed

\* If every plan's price carries its tier: as long as no other request has set the tier
\* since, what the handlers leave in the record was once so of a subscription, however
\* handlers and requests overlap and fail.
THEOREM RecordStaysCoherent ==
    ASSUME Plans \subseteq Tagged
    PROVE  Spec => []RecordIsCoherent
<1>1. Init => Told /\ AllCoherent
  <2>1. ASSUME Init PROVE \A w \in Handlers : h[w] = Idle
    BY <2>1 DEF Init
  <2>2. Init => Len(sub) = 0 /\ Len(events) = 0
    BY DEF Init
  <2> QED
    BY <2>1, <2>2, NewUserCoherent, Values DEF Init, Told, AllCoherent, RecordIsCoherent
<1>2. Typed /\ Told /\ AllCoherent /\ [Next]_vars => Told' /\ AllCoherent'
  BY ToldStep, CoherentStep
<1>3. AllCoherent => RecordIsCoherent
  BY DEF AllCoherent
<1>4. Ordered => Typed
  BY DEF Ordered
<1> QED
  BY <1>1, <1>2, <1>3, <1>4, AlwaysOrdered, PTL DEF Spec

\* The agent files end up with the mode of the record, whatever fails elsewhere.
THEOREM ModeFollows == Spec => []ModeIsConfigured
<1>1. Ordered => ModeIsConfigured
  BY DEF Ordered, Orderly, ModeIsConfigured, Settled, Quiet, FollowsMode
<1> QED
  BY <1>1, AlwaysOrdered, PTL

\* Handlers in their order never write back a record in which the trial is unused.
THEOREM UsedTrialStaysUsed == Spec => TrialStaysUsed
<1>1. ASSUME Ordered, [Next]_vars, rec.trialUsed, InOrder
      PROVE  rec'.trialUsed
  <2> USE TypeParts DEF Ordered, Typed
  <2>1. Undisturbed
    BY <1>1 DEF Orderly
  <2>2. CASE StripeActs
    BY <1>1, <2>2, StripeAnnounces DEF Announces, kv
  <2>3. CASE Apart
    BY <1>1, <2>3, ApartEffect DEF kv
  <2>4. ASSUME NEW w \in Handlers, HandlerActs(w)
        PROVE  rec'.trialUsed
    <3>1. ASSUME h[w].at = "put" PROVE h[w].base.trialUsed
      BY <1>1, <2>1, <3>1, ParsedFacts DEF Undisturbed, KvTypeOK
    <3>2. CASE MergeWrite(w)
      <4>1. /\ h[w].at = "put" /\ h[w].task \in Serving
            /\ rec' = Merged(h[w], events[h[w].event])
        BY <1>1, <3>2, MergeWriteEffect
      <4>2. h[w].task = "checkout" => h[w].old.trialUsed
        BY <1>1, <2>1, <4>1 DEF Undisturbed
      <4> QED
        BY <1>1, <3>1, <4>1, <4>2, WriterFacts, MergedFacts DEF Serving
    <3>3. CASE AskedWrite(w)
      <4>1. /\ h[w].at = "put" /\ h[w].task \in Asking
            /\ rec'.trialUsed = IF h[w].task = "subscribe" THEN h[w].old.trialUsed
                                ELSE h[w].base.trialUsed
        BY <1>1, <3>3, AskedWriteEffect
      <4>2. h[w].task = "subscribe" => h[w].old.trialUsed
        BY <1>1, <2>1, <4>1 DEF Undisturbed
      <4> QED
        BY <3>1, <4>1, <4>2
    <3>4. CASE ~MergeWrite(w) /\ ~AskedWrite(w)
      <4>1. rec' = rec
        BY <2>4, <3>4 DEF HandlerActs, Step, CheckoutRead, Resolve, Fetch, ReadOld, MergeRead,
           Reconcile, Finish, Fail, Asks, Ask, Look, Verify, Deliver, kv
      <4> QED
        BY <1>1, <4>1
    <3> QED
      BY <3>2, <3>3, <3>4
  <2>5. CASE \E w \in Handlers : HandlerActs(w)
    BY <2>4, <2>5
  <2> QED
    BY <1>1, <2>2, <2>3, <2>5, NextCases
<1>2. Ordered /\ [Next]_vars => [(rec.trialUsed /\ InOrder) => rec'.trialUsed]_vars
  BY <1>1
<1> QED
  BY <1>2, AlwaysOrdered, PTL DEF Spec, TrialStaysUsed

\* If every plan's price carries its tier: once every event is acknowledged the record
\* grants what Stripe says (and the plan in a status it does not know), for every number
\* of subscriptions, events and failures, where handlers came in order, no request set
\* the tier since and the subscription is not gone from Stripe.
THEOREM RecordMirrorsStripe ==
    ASSUME Plans \subseteq Tagged
    PROVE  Spec => []MirrorsStripe
<1>1. ASSUME Ordered, Settled, InOrder, ~rec.asked, Len(sub) \notin gone
      PROVE  LET now == sub[Len(sub)] IN
        CASE now.status \in {"trialing", "active"} ->
                 EffectiveTier(rec, FALSE) = now.plan /\ rec.mode = Mode(now.plan)
          [] now.status = "past_due" ->
                 EffectiveTier(rec, TRUE) = (IF now.plan \in Paid THEN "free" ELSE now.plan)
          [] now.status = "unpaid" ->
                 /\ rec.mode = Mode(now.plan)
                 /\ \A expired \in BOOLEAN : EffectiveTier(rec, expired) = now.plan
          [] now.status = "canceled" ->
                 \A expired \in BOOLEAN : EffectiveTier(rec, expired) = "free"
  <2> DEFINE now == sub[Len(sub)]
  <2>1. Len(sub) > 0 /\ now \in Subscriptions
    BY <1>1, TypeParts DEF Ordered, Typed, StripeTypeOK, Settled
  <2>2. Matches(rec, now)
    BY <1>1, <2>1 DEF Ordered, Orderly, CaughtUp, Settled
  <2>3. now.status \in Statuses /\ "free" \notin Paid
    BY <2>1, BillingAssumption DEF Subscriptions, BillingAssumption
  <2> HIDE DEF now
  <2>4. CASE now.status \in {"trialing", "active"}
    BY <2>2, <2>4 DEF Matches, EffectiveTier, now
  <2>5. CASE now.status = "past_due"
    BY <2>2, <2>5 DEF Matches, EffectiveTier, now
  <2>6. CASE now.status = "canceled"
    BY <2>2, <2>3, <2>6 DEF Matches, EffectiveTier, now
  <2>7. CASE now.status = "unpaid"
    BY <2>2, <2>7 DEF Matches, EffectiveTier, now
  <2> QED
    BY <2>3, <2>4, <2>5, <2>6, <2>7 DEF Statuses, now
<1>2. Ordered => MirrorsStripe
  BY <1>1 DEF MirrorsStripe
<1> QED
  BY <1>2, AlwaysOrdered, PTL

=============================================================================
