----------------------------- MODULE Subscription -----------------------------
(***************************************************************************)
(* The billing row of one user and the events of Stripe                    *)
(* (server/src/billing/stripeHttp.ts, stripeSubscriptionStore.ts,          *)
(* stripeGuards.ts, planResolution.ts).  Stripe stamps every change with   *)
(* its second and delivers its events at least once and in any order; the  *)
(* row keeps the newest stamp it has applied and turns older ones away.  A *)
(* completed checkout and its confirmation ask Stripe for the subscription *)
(* and write what was answered after the answer has come.                  *)
(***************************************************************************)
EXTENDS Naturals, FiniteSets

CONSTANTS
  Subs,       \* subscriptions the user may come to have
  Plans,      \* paid plans
  Listed,     \* those whose price is in the environment (STRIPE_PRICE_*)
  Webhooks,   \* handlers of a checkout.session.completed event
  Confirms,   \* handlers of POST /api/stripe/checkout/confirm
  MaxTime,    \* bound: changes at Stripe
  MaxAgain,   \* bound: events delivered again after they were acknowledged
  MaxFails,   \* bound: calls to Stripe that fail
  Free,       \* the plan without a subscription
  None        \* no subscription, no status, nothing asked

ASSUME BillingAssumption ==
  /\ Listed \subseteq Plans
  /\ Free \notin Plans
  /\ None \notin Subs \cup {"active", "past_due", "canceled"}
  /\ MaxTime \in Nat /\ MaxAgain \in Nat /\ MaxFails \in Nat

VARIABLES
  time,     \* the second of the last change at Stripe
  stripe,   \* each subscription at Stripe
  log,      \* the events it has sent or will send
  acked,    \* those answered with 200
  opened,   \* checkout sessions handed out and not completed yet
  row,      \* user_billing
  task,     \* what each handler was answered and is about to write
  again,    \* events delivered again so far
  fails,    \* failed calls so far
  gone,     \* history: subscriptions whose end the row has been told
  missed,   \* history: an end found no row of its subscription
  doubled   \* history: two subscriptions were alive at a time

vars == <<time, stripe, log, acked, opened, row, task, again, fails, gone,
          missed, doubled>>

Handlers == Webhooks \cup Confirms
AliveStatuses == {"active", "past_due"}
Statuses == AliveStatuses \cup {"canceled"}

AtStripe == [status : Statuses \cup {None}, plan : Plans, created : 0 .. MaxTime]
Event == [kind : {"completed", "updated", "deleted"}, sub : Subs,
          at : 1 .. MaxTime, status : Statuses, plan : Plans]
BillingRow == [plan : Plans \cup {Free}, sub : Subs \cup {None},
               status : Statuses \cup {None}, water : 0 .. MaxTime]

(***************************************************************************)
(* What the row means.                                                     *)
(***************************************************************************)
(* hasLiveStripeSubscription: any status but the two that have ended. *)
HasLive(r) == r.sub # None /\ r.status # "canceled"

(* resolvePlan: a live subscription of a paid plan wins; without one the   *)
(* user is free (grants and the first week are not Stripe's).              *)
Effective(r) == IF HasLive(r) /\ r.plan \in Plans THEN r.plan ELSE Free

(* What could go wrong: stamps are not compared. *)
AppliesAlways(r, at) == at >= 1

(* shouldApplyStripeEvent, nextWatermark *)
Applies(r, at) == r.water = 0 \/ at >= r.water

NextWater(r, at) == IF at > r.water THEN at ELSE r.water

(* activateSubscription *)
Activated(r, s, status, plan, at) ==
  IF Applies(r, at)
  THEN [plan |-> plan, sub |-> s, status |-> status, water |-> NextWater(r, at)]
  ELSE r

(* What could go wrong: an update is applied whatever its stamp. *)
UpdatedAlways(r, e) ==
  [plan |-> IF e.plan \in Listed THEN e.plan ELSE r.plan, sub |-> e.sub,
   status |-> e.status, water |-> NextWater(r, e.at)]

(* updateSubscriptionFromStripe: the row is found by the subscription or   *)
(* else by the user; an unlisted price leaves the plan and moves the       *)
(* watermark all the same.                                                 *)
Updated(r, e) ==
  IF Applies(r, e.at)
  THEN [plan |-> IF e.plan \in Listed THEN e.plan ELSE r.plan, sub |-> e.sub,
        status |-> e.status, water |-> NextWater(r, e.at)]
  ELSE r

(* cancelSubscriptionByStripeSubscriptionId: found by the subscription     *)
(* only.                                                                   *)
Canceled(r, e) ==
  IF r.sub = e.sub /\ Applies(r, e.at)
  THEN [plan |-> Free, sub |-> None, status |-> "canceled",
        water |-> NextWater(r, e.at)]
  ELSE r

(***************************************************************************)
(* Stripe.                                                                 *)
(***************************************************************************)
Init ==
  /\ time = 0
  /\ \E p \in Plans :
       stripe = [s \in Subs |-> [status |-> None, plan |-> p, created |-> 0]]
  /\ log = {}
  /\ acked = {}
  /\ opened = {}
  /\ row = [plan |-> Free, sub |-> None, status |-> None, water |-> 0]
  /\ task = [h \in Handlers |-> None]
  /\ again = 0
  /\ fails = 0
  /\ gone = {}
  /\ missed = FALSE
  /\ doubled = FALSE

Alive(s) == stripe[s].status \in AliveStatuses

Send(kind, s, state) ==
  log' = log \cup {[kind |-> kind, sub |-> s, at |-> time + 1,
                    status |-> state.status, plan |-> state.plan]}

(* A change at Stripe has a second of its own. *)
Change(kind, s, state) ==
  /\ time < MaxTime
  /\ time' = time + 1
  /\ stripe' = [stripe EXCEPT ![s] = state]
  /\ Send(kind, s, state)
  /\ UNCHANGED <<acked, row, task, again, fails, gone, missed>>

(* POST /api/stripe/checkout: refused while the row has a live             *)
(* subscription; a session handed out is not asked about again.            *)
Checkout(s) ==
  /\ ~HasLive(row)
  /\ stripe[s].status = None /\ s \notin opened
  /\ opened' = opened \cup {s}
  /\ UNCHANGED <<time, stripe, log, acked, row, task, again, fails, gone,
                 missed, doubled>>

Complete(s, p) ==
  /\ s \in opened
  /\ Change("completed", s, [status |-> "active", plan |-> p, created |-> time + 1])
  /\ opened' = opened \ {s}
  /\ doubled' = (doubled \/ \E other \in Subs : Alive(other))

(* A payment fails or is made good, or the plan is changed in the portal. *)
Modify(s, status, p) ==
  /\ Alive(s)
  /\ <<status, p>> # <<stripe[s].status, stripe[s].plan>>
  /\ Change("updated", s, [stripe[s] EXCEPT !.status = status, !.plan = p])
  /\ UNCHANGED <<opened, doubled>>

Cancel(s) ==
  /\ Alive(s)
  /\ Change("deleted", s, [stripe[s] EXCEPT !.status = "canceled"])
  /\ UNCHANGED <<opened, doubled>>

(***************************************************************************)
(* The server.                                                             *)
(***************************************************************************)
(* An event comes for the first time, or once more. *)
Delivered(e) ==
  /\ e \in log
  /\ e \notin acked \/ again < MaxAgain
  /\ again' = IF e \in acked THEN again + 1 ELSE again

HearUpdated(e) ==
  /\ e.kind = "updated"
  /\ Delivered(e)
  /\ row' = Updated(row, e)
  /\ acked' = acked \cup {e}
  /\ UNCHANGED <<time, stripe, log, opened, task, fails, gone, missed, doubled>>

HearDeleted(e) ==
  /\ e.kind = "deleted"
  /\ Delivered(e)
  /\ row' = Canceled(row, e)
  /\ acked' = acked \cup {e}
  /\ gone' = IF row.sub = e.sub /\ Applies(row, e.at) THEN gone \cup {e.sub} ELSE gone
  /\ missed' = (missed \/ (row.sub # e.sub /\ row.water < e.at))
  /\ UNCHANGED <<time, stripe, log, opened, task, fails, doubled>>

(* Stripe is asked for the subscription; the stamp is that of the event.   *)
HearCompleted(h, e) ==
  /\ task[h] = None
  /\ e.kind = "completed"
  /\ Delivered(e)
  /\ task' = [task EXCEPT ![h] =
       [event |-> e, sub |-> e.sub, status |-> stripe[e.sub].status,
        plan |-> e.plan, at |-> e.at]]
  /\ UNCHANGED <<time, stripe, log, acked, opened, row, fails, gone, missed,
                 doubled>>

(* The page that follows a checkout confirms it, now or later; only a      *)
(* subscription that is active goes on, stamped with its own creation.     *)
Confirm(h, e) ==
  /\ task[h] = None
  /\ e \in log /\ e.kind = "completed"
  /\ stripe[e.sub].status = "active"
  /\ task' = [task EXCEPT ![h] =
       [event |-> e, sub |-> e.sub, status |-> "active",
        plan |-> e.plan, at |-> stripe[e.sub].created]]
  /\ UNCHANGED <<time, stripe, log, acked, opened, row, again, fails, gone,
                 missed, doubled>>

(* The answer is written. *)
Activate(h) ==
  /\ task[h] # None
  /\ LET t == task[h] IN
     /\ row' = Activated(row, t.sub, t.status, t.plan, t.at)
     /\ acked' = IF h \in Webhooks THEN acked \cup {t.event} ELSE acked
  /\ task' = [task EXCEPT ![h] = None]
  /\ UNCHANGED <<time, stripe, log, opened, again, fails, gone, missed, doubled>>

(* What could go wrong: an event whose handler failed is acknowledged. *)
CallFailsAcked(h) ==
  /\ task[h] # None
  /\ fails < MaxFails
  /\ fails' = fails + 1
  /\ acked' = IF h \in Webhooks THEN acked \cup {task[h].event} ELSE acked
  /\ task' = [task EXCEPT ![h] = None]
  /\ UNCHANGED <<time, stripe, log, opened, row, again, gone, missed, doubled>>

(* The call fails: the webhook answers 500 and the event comes again.      *)
CallFails(h) ==
  /\ task[h] # None
  /\ fails < MaxFails
  /\ fails' = fails + 1
  /\ task' = [task EXCEPT ![h] = None]
  /\ UNCHANGED <<time, stripe, log, acked, opened, row, again, gone, missed,
                 doubled>>

AtStripeNext ==
  \E s \in Subs :
    \/ Checkout(s) \/ Cancel(s)
    \/ \E p \in Listed : Complete(s, p)
    \/ \E p \in Plans, st \in AliveStatuses : Modify(s, st, p)

Hear(e) == HearUpdated(e) \/ HearDeleted(e) \/ \E h \in Webhooks : HearCompleted(h, e)

Next ==
  \/ AtStripeNext
  \/ \E e \in log : Hear(e) \/ \E h \in Confirms : Confirm(h, e)
  \/ \E h \in Handlers : Activate(h) \/ CallFails(h)

(* An event not yet acknowledged is delivered, and a handler goes on.      *)
Fairness ==
  /\ WF_vars(\E e \in log \ acked : Hear(e))
  /\ \A h \in Handlers : WF_vars(Activate(h))

Spec == Init /\ [][Next]_vars /\ Fairness
-------------------------------------------------------------------------------
(***************************************************************************)
(* Properties.                                                             *)
(***************************************************************************)
Task == [event : Event, sub : Subs, status : Statuses, plan : Plans, at : 1 .. MaxTime]

(* Types, and that no stamp is newer than Stripe's clock. *)
BillingTypeOK ==
  /\ time \in 0 .. MaxTime
  /\ stripe \in [Subs -> AtStripe]
  /\ log \subseteq Event
  /\ acked \subseteq log
  /\ row \in BillingRow
  /\ task \in [Handlers -> Task \cup {None}]
  /\ row.water <= time

(* Once every event has been answered and no handler is under way, the row *)
(* tells what Stripe knows, whatever the order and however often events    *)
(* came and answers were written late: the subscription that is alive, its *)
(* status and, when its price is listed, its plan; without one the user is *)
(* free.  Not when an end came before the row knew its subscription, nor   *)
(* with two subscriptions at a time (stripeSubscriptionStore.ts:27, 121).  *)
Settled == acked = log /\ \A h \in Handlers : task[h] = None

RowTellsStripe ==
  Settled /\ ~missed /\ ~doubled =>
    /\ \A s \in Subs : Alive(s) =>
         /\ row.sub = s /\ row.status = stripe[s].status
         /\ stripe[s].plan \in Listed => Effective(row) = stripe[s].plan
    /\ (\A s \in Subs : ~Alive(s)) => Effective(row) = Free

(* A subscription whose end the row has been told never counts again: no   *)
(* late event, redelivery, checkout answer or confirmation of it brings    *)
(* its plan back (stripeSubscriptionStore.ts:132).                         *)
EndedStaysOut == \A s \in gone : ~(row.sub = s /\ HasLive(row))

(* Who pays is served: while a subscription stays alive the row comes to   *)
(* know it, though calls fail and events come late (stripeHttp.ts:398).    *)
PaidIsServed ==
  \A s \in Subs :
    Alive(s) ~> \/ row.sub = s /\ HasLive(row)
                \/ ~Alive(s) \/ missed \/ doubled

===============================================================================
