-------------------------- MODULE SubscriptionProofs --------------------------
(***************************************************************************)
(* Proofs about Subscription, for any subscriptions, plans and handlers.   *)
(* The row cannot be wrong for long because the newest stamp of Stripe     *)
(* names the subscription that counts: once the row has applied it, it     *)
(* tells what Stripe knows, and nothing older is applied any more.         *)
(***************************************************************************)
EXTENDS Subscription, TLAPS

Kinds == {"completed", "updated", "deleted"}

-----------------------------------------------------------------------------
(* Types.                                                                    *)

TypeInv ==
  /\ BillingTypeOK
  /\ opened \subseteq Subs /\ gone \subseteq Subs
  /\ missed \in BOOLEAN /\ doubled \in BOOLEAN

(* What a change at Stripe does, as facts: it sends one event.               *)
Sends(n, state) ==
  /\ n \in Event
  /\ state \in AtStripe /\ state.status = n.status /\ state.plan = n.plan
  /\ n.at = time + 1
  /\ time' = time + 1 /\ time' \in 1 .. MaxTime
  /\ log' = log \cup {n}
  /\ stripe' = [stripe EXCEPT ![n.sub] = state]
  /\ UNCHANGED <<acked, row, task, gone, missed>>

\* A change sends the event of its kind.
LEMMA ChangeSends ==
  ASSUME TypeInv, NEW kind \in Kinds, NEW s \in Subs, NEW state \in AtStripe,
         state.status \in Statuses, Change(kind, s, state)
  PROVE  \E n : Sends(n, state) /\ n.kind = kind /\ n.sub = s
<1> DEFINE n == [kind |-> kind, sub |-> s, at |-> time + 1,
                 status |-> state.status, plan |-> state.plan]
<1>1. time' = time + 1 /\ time' \in 1 .. MaxTime
  BY BillingAssumption DEF Change, TypeInv, BillingTypeOK
<1>2. state.plan \in Plans
  BY DEF AtStripe
<1>3. n \in Event
  BY <1>1, <1>2 DEF Event, Kinds
<1>4. log' = log \cup {n} /\ stripe' = [stripe EXCEPT ![s] = state]
  BY DEF Change, Send
<1>5. /\ n.kind = kind /\ n.sub = s /\ n.at = time + 1
      /\ n.status = state.status /\ n.plan = state.plan
  OBVIOUS
<1> HIDE DEF n
<1> QED BY <1>1, <1>3, <1>4, <1>5 DEF Sends, Change

(* The three changes.                                                        *)
Completes(n, state) ==
  /\ Sends(n, state) /\ n.kind = "completed"
  /\ n.sub \in opened /\ opened' = opened \ {n.sub}
  /\ n.status = "active" /\ state.created = n.at
  /\ doubled' = (doubled \/ \E other \in Subs : Alive(other))

Modifies(n, state) ==
  /\ Sends(n, state) /\ n.kind = "updated"
  /\ Alive(n.sub) /\ n.status \in AliveStatuses
  /\ state.created = stripe[n.sub].created
  /\ UNCHANGED <<opened, doubled>>

Cancels(n, state) ==
  /\ Sends(n, state) /\ n.kind = "deleted"
  /\ Alive(n.sub) /\ n.status = "canceled"
  /\ state.created = stripe[n.sub].created
  /\ UNCHANGED <<opened, doubled>>

StripeMoves ==
  \E n, state : Completes(n, state) \/ Modifies(n, state) \/ Cancels(n, state)

\* A completed checkout.
LEMMA CompleteMoves ==
  ASSUME TypeInv, NEW s \in Subs, NEW p \in Listed, Complete(s, p)
  PROVE  StripeMoves
<1> DEFINE state == [status |-> "active", plan |-> p, created |-> time + 1]
<1>1. state \in AtStripe
  BY BillingAssumption DEF Complete, Change, TypeInv, BillingTypeOK, AtStripe,
     Statuses, AliveStatuses
<1>2. Change("completed", s, state)
  BY DEF Complete
<1>3. state.status = "active" /\ state.created = time + 1
  OBVIOUS
<1> HIDE DEF state
<1>4. PICK n : Sends(n, state) /\ n.kind = "completed" /\ n.sub = s
  BY <1>1, <1>2, <1>3, ChangeSends DEF Kinds, Statuses, AliveStatuses
<1>5. Completes(n, state)
  BY <1>3, <1>4 DEF Complete, Completes, Sends
<1> QED BY <1>5 DEF StripeMoves

\* A change of a subscription that is alive.
LEMMA ModifyMoves ==
  ASSUME TypeInv, NEW s \in Subs, NEW st \in AliveStatuses, NEW p \in Plans,
         Modify(s, st, p)
  PROVE  StripeMoves
<1> DEFINE state == [stripe[s] EXCEPT !.status = st, !.plan = p]
<1>1. stripe[s] \in AtStripe
  BY DEF TypeInv, BillingTypeOK
<1>2. /\ state \in AtStripe /\ state.status = st
      /\ state.created = stripe[s].created
  BY <1>1 DEF AtStripe, Statuses
<1>3. Change("updated", s, state)
  BY DEF Modify
<1> HIDE DEF state
<1>4. PICK n : Sends(n, state) /\ n.kind = "updated" /\ n.sub = s
  BY <1>2, <1>3, ChangeSends DEF Kinds, Statuses
<1>5. Modifies(n, state)
  BY <1>2, <1>4 DEF Modify, Modifies, Sends
<1> QED BY <1>5 DEF StripeMoves

\* The end of one.
LEMMA CancelMoves ==
  ASSUME TypeInv, NEW s \in Subs, Cancel(s)
  PROVE  StripeMoves
<1> DEFINE state == [stripe[s] EXCEPT !.status = "canceled"]
<1>1. stripe[s] \in AtStripe
  BY DEF TypeInv, BillingTypeOK
<1>2. /\ state \in AtStripe /\ state.status = "canceled"
      /\ state.created = stripe[s].created
  BY <1>1 DEF AtStripe, Statuses
<1>3. Change("deleted", s, state)
  BY DEF Cancel
<1> HIDE DEF state
<1>4. PICK n : Sends(n, state) /\ n.kind = "deleted" /\ n.sub = s
  BY <1>2, <1>3, ChangeSends DEF Kinds, Statuses
<1>5. Cancels(n, state)
  BY <1>2, <1>4 DEF Cancel, Cancels, Sends
<1> QED BY <1>5 DEF StripeMoves

\* Every step is one of these.
LEMMA Moves ==
  ASSUME TypeInv, [Next]_vars
  PROVE  \/ StripeMoves
         \/ \E s \in Subs : Checkout(s)
         \/ \E e \in log : \/ HearUpdated(e) \/ HearDeleted(e)
                           \/ \E h \in Webhooks : HearCompleted(h, e)
                           \/ \E h \in Confirms : Confirm(h, e)
         \/ \E h \in Handlers : Activate(h) \/ CallFails(h)
         \/ UNCHANGED vars
<1>1. ASSUME AtStripeNext PROVE StripeMoves \/ \E s \in Subs : Checkout(s)
  BY <1>1, CompleteMoves, ModifyMoves, CancelMoves DEF AtStripeNext
<1> QED BY <1>1 DEF Next, Hear

\* A row that is written to is a row, and its stamp only grows.
LEMMA WrittenRow ==
  ASSUME TypeInv, NEW e \in log, NEW s \in Subs, NEW status \in Statuses,
         NEW plan \in Plans, NEW at \in 1 .. time
  PROVE  /\ Updated(row, e) \in BillingRow /\ Canceled(row, e) \in BillingRow
         /\ Activated(row, s, status, plan, at) \in BillingRow
         /\ Updated(row, e).water \in row.water .. time \/ e.at > time
         /\ Canceled(row, e).water \in row.water .. time \/ e.at > time
         /\ Activated(row, s, status, plan, at).water \in row.water .. time
<1>1. /\ row \in BillingRow /\ e \in Event
      /\ time \in 0 .. MaxTime /\ row.water \in 0 .. time
  BY DEF TypeInv, BillingTypeOK, BillingRow
<1> USE BillingAssumption DEF BillingRow, Event, Statuses
<1>2. /\ Updated(row, e) \in BillingRow
      /\ Updated(row, e).water \in row.water .. time \/ e.at > time
  BY <1>1 DEF Updated, NextWater
<1>3. /\ Canceled(row, e) \in BillingRow
      /\ Canceled(row, e).water \in row.water .. time \/ e.at > time
  BY <1>1 DEF Canceled, NextWater
<1>4. /\ Activated(row, s, status, plan, at) \in BillingRow
      /\ Activated(row, s, status, plan, at).water \in row.water .. time
  BY <1>1 DEF Activated, NextWater
<1> QED BY <1>2, <1>3, <1>4

(* The events that were sent carry the stamps of the clock, one each, and    *)
(* the newest tells how its subscription is.                                 *)
LogInv ==
  /\ \A e \in log : e.at <= time
  /\ \A a, b \in log : a.at = b.at => a = b
  /\ time > 0 => \E m \in log : m.at = time
  /\ \A m \in log : m.at = time =>
       stripe[m.sub].status = m.status /\ stripe[m.sub].plan = m.plan
  /\ \A m \in log : IF m.kind = "deleted" THEN m.status = "canceled"
                    ELSE m.status \in AliveStatuses

(* A subscription has events once it was completed and none after its end.   *)
LifeInv ==
  /\ \A s \in opened : \A e \in log : e.sub # s
  /\ \A e \in log : stripe[e.sub].status # None
  /\ \A s \in Subs : Alive(s) => \E e \in log : e.sub = s
  /\ \A d \in log : d.kind = "deleted" =>
       /\ stripe[d.sub].status = "canceled"
       /\ \A e \in log : e.sub = d.sub /\ e # d => e.at < d.at
  /\ \A e \in log : e.kind = "completed" => stripe[e.sub].created = e.at

(* One subscription at a time, unless the history says otherwise.            *)
AloneInv ==
  ~doubled =>
    /\ \A s, t \in Subs : Alive(s) /\ Alive(t) => s = t
    /\ \A m \in log : m.at = time /\ m.kind = "deleted" => \A s \in Subs : ~Alive(s)

(* A handler is about to write what its event says, and what Stripe answered *)
(* is still so unless Stripe has changed since.                              *)
TaskInv ==
  \A h \in Handlers : task[h] # None =>
    /\ task[h].event \in log /\ task[h].event.kind = "completed"
    /\ task[h].sub = task[h].event.sub /\ task[h].at = task[h].event.at
    /\ task[h].plan = task[h].event.plan
    /\ task[h].at = time => task[h].status = stripe[task[h].sub].status

(* The row knows what event m says.                                          *)
Knows(r, m) ==
  IF m.kind = "deleted" THEN r.sub = None
  ELSE /\ r.sub = m.sub /\ r.status = m.status
       /\ m.plan \in Listed => r.plan = m.plan

RowInv ==
  /\ row.water = 0 => row.sub = None
  /\ \A m \in log : m.at = time =>
       /\ row.water = time => Knows(row, m)
       /\ m \in acked /\ ~missed => row.water = time

(* What has ended is not in the row, and nothing of it can be applied.       *)
GoneInv ==
  \A s \in gone :
    /\ row.sub # s
    /\ \E d \in log : d.kind = "deleted" /\ d.sub = s /\ d.at <= row.water

-----------------------------------------------------------------------------
(* Every step keeps the types.                                               *)

\* A handler that is about to write is well typed.
LEMMA TaskTyped ==
  ASSUME NEW e \in Event, NEW status \in Statuses, NEW at \in 1 .. MaxTime
  PROVE  [event |-> e, sub |-> e.sub, status |-> status, plan |-> e.plan, at |-> at] \in Task
BY DEF Task, Event

\* Types are kept.
LEMMA TypeStep ==
  ASSUME TypeInv, LogInv, LifeInv, TaskInv, [Next]_vars
  PROVE  TypeInv'
<1> USE BillingAssumption
<1>1. ASSUME NEW n, NEW state, Sends(n, state), opened' \subseteq Subs, doubled' \in BOOLEAN
      PROVE  TypeInv'
  <2>1. stripe' \in [Subs -> AtStripe]
    BY <1>1 DEF Sends, TypeInv, BillingTypeOK, Event
  <2>2. log' \subseteq Event /\ acked' \subseteq log'
    BY <1>1 DEF Sends, TypeInv, BillingTypeOK
  <2>3. /\ row' = row /\ row \in BillingRow /\ row.water \in Nat /\ row.water <= time
        /\ time' = time + 1 /\ time' \in 0 .. MaxTime /\ time \in Nat
    BY <1>1 DEF Sends, TypeInv, BillingTypeOK, BillingRow
  <2>4. task' \in [Handlers -> Task \cup {None}] /\ gone' \subseteq Subs /\ missed' \in BOOLEAN
    BY <1>1 DEF Sends, TypeInv, BillingTypeOK
  <2> QED BY <1>1, <2>1, <2>2, <2>3, <2>4 DEF TypeInv, BillingTypeOK
<1>2. CASE StripeMoves
  <2>1. PICK n, state : Completes(n, state) \/ Modifies(n, state) \/ Cancels(n, state)
    BY <1>2 DEF StripeMoves
  <2>2. Sends(n, state) /\ opened' \subseteq Subs
    BY <2>1 DEF Completes, Modifies, Cancels, TypeInv
  <2>3. doubled' \in BOOLEAN
    BY <2>1 DEF Completes, Modifies, Cancels, TypeInv
  <2> QED BY <1>1, <2>2, <2>3
<1>3. ASSUME NEW s \in Subs, Checkout(s) PROVE TypeInv'
  BY <1>3 DEF Checkout, TypeInv, BillingTypeOK
<1>4. ASSUME NEW e \in log, HearUpdated(e) PROVE TypeInv'
  <2>1. Updated(row, e) \in BillingRow /\ Updated(row, e).water <= time
    BY WrittenRow DEF LogInv, TypeInv, BillingTypeOK, Event, BillingRow, Statuses, AliveStatuses
  <2> QED BY <1>4, <2>1 DEF HearUpdated, TypeInv, BillingTypeOK
<1>5. ASSUME NEW e \in log, HearDeleted(e) PROVE TypeInv'
  <2>1. Canceled(row, e) \in BillingRow /\ Canceled(row, e).water <= time
    BY WrittenRow DEF LogInv, TypeInv, BillingTypeOK, Event, BillingRow, Statuses, AliveStatuses
  <2>2. gone' \subseteq Subs /\ missed' \in BOOLEAN
    BY <1>5 DEF HearDeleted, TypeInv, BillingTypeOK, Event
  <2> QED BY <1>5, <2>1, <2>2 DEF HearDeleted, TypeInv, BillingTypeOK
<1>6. ASSUME NEW e \in log, NEW h \in Handlers, NEW status \in Statuses, NEW at \in 1 .. MaxTime,
             task' = [task EXCEPT ![h] = [event |-> e, sub |-> e.sub, status |-> status,
                                          plan |-> e.plan, at |-> at]],
             UNCHANGED <<time, stripe, log, acked, opened, row, gone, missed, doubled>>
      PROVE  TypeInv'
  <2>1. e \in Event
    BY DEF TypeInv, BillingTypeOK
  <2>2. task' \in [Handlers -> Task \cup {None}]
    BY <1>6, <2>1, TaskTyped DEF TypeInv, BillingTypeOK
  <2> QED BY <1>6, <2>2 DEF TypeInv, BillingTypeOK
<1>7. ASSUME NEW e \in log, NEW h \in Webhooks, HearCompleted(h, e) PROVE TypeInv'
  <2>1. e.sub \in Subs /\ e.at \in 1 .. MaxTime /\ stripe[e.sub].status \in Statuses
    BY DEF TypeInv, BillingTypeOK, Event, LifeInv, AtStripe
  <2> QED BY <1>6, <1>7, <2>1 DEF HearCompleted, Handlers
<1>8. ASSUME NEW e \in log, NEW h \in Confirms, Confirm(h, e) PROVE TypeInv'
  <2>1. e.at \in 1 .. MaxTime /\ stripe[e.sub].created = e.at /\ "active" \in Statuses
    BY <1>8 DEF TypeInv, BillingTypeOK, Event, LifeInv, Confirm, Statuses, AliveStatuses
  <2> QED BY <1>6, <1>8, <2>1 DEF Confirm, Handlers
<1>9. ASSUME NEW h \in Handlers, Activate(h) PROVE TypeInv'
  <2> DEFINE t == task[h]
  <2>1. t \in Task /\ t.event \in log /\ t.at \in 1 .. time
    BY <1>9 DEF Activate, TypeInv, BillingTypeOK, TaskInv, LogInv, Event
  <2>2. t.sub \in Subs /\ t.status \in Statuses /\ t.plan \in Plans
    BY <2>1 DEF Task
  <2>3. /\ Activated(row, t.sub, t.status, t.plan, t.at) \in BillingRow
        /\ Activated(row, t.sub, t.status, t.plan, t.at).water <= time
    BY <2>1, <2>2, WrittenRow DEF TypeInv, BillingTypeOK, BillingRow
  <2>4. row' = Activated(row, t.sub, t.status, t.plan, t.at)
    BY <1>9 DEF Activate
  <2>5. /\ task' = [task EXCEPT ![h] = None]
        /\ acked' \subseteq acked \cup {t.event}
        /\ UNCHANGED <<time, stripe, log, opened, gone, missed, doubled>>
    BY <1>9 DEF Activate
  <2> HIDE DEF t
  <2> QED BY <2>1, <2>3, <2>4, <2>5 DEF TypeInv, BillingTypeOK
<1>10. ASSUME NEW h \in Handlers, CallFails(h) PROVE TypeInv'
  BY <1>10 DEF CallFails, TypeInv, BillingTypeOK
<1>11. CASE UNCHANGED vars
  BY <1>11 DEF vars, TypeInv, BillingTypeOK
<1> QED BY <1>2, <1>3, <1>4, <1>5, <1>7, <1>8, <1>9, <1>10, <1>11, Moves

-----------------------------------------------------------------------------
(* Every step keeps what is known of Stripe.                                 *)

\* Only Stripe moves Stripe, and a checkout opens a session.
LEMMA StripeStays ==
  ASSUME TypeInv, [Next]_vars
  PROVE  \/ StripeMoves
         \/ \E s \in Subs : Checkout(s)
         \/ UNCHANGED <<time, stripe, log, opened, doubled>>
BY Moves DEF HearUpdated, HearDeleted, HearCompleted, Confirm, Activate, CallFails, vars

\* The log.
LEMMA LogStep ==
  ASSUME TypeInv, LogInv, [Next]_vars
  PROVE  LogInv'
<1>1. ASSUME NEW n, NEW state, Sends(n, state),
             IF n.kind = "deleted" THEN n.status = "canceled" ELSE n.status \in AliveStatuses
      PROVE  LogInv'
  <2>1. /\ log \subseteq Event /\ n \in Event /\ time \in Nat /\ \A e \in log : e.at \in Nat
        /\ stripe \in [Subs -> AtStripe]
    BY <1>1 DEF TypeInv, BillingTypeOK, Event, Sends
  <2>2. \A e \in log' : e.at <= time'
    BY <1>1, <2>1 DEF Sends, LogInv
  <2>3. \A a, b \in log' : a.at = b.at => a = b
    BY <1>1, <2>1 DEF Sends, LogInv
  <2>4. n \in log' /\ n.at = time'
    BY <1>1 DEF Sends
  <2>5. \A m \in log' : m.at = time' => m = n
    BY <2>3, <2>4
  <2>6. stripe'[n.sub].status = n.status /\ stripe'[n.sub].plan = n.plan
    BY <1>1, <2>1 DEF Sends, Event
  <2>7. \A m \in log' : IF m.kind = "deleted" THEN m.status = "canceled"
                        ELSE m.status \in AliveStatuses
    BY <1>1 DEF Sends, LogInv
  <2> QED BY <2>2, <2>3, <2>4, <2>5, <2>6, <2>7 DEF LogInv
<1>2. CASE StripeMoves
  BY <1>1, <1>2 DEF StripeMoves, Completes, Modifies, Cancels, AliveStatuses
<1>3. CASE \E s \in Subs : Checkout(s)
  BY <1>3 DEF Checkout, LogInv
<1>4. CASE UNCHANGED <<time, stripe, log, opened, doubled>>
  BY <1>4 DEF LogInv
<1> QED BY <1>2, <1>3, <1>4, StripeStays

\* The life of a subscription.
LEMMA LifeStep ==
  ASSUME TypeInv, LogInv, LifeInv, [Next]_vars
  PROVE  LifeInv'
<1> USE BillingAssumption
<1>0. ASSUME NEW n, NEW state, Sends(n, state)
      PROVE  /\ n \in Event /\ n \notin log /\ n.sub \in Subs /\ n.at = time + 1
             /\ log' = log \cup {n}
             /\ \A e \in log : e.sub \in Subs /\ e.at < n.at
             /\ stripe'[n.sub] = state
             /\ \A s \in Subs \ {n.sub} : stripe'[s] = stripe[s]
             /\ n.status \in Statuses /\ state.status = n.status
  <2>1. log \subseteq Event /\ n \in Event /\ time \in Nat /\ stripe \in [Subs -> AtStripe]
    BY <1>0 DEF TypeInv, BillingTypeOK, Sends
  <2>2. \A e \in log : e.at \in Nat /\ e.at <= time /\ e.sub \in Subs
    BY <2>1 DEF Event, LogInv
  <2> QED BY <1>0, <2>1, <2>2 DEF Sends, Event
<1>1. ASSUME NEW n, NEW state, Completes(n, state)
      PROVE  LifeInv'
  <2>1. /\ Sends(n, state) /\ n.sub \in opened /\ opened' = opened \ {n.sub}
        /\ n.kind = "completed" /\ n.status = "active" /\ state.created = n.at
    BY <1>1 DEF Completes
  <2>2. \A e \in log : e.sub # n.sub
    BY <2>1 DEF LifeInv
  <2>3. \A s \in opened' : \A e \in log' : e.sub # s
    BY <1>0, <2>1, <2>2 DEF LifeInv
  <2>4. \A e \in log' : stripe'[e.sub].status # None
    BY <1>0, <2>1, <2>2 DEF LifeInv
  <2>5. \A s \in Subs : Alive(s)' => \E e \in log' : e.sub = s
    BY <1>0, <2>1 DEF LifeInv, Alive
  <2>6. \A d \in log' : d.kind = "deleted" =>
          /\ stripe'[d.sub].status = "canceled"
          /\ \A e \in log' : e.sub = d.sub /\ e # d => e.at < d.at
    BY <1>0, <2>1, <2>2 DEF LifeInv
  <2>7. \A e \in log' : e.kind = "completed" => stripe'[e.sub].created = e.at
    BY <1>0, <2>1, <2>2 DEF LifeInv
  <2> QED BY <2>3, <2>4, <2>5, <2>6, <2>7 DEF LifeInv
<1>2. ASSUME NEW n, NEW state, Modifies(n, state) \/ Cancels(n, state)
      PROVE  LifeInv'
  <2>1. /\ Sends(n, state) /\ Alive(n.sub) /\ opened' = opened
        /\ state.created = stripe[n.sub].created /\ n.kind # "completed"
        /\ n.kind = "deleted" => n.status = "canceled"
    BY <1>2 DEF Modifies, Cancels
  <2>2. n.sub \notin opened
    BY <1>0, <2>1 DEF LifeInv
  <2>3. \A d \in log : d.kind = "deleted" => d.sub # n.sub
    BY <2>1 DEF LifeInv, Alive, AliveStatuses
  <2>4. \A s \in opened' : \A e \in log' : e.sub # s
    BY <1>0, <2>1, <2>2 DEF LifeInv
  <2>5. \A e \in log' : stripe'[e.sub].status # None
    BY <1>0, <2>1 DEF LifeInv, Statuses, AliveStatuses
  <2>6. \A s \in Subs : Alive(s)' => \E e \in log' : e.sub = s
    BY <1>0, <2>1 DEF LifeInv, Alive
  <2>7. \A d \in log' : d.kind = "deleted" =>
          /\ stripe'[d.sub].status = "canceled"
          /\ \A e \in log' : e.sub = d.sub /\ e # d => e.at < d.at
    BY <1>0, <2>1, <2>3 DEF LifeInv
  <2>8. \A e \in log' : e.kind = "completed" => stripe'[e.sub].created = e.at
    BY <1>0, <2>1 DEF LifeInv
  <2> QED BY <2>4, <2>5, <2>6, <2>7, <2>8 DEF LifeInv
<1>3. ASSUME NEW s \in Subs, Checkout(s)
      PROVE  LifeInv'
  BY <1>3 DEF Checkout, LifeInv, Alive
<1>4. CASE UNCHANGED <<time, stripe, log, opened, doubled>>
  BY <1>4 DEF LifeInv, Alive
<1> QED BY <1>1, <1>2, <1>3, <1>4, StripeStays DEF StripeMoves

\* One at a time.
LEMMA AloneStep ==
  ASSUME TypeInv, LogInv, LifeInv, AloneInv, [Next]_vars
  PROVE  AloneInv'
<1>0. ASSUME NEW n, NEW state, Sends(n, state)
      PROVE  /\ \A s \in Subs \ {n.sub} : Alive(s)' <=> Alive(s)
             /\ n.sub \in Subs
             /\ Alive(n.sub)' <=> n.status \in AliveStatuses
             /\ \A m \in log' : m.at = time' => m = n
  <2>1. n \in Event /\ log \subseteq Event /\ time \in Nat /\ stripe \in [Subs -> AtStripe]
    BY <1>0 DEF TypeInv, BillingTypeOK, Sends
  <2>2. \A m \in log : m.at # time'
    BY <1>0, <2>1 DEF Sends, LogInv, Event
  <2>3. n.sub \in Subs
    BY <2>1 DEF Event
  <2>4. stripe'[n.sub].status = n.status /\ \A s \in Subs \ {n.sub} : stripe'[s] = stripe[s]
    BY <1>0, <2>1, <2>3 DEF Sends
  <2> QED BY <1>0, <2>2, <2>3, <2>4 DEF Alive, Sends
<1>1. ASSUME NEW n, NEW state, Completes(n, state)
      PROVE  AloneInv'
  <2>1. Sends(n, state) /\ n.kind = "completed"
    BY <1>1 DEF Completes
  <2>2. ~doubled' => ~doubled /\ \A s \in Subs : ~Alive(s)
    BY <1>1 DEF Completes
  <2> QED BY <1>0, <2>1, <2>2 DEF AloneInv
<1>2. ASSUME NEW n, NEW state, Modifies(n, state)
      PROVE  AloneInv'
  <2>1. Sends(n, state) /\ n.kind = "updated" /\ Alive(n.sub) /\ doubled' = doubled
    BY <1>2 DEF Modifies
  <2> QED BY <1>0, <2>1 DEF AloneInv
<1>3. ASSUME NEW n, NEW state, Cancels(n, state)
      PROVE  AloneInv'
  <2>1. /\ Sends(n, state) /\ Alive(n.sub) /\ doubled' = doubled
        /\ n.status \notin AliveStatuses
    BY <1>3 DEF Cancels, AliveStatuses
  <2> QED BY <1>0, <2>1 DEF AloneInv
<1>4. ASSUME NEW s \in Subs, Checkout(s)
      PROVE  AloneInv'
  BY <1>4 DEF Checkout, AloneInv, Alive
<1>5. CASE UNCHANGED <<time, stripe, log, opened, doubled>>
  BY <1>5 DEF AloneInv, Alive
<1> QED BY <1>1, <1>2, <1>3, <1>4, <1>5, StripeStays DEF StripeMoves

-----------------------------------------------------------------------------
(* Every step keeps what is known of the row.                                *)

\* What the handlers hold.
LEMMA TaskStep ==
  ASSUME TypeInv, LogInv, LifeInv, TaskInv, [Next]_vars
  PROVE  TaskInv'
<1> USE BillingAssumption
<1>1. CASE StripeMoves
  <2>1. PICK n, state : Sends(n, state)
    BY <1>1 DEF StripeMoves, Completes, Modifies, Cancels
  <2>2. \A h \in Handlers : task[h] # None =>
          task[h].event \in log /\ task[h].at = task[h].event.at
    BY DEF TaskInv
  <2>3. \A e \in log : e.at \in Nat /\ e.at <= time
    BY DEF TypeInv, BillingTypeOK, Event, LogInv
  <2>4. \A h \in Handlers : task[h] # None => task[h].at # time'
    BY <2>1, <2>2, <2>3 DEF Sends, TypeInv, BillingTypeOK
  <2>5. task' = task /\ log \subseteq log'
    BY <2>1 DEF Sends
  <2> QED BY <2>4, <2>5 DEF TaskInv
<1>2. ASSUME NEW s \in Subs, Checkout(s) PROVE TaskInv'
  BY <1>2 DEF Checkout, TaskInv
<1>3. ASSUME NEW e \in log, HearUpdated(e) \/ HearDeleted(e) PROVE TaskInv'
  BY <1>3 DEF HearUpdated, HearDeleted, TaskInv
<1>4. ASSUME NEW e \in log, NEW h \in Webhooks, HearCompleted(h, e) PROVE TaskInv'
  <2> DEFINE t == [event |-> e, sub |-> e.sub, status |-> stripe[e.sub].status,
                   plan |-> e.plan, at |-> e.at]
  <2>1. /\ t.event = e /\ t.sub = e.sub /\ t.plan = e.plan /\ t.at = e.at
        /\ t.status = stripe[e.sub].status
    OBVIOUS
  <2>2. task' = [task EXCEPT ![h] = t] /\ e.kind = "completed"
    BY <1>4 DEF HearCompleted
  <2>3. log' = log /\ stripe' = stripe /\ time' = time
    BY <1>4 DEF HearCompleted
  <2> HIDE DEF t
  <2> QED BY <2>1, <2>2, <2>3 DEF TaskInv, TypeInv, BillingTypeOK
<1>5. ASSUME NEW e \in log, NEW h \in Confirms, Confirm(h, e) PROVE TaskInv'
  <2> DEFINE t == [event |-> e, sub |-> e.sub, status |-> "active",
                   plan |-> e.plan, at |-> stripe[e.sub].created]
  <2>1. /\ t.event = e /\ t.sub = e.sub /\ t.plan = e.plan /\ t.at = e.at
        /\ t.status = stripe[e.sub].status
    BY <1>5 DEF Confirm, LifeInv
  <2>2. task' = [task EXCEPT ![h] = t] /\ e.kind = "completed"
    BY <1>5 DEF Confirm
  <2>3. log' = log /\ stripe' = stripe /\ time' = time
    BY <1>5 DEF Confirm
  <2> HIDE DEF t
  <2> QED BY <2>1, <2>2, <2>3 DEF TaskInv, TypeInv, BillingTypeOK
<1>6. ASSUME NEW h \in Handlers, Activate(h) \/ CallFails(h) PROVE TaskInv'
  BY <1>6 DEF Activate, CallFails, TaskInv, TypeInv, BillingTypeOK
<1>7. CASE UNCHANGED vars
  BY <1>7 DEF vars, TaskInv
<1> QED BY <1>1, <1>2, <1>3, <1>4, <1>5, <1>6, <1>7, Moves

(* A write to the row at stamp `at`, of the subscription and the status that *)
(* event e was about: an older stamp leaves the row as it is.                *)
Writes(e, at) ==
  /\ IF Applies(row, at)
     THEN /\ row'.sub = e.sub /\ row'.water = NextWater(row, at)
          /\ at = time => Knows(row', e)
     ELSE row' = row

\* What an update writes.
LEMMA UpdateWrites ==
  ASSUME TypeInv, LogInv, NEW e \in log, e.kind = "updated", row' = Updated(row, e)
  PROVE  Writes(e, e.at)
BY DEF Writes, Updated, Knows, TypeInv, BillingTypeOK, BillingRow

\* What a handler writes.
LEMMA HandlerWrites ==
  ASSUME TypeInv, LogInv, TaskInv, NEW h \in Handlers, Activate(h)
  PROVE  /\ task[h].event \in log /\ task[h].event.kind = "completed"
         /\ Writes(task[h].event, task[h].event.at)
<1> DEFINE t == task[h]
           e == t.event
<1>1. /\ e \in log /\ e.kind = "completed" /\ t.sub = e.sub /\ t.at = e.at
      /\ t.plan = e.plan /\ (t.at = time => t.status = stripe[e.sub].status)
  BY DEF TaskInv, Activate
<1>2. e.at = time => t.status = e.status
  BY <1>1 DEF LogInv
<1>3. row' = Activated(row, e.sub, t.status, e.plan, e.at)
  BY <1>1 DEF Activate
<1> HIDE DEF t, e
<1>4. Writes(e, e.at)
  BY <1>1, <1>2, <1>3 DEF Writes, Activated, Knows
<1> QED BY <1>1, <1>4 DEF t, e

\* A write that is not an end keeps what the row means and what is gone.
LEMMA WriteKeeps ==
  ASSUME TypeInv, LogInv, LifeInv, RowInv, GoneInv,
         NEW e \in log, e.kind # "deleted", Writes(e, e.at),
         acked' \subseteq acked \cup {e},
         UNCHANGED <<time, log, gone, missed>>
  PROVE  RowInv' /\ GoneInv'
<1>1. /\ e.at \in Nat \ {0} /\ e.at <= time /\ e.sub \in Subs /\ time \in Nat
      /\ row.water \in Nat /\ row.water <= time
      /\ \A d \in log : d.at \in Nat \ {0} /\ d.at <= time
  BY DEF TypeInv, BillingTypeOK, BillingRow, Event, LogInv
<1>2. /\ row'.water \in Nat /\ row.water <= row'.water /\ row'.water <= time
      /\ row'.water >= e.at
      /\ row'.water = time => e.at = time \/ row' = row
      /\ row'.water = 0 => row' = row
  BY <1>1 DEF Writes, NextWater, Applies
<1>3. \A m \in log : m.at = time =>
        /\ row'.water = time => Knows(row', m)
        /\ m \in acked' /\ ~missed => row'.water = time
  <2> SUFFICES ASSUME NEW m \in log, m.at = time
               PROVE  /\ row'.water = time => Knows(row', m)
                      /\ m \in acked' /\ ~missed => row'.water = time
    OBVIOUS
  <2>1. e.at = time => m = e
    BY DEF LogInv
  <2>2. row'.water = time => Knows(row', m)
    <3>1. CASE row' = row
      BY <3>1 DEF RowInv
    <3>2. CASE row' # row
      BY <1>1, <1>2, <2>1, <3>2 DEF Writes
    <3> QED BY <3>1, <3>2
  <2>3. m \in acked' /\ ~missed => row'.water = time
    BY <1>1, <1>2 DEF RowInv
  <2> QED BY <2>2, <2>3
<1>4. RowInv'
  BY <1>2, <1>3 DEF RowInv
<1>5. \A s \in gone : row'.sub # s /\ \E d \in log : d.kind = "deleted" /\ d.sub = s /\ d.at <= row'.water
  <2> SUFFICES ASSUME NEW s \in gone
               PROVE  /\ row'.sub # s
                      /\ \E d \in log : d.kind = "deleted" /\ d.sub = s /\ d.at <= row'.water
    OBVIOUS
  <2>1. PICK d \in log : d.kind = "deleted" /\ d.sub = s /\ d.at <= row.water
    BY DEF GoneInv
  <2>2. row.sub # s
    BY DEF GoneInv
  <2>3. e.sub = s => e.at < d.at
    BY <2>1 DEF LifeInv
  <2>4. e.sub = s => ~Applies(row, e.at)
    BY <1>1, <2>1, <2>3 DEF Applies
  <2>5. row'.sub # s
    BY <2>2, <2>4 DEF Writes
  <2> QED BY <1>1, <1>2, <2>1, <2>5
<1> QED BY <1>4, <1>5 DEF GoneInv

\* An end keeps both, or is noted as missed.
LEMMA EndKeeps ==
  ASSUME TypeInv, LogInv, RowInv, GoneInv, NEW e \in log, HearDeleted(e)
  PROVE  RowInv' /\ GoneInv'
<1> USE BillingAssumption
<1>1. /\ e.kind = "deleted" /\ row' = Canceled(row, e) /\ acked' = acked \cup {e}
      /\ missed' = (missed \/ (row.sub # e.sub /\ row.water < e.at))
      /\ log' = log /\ time' = time
  BY DEF HearDeleted
<1>2. /\ e.at \in Nat \ {0} /\ e.at <= time /\ e.sub \in Subs /\ time \in Nat
      /\ row.water \in Nat /\ row.water <= time /\ gone \subseteq Subs
  BY DEF TypeInv, BillingTypeOK, BillingRow, Event, LogInv
<1>3. CASE row.sub = e.sub /\ Applies(row, e.at)
  <2>1. row'.sub = None /\ row'.water = NextWater(row, e.at) /\ gone' = gone \cup {e.sub}
    BY <1>1, <1>3 DEF Canceled, HearDeleted
  <2>2. /\ row'.water >= e.at /\ row'.water \in Nat \ {0} /\ row.water <= row'.water
        /\ row'.water <= time
        /\ row'.water = time => e.at = time
    BY <1>2, <1>3, <2>1 DEF NextWater, Applies
  <2>3. \A m \in log : m.at = time =>
          /\ row'.water = time => m = e
          /\ m \in acked' /\ ~missed' => row'.water = time
    <3> SUFFICES ASSUME NEW m \in log, m.at = time
                 PROVE  /\ row'.water = time => m = e
                        /\ m \in acked' /\ ~missed' => row'.water = time
      OBVIOUS
    <3>1. row'.water = time => m = e
      BY <2>2 DEF LogInv
    <3>2. CASE m = e
      BY <1>2, <2>2, <3>1, <3>2
    <3>3. CASE m # e
      <4>1. m \in acked' /\ ~missed' => m \in acked /\ ~missed
        BY <1>1, <3>3
      <4>2. m \in acked /\ ~missed => row.water = time
        BY DEF RowInv
      <4> QED BY <1>2, <2>2, <3>1, <4>1, <4>2
    <3> QED BY <3>2, <3>3
  <2>4. RowInv'
    BY <1>1, <2>1, <2>2, <2>3 DEF RowInv, Knows
  <2>5. GoneInv'
    BY <1>1, <1>2, <2>1, <2>2 DEF GoneInv, LogInv, TypeInv, BillingTypeOK, Event
  <2> QED BY <2>4, <2>5
<1>4. CASE ~(row.sub = e.sub /\ Applies(row, e.at))
  <2>1. row' = row /\ gone' = gone
    BY <1>1, <1>4 DEF Canceled, HearDeleted
  <2>2. \A m \in log : m.at = time /\ m \in acked' /\ ~missed' => row.water = time
    <3> SUFFICES ASSUME NEW m \in log, m.at = time, m \in acked', ~missed'
                 PROVE  row.water = time
      OBVIOUS
    <3>1. ~missed /\ ~(row.sub # e.sub /\ row.water < e.at)
      BY <1>1
    <3>2. CASE m \in acked
      BY <3>1, <3>2 DEF RowInv
    <3>3. CASE m = e
      BY <1>2, <1>4, <3>1, <3>3 DEF Applies
    <3> QED BY <1>1, <3>2, <3>3
  <2>3. RowInv'
    BY <1>1, <2>1, <2>2 DEF RowInv, Knows
  <2>4. GoneInv'
    BY <1>1, <2>1 DEF GoneInv
  <2> QED BY <2>3, <2>4
<1> QED BY <1>3, <1>4

\* A change at Stripe outdates the row.
LEMMA ChangeKeeps ==
  ASSUME TypeInv, LogInv, RowInv, GoneInv, NEW n, NEW state, Sends(n, state)
  PROVE  RowInv' /\ GoneInv'
<1>1. /\ log' = log \cup {n} /\ time' = time + 1 /\ time \in Nat
      /\ UNCHANGED <<acked, row, gone, missed>>
      /\ row.water \in Nat /\ row.water <= time
      /\ acked \subseteq log /\ n.at = time + 1
  BY DEF Sends, TypeInv, BillingTypeOK, BillingRow
<1>2. \A m \in log : m.at <= time /\ m.at \in Nat
  BY DEF LogInv, TypeInv, BillingTypeOK, Event
<1>3. \A m \in log' : m.at = time' => m \notin acked'
  BY <1>1, <1>2
<1>4. row'.water # time'
  BY <1>1
<1>5. RowInv'
  BY <1>1, <1>3, <1>4 DEF RowInv
<1>6. GoneInv'
  BY <1>1 DEF GoneInv
<1> QED BY <1>5, <1>6

\* Every step keeps what the row means.
LEMMA RowStep ==
  ASSUME TypeInv, LogInv, LifeInv, TaskInv, RowInv, GoneInv, [Next]_vars
  PROVE  RowInv' /\ GoneInv'
<1>1. CASE StripeMoves
  <2>1. PICK n, state : Sends(n, state)
    BY <1>1 DEF StripeMoves, Completes, Modifies, Cancels
  <2> QED BY <2>1, ChangeKeeps
<1>2. ASSUME UNCHANGED <<time, log, acked, row, gone, missed>>
      PROVE  RowInv' /\ GoneInv'
  BY <1>2 DEF RowInv, GoneInv, Knows
<1>3. ASSUME NEW s \in Subs, Checkout(s) PROVE RowInv' /\ GoneInv'
  BY <1>2, <1>3 DEF Checkout
<1>4. ASSUME NEW e \in log, HearUpdated(e) PROVE RowInv' /\ GoneInv'
  <2>1. Writes(e, e.at) /\ e.kind # "deleted"
    BY <1>4, UpdateWrites DEF HearUpdated
  <2> QED BY <1>4, <2>1, WriteKeeps DEF HearUpdated
<1>5. ASSUME NEW e \in log, HearDeleted(e) PROVE RowInv' /\ GoneInv'
  BY <1>5, EndKeeps
<1>6. ASSUME NEW e \in log, NEW h \in Handlers, HearCompleted(h, e) \/ Confirm(h, e)
      PROVE  RowInv' /\ GoneInv'
  BY <1>2, <1>6 DEF HearCompleted, Confirm
<1>7. ASSUME NEW h \in Handlers, Activate(h) PROVE RowInv' /\ GoneInv'
  <2>1. /\ task[h].event \in log /\ task[h].event.kind # "deleted"
        /\ Writes(task[h].event, task[h].event.at)
    BY <1>7, HandlerWrites
  <2>2. /\ acked' \subseteq acked \cup {task[h].event}
        /\ UNCHANGED <<time, log, gone, missed>>
    BY <1>7 DEF Activate
  <2> QED BY <2>1, <2>2, WriteKeeps
<1>8. ASSUME NEW h \in Handlers, CallFails(h) PROVE RowInv' /\ GoneInv'
  BY <1>2, <1>8 DEF CallFails
<1>9. CASE UNCHANGED vars
  BY <1>2, <1>9 DEF vars
<1> QED BY <1>1, <1>3, <1>4, <1>5, <1>6, <1>7, <1>8, <1>9, Moves DEF Handlers

-----------------------------------------------------------------------------
(* The theorems.                                                             *)

IInv ==
  /\ TypeInv
  /\ LogInv
  /\ LifeInv
  /\ AloneInv
  /\ TaskInv
  /\ RowInv
  /\ GoneInv

\* The inductive invariant holds at first.
LEMMA InitInv == Init => IInv
<1> SUFFICES ASSUME Init PROVE IInv
  OBVIOUS
<1> USE BillingAssumption
<1>1. PICK p \in Plans :
        stripe = [s \in Subs |-> [status |-> None, plan |-> p, created |-> 0]]
  BY DEF Init
<1>2. stripe \in [Subs -> AtStripe]
  BY <1>1 DEF AtStripe
<1>3. row \in BillingRow /\ row.water = 0 /\ row.sub = None
  BY DEF Init, BillingRow
<1>4. task \in [Handlers -> Task \cup {None}] /\ \A h \in Handlers : task[h] = None
  BY DEF Init
<1>5. log = {} /\ acked = {} /\ opened = {} /\ gone = {} /\ time = 0
  BY DEF Init
<1>6. missed = FALSE /\ doubled = FALSE
  BY DEF Init
<1>7. \A s \in Subs : ~Alive(s)
  BY <1>1 DEF Alive, AliveStatuses
<1>8. TypeInv
  <2>1. time \in 0 .. MaxTime /\ row.water <= time
    BY <1>3, <1>5
  <2> QED BY <2>1, <1>2, <1>3, <1>4, <1>5, <1>6 DEF TypeInv, BillingTypeOK
<1>9. LogInv /\ LifeInv /\ AloneInv
  BY <1>5, <1>7 DEF LogInv, LifeInv, AloneInv
<1>10. TaskInv /\ RowInv /\ GoneInv
  BY <1>3, <1>4, <1>5 DEF TaskInv, RowInv, GoneInv
<1> QED BY <1>8, <1>9, <1>10 DEF IInv

\* It is inductive.
THEOREM AlwaysKnown == Spec => []IInv
<1>1. IInv /\ [Next]_vars => IInv'
  BY TypeStep, LogStep, LifeStep, AloneStep, TaskStep, RowStep DEF IInv
<1> QED BY <1>1, InitInv, PTL DEF Spec

\* Types, and no stamp from the future.
THEOREM BillingTypesCorrect == Spec => []BillingTypeOK
<1>1. IInv => BillingTypeOK
  BY DEF IInv, TypeInv
<1> QED BY <1>1, AlwaysKnown, PTL

\* What has ended stays out of the row.
THEOREM EndedNeverCounts == Spec => []EndedStaysOut
<1>1. IInv => EndedStaysOut
  BY DEF IInv, GoneInv, EndedStaysOut
<1> QED BY <1>1, AlwaysKnown, PTL

\* Once all is answered the row tells what Stripe knows.
THEOREM RowIsTrue == Spec => []RowTellsStripe
<1>1. ASSUME IInv, Settled, ~missed, ~doubled
      PROVE  /\ \A s \in Subs : Alive(s) =>
                  /\ row.sub = s /\ row.status = stripe[s].status
                  /\ stripe[s].plan \in Listed => Effective(row) = stripe[s].plan
             /\ (\A s \in Subs : ~Alive(s)) => Effective(row) = Free
  <2>1. CASE time = 0
    <3>1. \A e \in log : e.at >= 1 /\ e.at <= time /\ e.at \in Nat
      BY <1>1 DEF IInv, TypeInv, BillingTypeOK, LogInv, Event
    <3>2. log = {}
      BY <2>1, <3>1
    <3>3. \A s \in Subs : ~Alive(s)
      BY <1>1, <3>2 DEF IInv, LifeInv
    <3>4. row.water = 0
      BY <1>1, <2>1 DEF IInv, TypeInv, BillingTypeOK, BillingRow
    <3>5. Effective(row) = Free
      BY <1>1, <3>4 DEF IInv, RowInv, Effective, HasLive
    <3> QED BY <3>3, <3>5
  <2>2. CASE time > 0
    <3>1. PICK m \in log : m.at = time
      BY <1>1, <2>2 DEF IInv, LogInv
    <3>2. m \in acked
      BY <1>1 DEF Settled
    <3>3. Knows(row, m)
      BY <1>1, <3>1, <3>2 DEF IInv, RowInv
    <3>4. /\ stripe[m.sub].status = m.status /\ stripe[m.sub].plan = m.plan
          /\ m.kind # "deleted" => m.status \in AliveStatuses
      BY <1>1, <3>1 DEF IInv, LogInv
    <3>5. CASE m.kind = "deleted"
      <4>1. \A s \in Subs : ~Alive(s)
        BY <1>1, <3>1, <3>5 DEF IInv, AloneInv
      <4>2. Effective(row) = Free
        BY <3>3, <3>5 DEF Knows, Effective, HasLive
      <4> QED BY <4>1, <4>2
    <3>6. CASE m.kind # "deleted"
      <4>1. m.sub \in Subs /\ Alive(m.sub)
        BY <1>1, <3>4, <3>6 DEF Alive, IInv, TypeInv, BillingTypeOK, Event
      <4>2. \A s \in Subs : Alive(s) => s = m.sub
        BY <1>1, <4>1 DEF IInv, AloneInv
      <4>3. /\ row.sub = m.sub /\ row.status = m.status
            /\ m.plan \in Listed => row.plan = m.plan
        BY <3>3, <3>6 DEF Knows
      <4>4. m.sub # None /\ m.status # "canceled" /\ Listed \subseteq Plans
        BY <3>4, <3>6, <4>1, BillingAssumption DEF AliveStatuses
      <4>5. m.plan \in Listed => Effective(row) = m.plan
        BY <4>3, <4>4 DEF Effective, HasLive
      <4> QED BY <3>4, <4>1, <4>2, <4>3, <4>5
    <3> QED BY <3>5, <3>6
  <2> QED BY <1>1, <2>1, <2>2 DEF IInv, TypeInv, BillingTypeOK
<1>2. IInv => RowTellsStripe
  BY <1>1 DEF RowTellsStripe
<1> QED BY <1>2, AlwaysKnown, PTL
===============================================================================
