------------------------------- MODULE OwnPosts -------------------------------
(***************************************************************************)
(* How the posts of one user come into own_posts                           *)
(* (webhook/src/handler.ts, server/src/desk/ownPostCatchUp.ts,             *)
(* ownPostSeen.ts, ownPostStore.ts).  The webhook process is told of every *)
(* post by X; the server process reads the newest posts when the desk asks *)
(* (catch-up) and hears from the extension what was just sent (a sighting, *)
(* to be confirmed by either).  The two processes share the tables and     *)
(* interleave between statements; within one, only an await lets another   *)
(* handler in.                                                             *)
(***************************************************************************)
EXTENDS Integers, FiniteSets, FiniteSetsExt

CONSTANTS
  MaxPosts,   \* bound: posts sent, 1 .. MaxPosts in that order
  CatchUps,   \* catch-up requests
  Sighted,    \* the posts the extension reports; the desk is told of these
  Batch,      \* posts a catch-up reads (OWN_POST_CATCH_UP_MAX_RESULTS)
  Limit,      \* posts a day the plan allows (PLAN_DAILY_ACTIVITY_EVENTS)
  MaxDay,     \* bound: days
  MaxDeaths,  \* bound: deaths of a process
  MaxTurns,   \* bound: deaths and turns of the day together
  Alongside,  \* bound: posts there are once one has been reported
  None        \* no post in hand, not seen, not told

Posts == 1 .. MaxPosts

ASSUME OwnPostsAssumption ==
  /\ MaxPosts \in Nat /\ MaxDay \in Nat \ {0} /\ MaxDeaths \in Nat
  /\ MaxTurns \in Nat /\ Alongside \in Nat
  /\ Sighted \subseteq Posts
  /\ Batch \in Nat \ {0} /\ Limit \in Nat \ {0}
  /\ None \notin Int \cup {"provisional", "flagged", "confirmed"}

VARIABLES
  today,      \* the UTC day
  sent,       \* posts sent on X so far
  day,        \* the day of each
  deleted,    \* posts deleted on X
  credits,    \* the month's credits are not exhausted
  own,        \* own_posts
  known,      \* activity_event_ids: post.create of these posts
  buried,     \* activity_event_ids: post.delete of these posts
  charged,    \* usage events of each post
  webhook,    \* the handler running in the webhook process
  pausing,    \* pauses whose DELETE at X is awaited
  until,      \* paused_until, a day
  task,       \* each catch-up
  seen,       \* extension_seen_posts
  aged,       \* sightings older than OWN_POST_CONFIRM_WINDOW_MS
  sweep,      \* where the confirm sweep is
  picked,     \* the posts it is about to publish
  wakes,      \* wakes on their way from the webhook to the server
  told,       \* the last the desk was told of each post
  deaths,     \* deaths so far
  ever,       \* history: posts that were in own_posts
  dropped,    \* history: posts in the hand of a process when it died
  out,        \* history: deletions nothing in flight can undo
  overlapped, \* history: two handlers past their checks stored at a time
  slipped     \* history: flagged posts the sweep confirmed and did not publish

vars == <<today, sent, day, deleted, credits, own, known, buried, charged,
          webhook, pausing, until, task, seen, aged, sweep, wakes, told, deaths,
          picked, ever, dropped, out, overlapped, slipped>>
atX == <<sent, day, deleted>>
meter == <<today, credits>>
keys == <<known, buried>>
desk == <<seen, aged, sweep, picked, wakes, told, slipped>>
faults == <<deaths, dropped>>

Never == MaxDay + 1   \* the first of next month lies beyond the run
Idle == [step |-> "idle", queue |-> {}, used |-> 0, post |-> None]

(***************************************************************************)
(* What both processes read.                                               *)
(***************************************************************************)
(* countOwnPostsSince(startOfUtcDay) *)
UsedToday == Cardinality({p \in own : day[p] = today})

(* dailyActivityUsage *)
CanWatch == UsedToday < Limit

(* activitySubscriptionPaused *)
Paused == until > today

(* catchUpGate *)
GateOpen == ~Paused /\ credits /\ CanWatch

(* GET /users/:id/tweets: the newest posts that still stand. *)
Newest ==
  LET standing == (1 .. sent) \ deleted
  IN {p \in standing : Cardinality({q \in standing : q > p}) < Batch}

Turns == today - 1 + deaths   \* bounded by MaxTurns

(* The server runs one handler at a time, from await to await: none while  *)
(* the sweep is at it or another catch-up has a post in hand.              *)
Free == sweep = "idle" /\ \A c \in CatchUps : task[c].step # "remember"

PastGate(c) == task[c].step \in {"store", "remember"}

InFlight(p) ==
  \/ webhook.post = p
  \/ \E c \in CatchUps : p \in task[c].queue \/ task[c].post = p

Init ==
  /\ today = 1 /\ sent = 0 /\ day = [p \in Posts |-> 0] /\ deleted = {}
  /\ credits = TRUE
  /\ own = {} /\ known = {} /\ buried = {}
  /\ charged = [p \in Posts |-> 0]
  /\ webhook = [step |-> "idle", post |-> None]
  /\ pausing = {} /\ until = 0
  /\ task = [c \in CatchUps |-> Idle]
  /\ seen = [p \in Sighted |-> None]
  /\ aged = {} /\ sweep = "idle" /\ picked = {} /\ wakes = {}
  /\ told = [p \in Sighted |-> None]
  /\ deaths = 0 /\ ever = {} /\ dropped = {} /\ out = {}
  /\ overlapped = FALSE /\ slipped = {}

(***************************************************************************)
(* The user and the clock.                                                 *)
(***************************************************************************)
Post ==
  /\ sent < MaxPosts /\ (sent < Alongside \/ \A p \in Sighted : seen[p] = None)
  /\ sent' = sent + 1
  /\ day' = [day EXCEPT ![sent + 1] = today]
  /\ UNCHANGED <<meter, deleted, own, keys, charged, webhook, pausing, until,
                 task, desk, faults, ever, out, overlapped>>

Delete(p) ==
  /\ p \in (1 .. sent) \ deleted
  /\ deleted' = deleted \cup {p}
  /\ UNCHANGED <<meter, sent, day, own, keys, charged, webhook, pausing, until,
                 task, desk, faults, ever, out, overlapped>>

NextDay ==
  /\ today < MaxDay /\ Turns < MaxTurns
  /\ today' = today + 1
  /\ UNCHANGED <<credits, atX, own, keys, charged, webhook, pausing, until, task,
                 desk, faults, ever, out, overlapped>>

SpendCredits ==
  /\ credits
  /\ credits' = FALSE
  /\ UNCHANGED <<today, atX, own, keys, charged, webhook, pausing, until, task,
                 desk, faults, ever, out, overlapped>>

(* What could go wrong: a repeated event is taken for a new one. *)
HearCreateAgain(p) ==
  /\ webhook.step = "idle"
  /\ p \in 1 .. sent
  /\ credits /\ CanWatch
  /\ webhook' = [step |-> "remember", post |-> p]
  /\ UNCHANGED <<meter, atX, own, keys, charged, pausing, until, task, desk,
                 faults, ever, out, overlapped>>

(***************************************************************************)
(* The webhook (handleActivityPost).                                       *)
(***************************************************************************)
(* post.create comes, for the first time or again.  A duplicate is         *)
(* answered; a user without credits or allowance is paused and the event   *)
(* is not remembered.                                                      *)
HearCreate(p) ==
  /\ webhook.step = "idle"
  /\ p \in 1 .. sent /\ p \notin known
  /\ IF credits /\ CanWatch
     THEN /\ webhook' = [step |-> "remember", post |-> p]
          /\ UNCHANGED pausing
     ELSE /\ pausing' = pausing \cup {IF credits THEN today + 1 ELSE Never}
          /\ UNCHANGED webhook
  /\ UNCHANGED <<meter, atX, own, keys, charged, until, task, desk, faults, ever,
                 out, overlapped>>

Remember ==
  /\ webhook.step = "remember"
  /\ known' = known \cup {webhook.post}
  /\ webhook' = [webhook EXCEPT !.step = "store"]
  /\ UNCHANGED <<meter, atX, own, buried, charged, pausing, until, task, desk,
                 faults, ever, out, overlapped>>

(* upsertOwnPost, the wake, the usage event and the pause of a user who    *)
(* has used the day up.                                                    *)
Store ==
  LET p == webhook.post IN
  /\ webhook.step = "store"
  /\ own' = own \cup {p}
  /\ ever' = ever \cup {p}
  /\ wakes' = wakes \cup ({p} \cap Sighted)
  /\ charged' = [charged EXCEPT ![p] = @ + 1]
  /\ pausing' = IF Cardinality({q \in own' : day[q] = today}) >= Limit
                THEN pausing \cup {today + 1} ELSE pausing
  /\ overlapped' = (overlapped \/ \E c \in CatchUps : PastGate(c))
  /\ slipped' = IF sweep = "selected" /\ p \in Sighted /\ seen[p] = "flagged"
                THEN slipped \cup {p} ELSE slipped
  /\ webhook' = [step |-> "idle", post |-> None]
  /\ UNCHANGED <<meter, atX, keys, until, task, seen, aged, sweep, picked, told,
                 faults, out>>

(* pauseUserSubscription: written after X has answered the DELETEs. *)
WritePause(d) ==
  /\ d \in pausing
  /\ until' = d
  /\ pausing' = pausing \ {d}
  /\ UNCHANGED <<meter, atX, own, keys, charged, webhook, task, desk, faults,
                 ever, out, overlapped>>

(* post.delete comes.  `out` keeps what no later event may bring back: it  *)
(* was stored, and no handler holds the post.                              *)
HearDelete(p) ==
  /\ webhook.step = "idle"
  /\ p \in deleted /\ p \notin buried
  /\ own' = own \ {p}
  /\ buried' = buried \cup {p}
  /\ out' = IF p \in own \ dropped /\ ~InFlight(p) THEN out \cup {p} ELSE out
  /\ UNCHANGED <<meter, atX, known, charged, webhook, pausing, until, task, desk,
                 faults, ever, overlapped>>

WebhookDies ==
  /\ deaths < MaxDeaths /\ Turns < MaxTurns
  /\ webhook.step # "idle"
  /\ deaths' = deaths + 1
  /\ dropped' = dropped \cup {webhook.post}
  /\ webhook' = [step |-> "idle", post |-> None]
  /\ pausing' = {}
  /\ UNCHANGED <<meter, atX, own, keys, charged, until, task, desk, ever, out,
                 overlapped>>

(***************************************************************************)
(* Catch-up (catchUpOwnPosts).                                             *)
(***************************************************************************)
Ask(c) ==
  /\ task[c].step = "idle" /\ Free
  /\ GateOpen
  /\ task' = [task EXCEPT ![c] = [Idle EXCEPT !.step = "asked", !.used = UsedToday]]
  /\ UNCHANGED <<meter, atX, own, keys, charged, webhook, pausing, until, desk,
                 faults, ever, out, overlapped>>

(* X looks, and answers later. *)
Look(c) ==
  /\ task[c].step = "asked"
  /\ task' = [task EXCEPT ![c].step = "looked", ![c].queue = Newest]
  /\ UNCHANGED <<meter, atX, own, keys, charged, webhook, pausing, until, desk,
                 faults, ever, out, overlapped>>

ReadFails(c) ==
  /\ task[c].step \in {"asked", "looked"}
  /\ task' = [task EXCEPT ![c] = Idle]
  /\ UNCHANGED <<meter, atX, own, keys, charged, webhook, pausing, until, desk,
                 faults, ever, out, overlapped>>

(* What could go wrong: what was used before the read still counts. *)
HearReadBefore(c) ==
  /\ task[c].step = "looked" /\ Free
  /\ task' = [task EXCEPT ![c].step = "store"]
  /\ UNCHANGED <<meter, atX, own, keys, charged, webhook, pausing, until, desk,
                 faults, ever, out, overlapped>>

(* The answer comes: the gate is asked again. *)
HearRead(c) ==
  /\ task[c].step = "looked" /\ Free
  /\ task' = [task EXCEPT ![c] =
       IF GateOpen THEN [@ EXCEPT !.step = "store", !.used = UsedToday] ELSE Idle]
  /\ UNCHANGED <<meter, atX, own, keys, charged, webhook, pausing, until, desk,
                 faults, ever, out, overlapped>>

(* The next post, oldest first: one that is stored is passed over, the     *)
(* loop ends with the allowance.                                           *)
StoreNext(c) ==
  LET t == task[c] IN
  /\ t.step = "store" /\ Free
  /\ t.queue # {} /\ t.used < Limit
  /\ LET p == Min(t.queue) IN
     IF p \in own
     THEN /\ task' = [task EXCEPT ![c].queue = @ \ {p}]
          /\ UNCHANGED <<own, ever, overlapped>>
     ELSE /\ own' = own \cup {p}
          /\ ever' = ever \cup {p}
          /\ overlapped' = (overlapped \/ webhook.step # "idle"
                              \/ \E d \in CatchUps \ {c} : PastGate(d))
          /\ task' = [task EXCEPT ![c] = [step |-> "remember", queue |-> t.queue \ {p},
                                          used |-> t.used + 1, post |-> p]]
  /\ UNCHANGED <<meter, atX, keys, charged, webhook, pausing, until, desk, faults,
                 out>>

(* What could go wrong: what was caught up is not remembered. *)
RememberNothing(c) ==
  /\ task[c].step = "remember"
  /\ told' = [p \in Sighted |-> IF p = task[c].post THEN "post" ELSE told[p]]
  /\ task' = [task EXCEPT ![c].step = "store", ![c].post = None]
  /\ UNCHANGED <<meter, atX, own, keys, charged, webhook, pausing, until, seen,
                 aged, sweep, picked, wakes, faults, ever, out, overlapped,
                 slipped>>

(* The post is remembered and published; the mark is awaited before the    *)
(* next one.                                                               *)
RememberNext(c) ==
  /\ task[c].step = "remember"
  /\ known' = known \cup {task[c].post}
  /\ told' = [p \in Sighted |-> IF p = task[c].post THEN "post" ELSE told[p]]
  /\ task' = [task EXCEPT ![c].step = "store", ![c].post = None]
  /\ UNCHANGED <<meter, atX, own, buried, charged, webhook, pausing, until, seen,
                 aged, sweep, picked, wakes, faults, ever, out, overlapped,
                 slipped>>

Finish(c) ==
  /\ task[c].step = "store" /\ Free
  /\ task[c].queue = {} \/ task[c].used >= Limit
  /\ task' = [task EXCEPT ![c] = Idle]
  /\ UNCHANGED <<meter, atX, own, keys, charged, webhook, pausing, until, desk,
                 faults, ever, out, overlapped>>

Overdue == {p \in aged : seen[p] = "provisional"}

(* A death of the server between two statements: what the sweep has        *)
(* confirmed and not yet published is never published, and a row may be    *)
(* flagged that the desk is not told of.                                   *)
ServerDies ==
  /\ deaths < MaxDeaths /\ Turns < MaxTurns
  /\ sweep # "idle" \/ \E c \in CatchUps : task[c].step # "idle"
  /\ deaths' = deaths + 1
  /\ task' = [c \in CatchUps |-> Idle]
  /\ dropped' = dropped \cup {p \in Posts : \E c \in CatchUps : task[c].post = p}
  /\ sweep' = "idle"
  /\ picked' = {}
  /\ slipped' = IF sweep = "confirmed" THEN slipped \cup picked ELSE slipped
  /\ \/ UNCHANGED seen
     \/ /\ sweep = "confirmed" /\ picked = {}
        /\ \E p \in Overdue : seen' = [seen EXCEPT ![p] = "flagged"]
  /\ UNCHANGED <<meter, atX, own, keys, charged, webhook, pausing, until, aged,
                 wakes, told, ever, out, overlapped>>

(***************************************************************************)
(* Sightings and the desk.                                                 *)
(***************************************************************************)
(* POST /api/desk/events/wake reaches the server, or does not. *)
Wake(p) ==
  /\ p \in wakes /\ Free
  /\ wakes' = wakes \ {p}
  /\ \/ told' = [told EXCEPT ![p] = "post"]
     \/ UNCHANGED told
  /\ UNCHANGED <<meter, atX, own, keys, charged, webhook, pausing, until, task,
                 seen, aged, sweep, picked, faults, ever, out, overlapped,
                 slipped>>

(* recordSeenOwnPost: INSERT OR IGNORE, and the desk is told of a new one. *)
Sight(p) ==
  /\ p \in Sighted /\ p <= sent /\ sent <= Alongside /\ Free
  /\ seen[p] = None
  /\ seen' = [seen EXCEPT ![p] = IF p \in own THEN "confirmed" ELSE "provisional"]
  /\ told' = IF p \in own THEN told ELSE [told EXCEPT ![p] = "provisional"]
  /\ UNCHANGED <<meter, atX, own, keys, charged, webhook, pausing, until, task,
                 aged, sweep, picked, wakes, faults, ever, out, overlapped,
                 slipped>>

(* Ten minutes pass. *)
Age(p) ==
  /\ seen[p] = "provisional" /\ p \notin aged
  /\ aged' = aged \cup {p}
  /\ UNCHANGED <<meter, atX, own, keys, charged, webhook, pausing, until, task,
                 seen, sweep, picked, wakes, told, faults, ever, out,
                 overlapped, slipped>>

Open(p) == seen[p] \in {"provisional", "flagged"}

(* What could go wrong: the desk is told of those it still waits for. *)
SelectProvisional ==
  /\ Free
  /\ sweep' = "selected"
  /\ picked' = {p \in Sighted : seen[p] = "provisional" /\ p \in own}
  /\ UNCHANGED <<meter, atX, own, keys, charged, webhook, pausing, until, task,
                 seen, aged, wakes, told, faults, ever, out, overlapped, slipped>>

(* settleSeenOwnPosts: the posts X brought after the desk was told they    *)
(* are unconfirmed are selected.                                           *)
Select ==
  /\ Free
  /\ sweep' = "selected"
  /\ picked' = {p \in Sighted : seen[p] = "flagged" /\ p \in own}
  /\ UNCHANGED <<meter, atX, own, keys, charged, webhook, pausing, until, task,
                 seen, aged, wakes, told, faults, ever, out, overlapped, slipped>>

(* Every sighting whose post is stored is confirmed.  One stored between   *)
(* the two statements is confirmed and not published: the desk has only    *)
(* the webhook's wake for it.                                              *)
Confirm ==
  /\ sweep = "selected"
  /\ sweep' = "confirmed"
  /\ seen' = [p \in Sighted |-> IF Open(p) /\ p \in own THEN "confirmed" ELSE seen[p]]
  /\ UNCHANGED <<meter, atX, own, keys, charged, webhook, pausing, until, task,
                 aged, picked, wakes, told, faults, ever, out, overlapped, slipped>>

(* The selected ones are published, one by one.                            *)
Publish(p) ==
  /\ sweep = "confirmed" /\ p \in picked
  /\ told' = [told EXCEPT ![p] = "post"]
  /\ picked' = picked \ {p}
  /\ UNCHANGED <<meter, atX, own, keys, charged, webhook, pausing, until, task,
                 seen, aged, sweep, wakes, faults, ever, out, overlapped, slipped>>

(* The overdue are flagged and the desk is told. *)
Flag ==
  /\ sweep = "confirmed" /\ picked = {}
  /\ sweep' = "idle"
  /\ seen' = [p \in Sighted |-> IF p \in Overdue THEN "flagged" ELSE seen[p]]
  /\ told' = [p \in Sighted |-> IF p \in Overdue THEN "unconfirmed" ELSE told[p]]
  /\ UNCHANGED <<meter, atX, own, keys, charged, webhook, pausing, until, task,
                 aged, wakes, picked, faults, ever, out, overlapped, slipped>>

WebhookNext ==
  \/ \E p \in Posts : HearCreate(p) \/ HearDelete(p)
  \/ Remember \/ Store \/ WebhookDies
  \/ \E d \in pausing : WritePause(d)

CatchUpNext ==
  \/ \E c \in CatchUps :
       Ask(c) \/ Look(c) \/ ReadFails(c) \/ HearRead(c) \/ StoreNext(c)
         \/ RememberNext(c) \/ Finish(c)
  \/ ServerDies

SightingNext ==
  \/ \E p \in Sighted : Wake(p) \/ Sight(p) \/ Age(p) \/ Publish(p)
  \/ Select \/ Confirm \/ Flag

Next ==
  \/ Post \/ NextDay \/ SpendCredits \/ \E p \in Posts : Delete(p)
  \/ WebhookNext \/ CatchUpNext \/ SightingNext

(* The clock goes on, the sweep runs every minute (setInterval), and what  *)
(* awaits nothing is run to its end.  X owes nothing: it may never         *)
(* deliver, and a catch-up may never be asked.                             *)
Fairness ==
  /\ \A p \in Sighted : WF_vars(Age(p)) /\ WF_vars(Publish(p))
  /\ WF_vars(Select)
  /\ WF_vars(Confirm)
  /\ WF_vars(Flag)
  /\ \A c \in CatchUps : WF_vars(RememberNext(c))

Spec == Init /\ [][Next]_vars /\ Fairness
-------------------------------------------------------------------------------
(***************************************************************************)
(* Properties.                                                             *)
(***************************************************************************)
Task == [step : {"idle", "asked", "looked", "store", "remember"},
         queue : SUBSET Posts, used : Nat, post : Posts \cup {None}]

(* Types, and that who holds a post is at the step that holds one. *)
OwnTypeOK ==
  /\ today \in 1 .. MaxDay /\ sent \in 0 .. MaxPosts /\ credits \in BOOLEAN
  /\ day \in [Posts -> 0 .. MaxDay]
  /\ deleted \subseteq 1 .. sent /\ own \subseteq 1 .. sent
  /\ known \subseteq 1 .. sent /\ buried \subseteq deleted
  /\ charged \in [Posts -> Nat]
  /\ webhook \in [step : {"idle", "remember", "store"}, post : Posts \cup {None}]
  /\ pausing \subseteq 2 .. Never /\ until \in 0 .. Never
  /\ task \in [CatchUps -> Task]
  /\ \A c \in CatchUps : task[c].post = None <=> task[c].step # "remember"
  /\ seen \in [Sighted -> {None, "provisional", "flagged", "confirmed"}]
  /\ aged \subseteq Sighted /\ sweep \in {"idle", "selected", "confirmed"}
  /\ picked \subseteq Sighted /\ wakes \subseteq Sighted
  /\ told \in [Sighted -> {None, "provisional", "post", "unconfirmed"}]

(* A post is metered once, however often X delivers it, in whatever order  *)
(* with a catch-up, and although the webhook may die anywhere              *)
(* (handler.ts:212, 242).                                                  *)
ChargedOnce == \A p \in Posts : charged[p] <= 1

(* A post whose create is remembered was stored: one turned away by the    *)
(* allowance can still come in later (handler.ts:230).  Only the death of  *)
(* the webhook between the two statements loses one.                       *)
KnownWasStored ==
  \A p \in known : p \in ever \cup dropped \/ (webhook.step = "store" /\ webhook.post = p)

(* A deleted post stays out of the analytics: once the deletion of a       *)
(* stored post was heard with no catch-up holding it, no redelivery and no *)
(* catch-up stores it again (handler.ts:193, ownPostCatchUp.ts:108).       *)
DeletedStaysOut == out \cap own = {}

(* The plan's daily allowance is only passed by the two processes, or two  *)
(* catch-ups, storing at a time: one alone asks again after every await    *)
(* (ownPostCatchUp.ts:92).                                                 *)
AllowanceKept == overlapped \/ UsedToday <= Limit

(* A confirmed sighting is a post that X did bring. *)
ConfirmedWasStored == \A p \in Sighted : seen[p] = "confirmed" => p \in ever

(* Once a sighting is confirmed the desk is not told otherwise, though the *)
(* report is repeated and a deletion is heard (ownPostSeen.ts:82).         *)
ConfirmedStands ==
  [][\A p \in Sighted : seen[p] = "confirmed" =>
       seen'[p] = "confirmed" /\ told'[p] \in {told[p], "post"}]_vars

(* Every sighting is confirmed or flagged in the end, over restarts        *)
(* (ownPostSeen.ts:168).                                                   *)
SightingSettles == \A p \in Sighted : seen[p] = "provisional" ~> seen[p] # "provisional"

(* A desk that was told a post is unconfirmed hears of it when X brings it *)
(* after all, whenever that is and over restarts: but for a post stored    *)
(* between the two statements of the sweep, and one whose confirmation the *)
(* server wrote before it died and had not published, which no later sweep *)
(* selects (ownPostSeen.ts:129, 132 and 142).                              *)
FlagIsCorrected ==
  \A p \in Sighted : seen[p] = "flagged" /\ p \in own
       ~> told[p] = "post" \/ p \notin own \/ p \in slipped

(* A sighting is settled in the end, over restarts and late events, and a  *)
(* flag raised too early is taken back.                                    *)
SightingsEnd == SightingSettles /\ FlagIsCorrected
===============================================================================
