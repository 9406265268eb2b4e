---------------------------- MODULE OwnPostsProofs ----------------------------
(***************************************************************************)
(* Proofs about OwnPosts, for any number of posts, catch-ups, days and     *)
(* deaths: a post is metered once, a remembered post was stored, a deleted *)
(* one stays out, and one handler at a time keeps the daily allowance.     *)
(***************************************************************************)
EXTENDS OwnPosts, FiniteSetTheorems, WellFoundedInduction, TLAPS

-----------------------------------------------------------------------------
(* Data.                                                                     *)

\* A set of posts that is not empty has an oldest one.
LEMMA OldestPost ==
  ASSUME NEW S \in SUBSET Posts, S # {}
  PROVE  Min(S) \in S
<1> DEFINE R == OpToRel(<, Nat)
<1>1. S \subseteq Nat
  BY OwnPostsAssumption DEF Posts
<1>2. PICK x \in S : \A y \in S : ~(<<y, x>> \in R)
  BY <1>1, NatLessThanWellFounded, WFMin
<1>3. \A y \in S : ~(y < x)
  BY <1>1, <1>2 DEF OpToRel
<1>4. \A y \in S : x =< y
  BY <1>1, <1>3
<1> QED BY <1>4 DEF Min

\* The posts stored today are finitely many.
LEMMA UsedIsCounted ==
  ASSUME NEW S \in SUBSET Posts
  PROVE  IsFiniteSet(S) /\ Cardinality(S) \in Nat
<1>1. IsFiniteSet(Posts)
  BY OwnPostsAssumption, FS_Interval DEF Posts
<1>2. IsFiniteSet(S)
  BY <1>1, FS_Subset
<1> QED BY <1>2, FS_CardinalityType

-----------------------------------------------------------------------------
(* Types.                                                                    *)

(* A catch-up holds posts that were sent, and one at the step that holds one. *)
GoodTask(t, n) ==
  /\ t \in Task
  /\ t.queue \subseteq 1 .. n
  /\ t.post # None => t.post \in 1 .. n
  /\ t.post = None <=> t.step # "remember"

TasksOK ==
  /\ task \in [CatchUps -> Task]
  /\ \A c \in CatchUps : GoodTask(task[c], sent)

(* The rest of the types, and the same of the webhook. *)
SharedOK ==
  /\ today \in 1 .. MaxDay /\ sent \in 0 .. MaxPosts /\ credits \in BOOLEAN
  /\ day \in [Posts -> 0 .. MaxDay]
  /\ deleted \subseteq 1 .. sent /\ own \subseteq 1 .. sent
  /\ known \subseteq 1 .. sent /\ buried \subseteq deleted
  /\ charged \in [Posts -> Nat]
  /\ webhook \in [step : {"idle", "remember", "store"}, post : Posts \cup {None}]
  /\ webhook.step = "idle" <=> webhook.post = None
  /\ webhook.post # None => webhook.post \in 1 .. sent
  /\ pausing \subseteq 2 .. Never /\ until \in 0 .. Never
  /\ seen \in [Sighted -> {None, "provisional", "flagged", "confirmed"}]
  /\ aged \subseteq Sighted /\ sweep \in {"idle", "selected", "confirmed"}
  /\ picked \subseteq Sighted /\ wakes \subseteq Sighted
  /\ told \in [Sighted -> {None, "provisional", "post", "unconfirmed"}]

TypeInv == SharedOK /\ TasksOK

\* The types of the module follow.
LEMMA TypeInvIsTypes ==
  ASSUME TypeInv PROVE OwnTypeOK
<1>1. \A c \in CatchUps : task[c].post = None <=> task[c].step # "remember"
  BY DEF TypeInv, TasksOK, GoodTask
<1>2. task \in [CatchUps -> Task]
  BY DEF TypeInv, TasksOK
<1> QED BY <1>1, <1>2 DEF TypeInv, SharedOK, OwnTypeOK

\* Any part of what is stored is finite.
LEMMA UsedIsTyped ==
  ASSUME SharedOK
  PROVE  UsedToday \in Nat
<1>1. own \subseteq Posts
  BY OwnPostsAssumption DEF SharedOK, Posts
<1> DEFINE S == {p \in own : day[p] = today}
<1>2. S \in SUBSET Posts
  BY <1>1
<1>3. Cardinality(S) \in Nat
  BY <1>2, UsedIsCounted
<1> QED BY <1>3 DEF UsedToday

\* A pause ends tomorrow or lasts the month.
LEMMA PauseDays ==
  ASSUME SharedOK
  PROVE  today + 1 \in 2 .. Never /\ Never \in 2 .. Never
BY OwnPostsAssumption DEF SharedOK, Never

\* Nothing is awaited first.
LEMMA InitTyped == Init => TypeInv
<1> SUFFICES ASSUME Init PROVE TypeInv
  OBVIOUS
<1> USE OwnPostsAssumption
<1>1. Idle \in Task /\ GoodTask(Idle, 0)
  BY DEF GoodTask, Task, Idle
<1>2. TasksOK
  BY <1>1 DEF Init, TasksOK
<1>3. webhook \in [step : {"idle", "remember", "store"}, post : Posts \cup {None}]
  BY DEF Init
<1>4. day \in [Posts -> 0 .. MaxDay] /\ charged \in [Posts -> Nat]
  BY DEF Init
<1>5. webhook.step = "idle" /\ webhook.post = None
  BY DEF Init
<1>6. today \in 1 .. MaxDay /\ sent \in 0 .. MaxPosts /\ until \in 0 .. Never
  BY DEF Init, Never
<1> QED BY <1>2, <1>3, <1>4, <1>5, <1>6 DEF TypeInv, SharedOK, Init

\* Every step keeps the types of what the handlers share.
LEMMA SharedTypeStep ==
  ASSUME TypeInv, [Next]_vars
  PROVE  SharedOK'
<1> USE OwnPostsAssumption DEF TypeInv, SharedOK
<1>1. CASE Post
  <2>1. /\ sent < MaxPosts /\ sent' = sent + 1 /\ day' = [day EXCEPT ![sent + 1] = today]
        /\ UNCHANGED <<meter, deleted, own, keys, charged, webhook, pausing, until, desk>>
    BY <1>1 DEF Post
  <2>2. sent' \in 0 .. MaxPosts /\ 1 .. sent \subseteq 1 .. sent'
    BY <2>1
  <2>3. day' \in [Posts -> 0 .. MaxDay]
    BY <2>1 DEF Posts
  <2> QED BY <2>1, <2>2, <2>3 DEF Never, meter, keys, desk
<1>2. CASE NextDay
  BY <1>2, PauseDays DEF Never, NextDay, atX, keys, desk, faults
<1>3. CASE SpendCredits
  BY <1>3 DEF Posts, SpendCredits, meter, atX, keys, desk, faults
<1>4. ASSUME NEW p \in Posts, Delete(p) PROVE SharedOK'
  BY <1>4 DEF Posts, Delete, meter, atX, keys, desk, faults
<1>5. ASSUME NEW p \in Posts, HearCreate(p) PROVE SharedOK'
  <2>1. pausing' \subseteq 2 .. Never
    BY <1>5, PauseDays DEF HearCreate
  <2>2. webhook' \in [step : {"idle", "remember", "store"}, post : Posts \cup {None}]
    BY <1>5 DEF HearCreate, Posts
  <2>3. webhook' = webhook \/ (webhook' = [step |-> "remember", post |-> p] /\ p \in 1 .. sent)
    BY <1>5 DEF HearCreate
  <2>4. UNCHANGED <<today, credits, sent, day, deleted, own, known, buried, charged, until, desk>>
    BY <1>5 DEF HearCreate, meter, atX, keys
  <2>5. None \notin 1 .. sent
    OBVIOUS
  <2>6. /\ webhook'.step = "idle" <=> webhook'.post = None
        /\ webhook'.post # None => webhook'.post \in 1 .. sent'
    BY <2>3, <2>4, <2>5
  <2> QED BY <2>1, <2>2, <2>4, <2>6 DEF desk
<1>6. ASSUME NEW p \in Posts, HearDelete(p) PROVE SharedOK'
  BY <1>6 DEF Posts, HearDelete, meter, atX, keys, desk, faults
<1>7. CASE Remember
  BY <1>7 DEF Posts, Remember, meter, atX, keys, desk, faults
<1>8. CASE Store
  <2>1. pausing' \subseteq 2 .. Never
    BY <1>8, PauseDays DEF Store
  <2>2. own' \subseteq 1 .. sent
    BY <1>8 DEF Store
  <2>3. charged' \in [Posts -> Nat]
    BY <1>8 DEF Store, Posts
  <2>4. wakes' \subseteq Sighted
    BY <1>8 DEF Store
  <2> QED BY <1>8, <2>1, <2>2, <2>3, <2>4 DEF Store, Posts, meter, atX, keys,
       desk, faults
<1>9. CASE WebhookDies
  BY <1>9 DEF Posts, WebhookDies, meter, atX, keys, desk, faults
<1>10. ASSUME NEW d \in pausing, WritePause(d) PROVE SharedOK'
  BY <1>10 DEF Posts, WritePause, meter, atX, keys, desk, faults
<1>11. ASSUME NEW c \in CatchUps, Ask(c) PROVE SharedOK'
  BY <1>11 DEF Posts, Ask, meter, atX, keys, desk, faults
<1>12. ASSUME NEW c \in CatchUps, Look(c) PROVE SharedOK'
  BY <1>12 DEF Posts, Look, meter, atX, keys, desk, faults
<1>13. ASSUME NEW c \in CatchUps, ReadFails(c) PROVE SharedOK'
  BY <1>13 DEF Posts, ReadFails, meter, atX, keys, desk, faults
<1>14. ASSUME NEW c \in CatchUps, HearRead(c) PROVE SharedOK'
  BY <1>14 DEF Posts, HearRead, meter, atX, keys, desk, faults
<1>15. ASSUME NEW c \in CatchUps, StoreNext(c) PROVE SharedOK'
  <2>1. task[c].queue \in SUBSET Posts /\ task[c].queue \subseteq 1 .. sent
    BY DEF TasksOK, GoodTask, Task
  <2>2. task[c].queue # {} => Min(task[c].queue) \in 1 .. sent
    BY <2>1, OldestPost
  <2> QED BY <1>15, <2>2 DEF StoreNext, meter, atX, keys, desk, faults
<1>16. ASSUME NEW c \in CatchUps, RememberNext(c) PROVE SharedOK'
  BY <1>16 DEF TasksOK, GoodTask, Posts, RememberNext, meter, atX, keys, desk,
       faults
<1>17. ASSUME NEW c \in CatchUps, Finish(c) PROVE SharedOK'
  BY <1>17 DEF Posts, Finish, meter, atX, keys, desk, faults
<1>18. CASE ServerDies
  BY <1>18 DEF Posts, ServerDies, meter, atX, keys, desk, faults
<1>19. ASSUME NEW p \in Sighted, Wake(p) PROVE SharedOK'
  BY <1>19 DEF Posts, Wake, meter, atX, keys, desk, faults
<1>20. ASSUME NEW p \in Sighted, Sight(p) PROVE SharedOK'
  BY <1>20 DEF Posts, Sight, meter, atX, keys, desk, faults
<1>21. ASSUME NEW p \in Sighted, Age(p) PROVE SharedOK'
  BY <1>21 DEF Posts, Age, meter, atX, keys, desk, faults
<1>22. CASE Select
  BY <1>22 DEF Posts, Select, meter, atX, keys, desk, faults
<1>23. CASE Confirm
  BY <1>23 DEF Posts, Confirm, meter, atX, keys, desk, faults
<1>24. CASE Flag
  BY <1>24 DEF Posts, Flag, meter, atX, keys, desk, faults
<1>25. ASSUME NEW p \in Sighted, Publish(p) PROVE SharedOK'
  BY <1>25 DEF Posts, Publish, meter, atX, keys, desk, faults
<1>26. CASE UNCHANGED vars
  BY <1>26 DEF Posts, vars, meter, atX, keys, desk, faults
<1> QED
  BY <1>1, <1>2, <1>3, <1>4, <1>5, <1>6, <1>7, <1>8, <1>9, <1>10, <1>11, <1>12,
       <1>13, <1>14, <1>15, <1>16, <1>17, <1>18, <1>19, <1>20, <1>21, <1>22,
       <1>23, <1>24, <1>25, <1>26 DEF Next, WebhookNext, CatchUpNext, SightingNext

\* A catch-up that goes on well typed leaves them so.
LEMMA TaskChange ==
  ASSUME TypeInv, NEW c \in CatchUps, NEW t, GoodTask(t, sent),
         task' = [task EXCEPT ![c] = t], sent' = sent
  PROVE  TasksOK'
BY DEF TypeInv, TasksOK, GoodTask

\* What a catch-up becomes.
LEMMA TaskMoves ==
  ASSUME NEW n \in 0 .. MaxPosts, NEW t, GoodTask(t, n), NEW k \in Nat,
         NEW Q \in SUBSET (1 .. n)
  PROVE  /\ GoodTask(Idle, n)
         /\ GoodTask([Idle EXCEPT !.step = "asked", !.used = k], n)
         /\ t.step = "asked" => GoodTask([t EXCEPT !.step = "looked", !.queue = Q], n)
         /\ t.step = "looked" => GoodTask([t EXCEPT !.step = "store", !.used = k], n)
         /\ t.step = "store" => GoodTask([t EXCEPT !.queue = Q], n)
         /\ GoodTask([t EXCEPT !.step = "store", !.post = None], n)
         /\ \A p \in 1 .. n :
              GoodTask([step |-> "remember", queue |-> Q, used |-> k, post |-> p], n)
<1> USE OwnPostsAssumption DEF GoodTask, Task, Idle, Posts
<1>1. GoodTask(Idle, n)
  OBVIOUS
<1>2. GoodTask([Idle EXCEPT !.step = "asked", !.used = k], n)
  OBVIOUS
<1>3. t.step = "asked" => GoodTask([t EXCEPT !.step = "looked", !.queue = Q], n)
  <2> SUFFICES ASSUME t.step = "asked"
               PROVE  GoodTask([t EXCEPT !.step = "looked", !.queue = Q], n)
    OBVIOUS
  <2> DEFINE u == [t EXCEPT !.step = "looked", !.queue = Q]
  <2>1. Q \in SUBSET Posts
    OBVIOUS
  <2>2. u.step = "looked" /\ u.queue = Q /\ u.used = t.used /\ u.post = t.post
    OBVIOUS
  <2>3. u \in Task
    BY <2>1
  <2> HIDE DEF u
  <2>4. GoodTask(u, n)
    BY <2>2, <2>3
  <2> QED BY <2>4 DEF u
<1>4. t.step = "looked" => GoodTask([t EXCEPT !.step = "store", !.used = k], n)
  OBVIOUS
<1>5. t.step = "store" => GoodTask([t EXCEPT !.queue = Q], n)
  OBVIOUS
<1>6. GoodTask([t EXCEPT !.step = "store", !.post = None], n)
  OBVIOUS
<1>7. ASSUME NEW p \in 1 .. n
      PROVE  GoodTask([step |-> "remember", queue |-> Q, used |-> k, post |-> p], n)
  BY <1>7
<1> HIDE DEF GoodTask
<1> QED BY <1>1, <1>2, <1>3, <1>4, <1>5, <1>6, <1>7

\* Every step keeps the types of the catch-ups.
LEMMA TaskTypeStep ==
  ASSUME TypeInv, [Next]_vars
  PROVE  TasksOK'
<1>1. CASE Post
  <2>1. sent' = sent + 1 /\ task' = task /\ sent \in Nat
    BY <1>1, OwnPostsAssumption DEF Post, TypeInv, SharedOK
  <2> QED BY <2>1 DEF TypeInv, TasksOK, GoodTask
<1>2. CASE NextDay
  BY <1>2 DEF TypeInv, TasksOK, NextDay, meter, atX, keys, desk, faults
<1>3. CASE SpendCredits
  BY <1>3 DEF TypeInv, TasksOK, SpendCredits, meter, atX, keys, desk, faults
<1>4. ASSUME NEW p \in Posts, Delete(p) PROVE TasksOK'
  BY <1>4 DEF TypeInv, TasksOK, Delete, meter, atX, keys, desk, faults
<1>5. ASSUME NEW p \in Posts, HearCreate(p) PROVE TasksOK'
  BY <1>5 DEF TypeInv, TasksOK, HearCreate, meter, atX, keys, desk, faults
<1>6. ASSUME NEW p \in Posts, HearDelete(p) PROVE TasksOK'
  BY <1>6 DEF TypeInv, TasksOK, HearDelete, meter, atX, keys, desk, faults
<1>7. CASE Remember
  BY <1>7 DEF TypeInv, TasksOK, Remember, meter, atX, keys, desk, faults
<1>8. CASE Store
  BY <1>8 DEF TypeInv, TasksOK, Store, meter, atX, keys, desk, faults
<1>9. CASE WebhookDies
  BY <1>9 DEF TypeInv, TasksOK, WebhookDies, meter, atX, keys, desk, faults
<1>10. ASSUME NEW d \in pausing, WritePause(d) PROVE TasksOK'
  BY <1>10 DEF TypeInv, TasksOK, WritePause, meter, atX, keys, desk, faults
<1>11. ASSUME NEW c \in CatchUps, Ask(c) PROVE TasksOK'
  <2>1. GoodTask(task[c], sent) /\ sent \in 0 .. MaxPosts
    BY DEF TypeInv, TasksOK, SharedOK
  <2>2. UsedToday \in Nat
    BY UsedIsTyped DEF TypeInv
  <2>3. PICK t : GoodTask(t, sent) /\ task' = [task EXCEPT ![c] = t] /\ sent' = sent
    BY <1>11, <2>1, <2>2, TaskMoves DEF Ask, meter, atX, keys, desk, faults
  <2> QED BY <2>3, TaskChange
<1>12. ASSUME NEW c \in CatchUps, Look(c) PROVE TasksOK'
  <2>1. GoodTask(task[c], sent) /\ sent \in 0 .. MaxPosts
    BY DEF TypeInv, TasksOK, SharedOK
  <2>2. Newest \in SUBSET (1 .. sent)
    BY DEF Newest
  <2>3. GoodTask([task[c] EXCEPT !.step = "looked", !.queue = Newest], sent)
    BY <1>12, <2>1, <2>2, TaskMoves DEF Look
  <2>4. task' = [task EXCEPT ![c] = [task[c] EXCEPT !.step = "looked", !.queue = Newest]]
    BY <1>12 DEF Look
  <2> QED BY <1>12, <2>3, <2>4, TaskChange DEF Look, atX
<1>13. ASSUME NEW c \in CatchUps, ReadFails(c) PROVE TasksOK'
  <2>1. GoodTask(task[c], sent) /\ sent \in 0 .. MaxPosts
    BY DEF TypeInv, TasksOK, SharedOK
  <2>2. UsedToday \in Nat
    BY UsedIsTyped DEF TypeInv
  <2>3. PICK t : GoodTask(t, sent) /\ task' = [task EXCEPT ![c] = t] /\ sent' = sent
    BY <1>13, <2>1, <2>2, TaskMoves DEF ReadFails, meter, atX, keys, desk, faults
  <2> QED BY <2>3, TaskChange
<1>14. ASSUME NEW c \in CatchUps, HearRead(c) PROVE TasksOK'
  <2>1. GoodTask(task[c], sent) /\ sent \in 0 .. MaxPosts
    BY DEF TypeInv, TasksOK, SharedOK
  <2>2. UsedToday \in Nat
    BY UsedIsTyped DEF TypeInv
  <2>3. PICK t : GoodTask(t, sent) /\ task' = [task EXCEPT ![c] = t] /\ sent' = sent
    BY <1>14, <2>1, <2>2, TaskMoves DEF HearRead, meter, atX, keys, desk, faults
  <2> QED BY <2>3, TaskChange
<1>15. ASSUME NEW c \in CatchUps, StoreNext(c) PROVE TasksOK'
  <2> DEFINE t == task[c]
             p == Min(t.queue)
  <2>1. GoodTask(t, sent) /\ sent \in 0 .. MaxPosts
    BY DEF TypeInv, TasksOK, SharedOK
  <2>2. p \in 1 .. sent /\ t.queue \ {p} \in SUBSET (1 .. sent)
    BY <1>15, <2>1, OldestPost DEF StoreNext, GoodTask, Task
  <2>3. t.step = "store" /\ t.used + 1 \in Nat
    BY <1>15, <2>1 DEF StoreNext, GoodTask, Task
  <2>4. GoodTask([t EXCEPT !.queue = t.queue \ {p}], sent)
    BY <2>1, <2>2, <2>3, TaskMoves
  <2>5. GoodTask([step |-> "remember", queue |-> t.queue \ {p},
                  used |-> t.used + 1, post |-> p], sent)
    BY <2>1, <2>2, <2>3, TaskMoves
  <2>6. \/ task' = [task EXCEPT ![c] = [t EXCEPT !.queue = t.queue \ {p}]]
        \/ task' = [task EXCEPT ![c] = [step |-> "remember", queue |-> t.queue \ {p},
                                        used |-> t.used + 1, post |-> p]]
    BY <1>15 DEF StoreNext
  <2> QED BY <1>15, <2>4, <2>5, <2>6, TaskChange DEF StoreNext, atX
<1>16. ASSUME NEW c \in CatchUps, RememberNext(c) PROVE TasksOK'
  <2>1. GoodTask(task[c], sent) /\ sent \in 0 .. MaxPosts
    BY DEF TypeInv, TasksOK, SharedOK
  <2>2. UsedToday \in Nat
    BY UsedIsTyped DEF TypeInv
  <2>3. PICK t : GoodTask(t, sent) /\ task' = [task EXCEPT ![c] = t] /\ sent' = sent
    BY <1>16, <2>1, <2>2, TaskMoves DEF RememberNext, meter, atX, keys, desk,
         faults
  <2> QED BY <2>3, TaskChange
<1>17. ASSUME NEW c \in CatchUps, Finish(c) PROVE TasksOK'
  <2>1. GoodTask(task[c], sent) /\ sent \in 0 .. MaxPosts
    BY DEF TypeInv, TasksOK, SharedOK
  <2>2. UsedToday \in Nat
    BY UsedIsTyped DEF TypeInv
  <2>3. PICK t : GoodTask(t, sent) /\ task' = [task EXCEPT ![c] = t] /\ sent' = sent
    BY <1>17, <2>1, <2>2, TaskMoves DEF Finish, meter, atX, keys, desk, faults
  <2> QED BY <2>3, TaskChange
<1>18. CASE ServerDies
  <2>1. GoodTask(Idle, sent) /\ Idle \in Task
    BY OwnPostsAssumption DEF GoodTask, Task, Idle
  <2> QED BY <1>18, <2>1 DEF ServerDies, TasksOK, atX
<1>19. ASSUME NEW p \in Sighted, Wake(p) PROVE TasksOK'
  BY <1>19 DEF TypeInv, TasksOK, Wake, meter, atX, keys, desk, faults
<1>20. ASSUME NEW p \in Sighted, Sight(p) PROVE TasksOK'
  BY <1>20 DEF TypeInv, TasksOK, Sight, meter, atX, keys, desk, faults
<1>21. ASSUME NEW p \in Sighted, Age(p) PROVE TasksOK'
  BY <1>21 DEF TypeInv, TasksOK, Age, meter, atX, keys, desk, faults
<1>22. CASE Select
  BY <1>22 DEF TypeInv, TasksOK, Select, meter, atX, keys, desk, faults
<1>23. CASE Confirm
  BY <1>23 DEF TypeInv, TasksOK, Confirm, meter, atX, keys, desk, faults
<1>24. CASE Flag
  BY <1>24 DEF TypeInv, TasksOK, Flag, meter, atX, keys, desk, faults
<1>25. ASSUME NEW p \in Sighted, Publish(p) PROVE TasksOK'
  BY <1>25 DEF TypeInv, TasksOK, Publish, meter, atX, keys, desk, faults
<1>26. CASE UNCHANGED vars
  BY <1>26 DEF TypeInv, TasksOK, vars, meter, atX, keys, desk, faults
<1> QED
  BY <1>1, <1>2, <1>3, <1>4, <1>5, <1>6, <1>7, <1>8, <1>9, <1>10, <1>11, <1>12,
       <1>13, <1>14, <1>15, <1>16, <1>17, <1>18, <1>19, <1>20, <1>21, <1>22,
       <1>23, <1>24, <1>25, <1>26 DEF Next, WebhookNext, CatchUpNext, SightingNext

\* Every step keeps the types.
LEMMA TypeStep ==
  ASSUME TypeInv, [Next]_vars
  PROVE  TypeInv'
BY SharedTypeStep, TaskTypeStep DEF TypeInv

\* Types, whatever the constants.
THEOREM OwnTypesCorrect == Spec => []OwnTypeOK
<1>1. Init => TypeInv
  BY InitTyped
<1>2. TypeInv /\ [Next]_vars => TypeInv'
  BY TypeStep
<1>3. TypeInv => OwnTypeOK
  BY TypeInvIsTypes
<1> QED BY <1>1, <1>2, <1>3, PTL DEF Spec

-----------------------------------------------------------------------------
(* Metering.                                                                 *)

(* A metered post is remembered, and one in the hand of the webhook is not   *)
(* metered yet.                                                              *)
ChargeInv ==
  /\ \A p \in Posts : charged[p] = 0 \/ (charged[p] = 1 /\ p \in known)
  /\ webhook.step # "idle" => charged[webhook.post] = 0
  /\ webhook.step = "store" => webhook.post \in known

\* Every step keeps it.
LEMMA ChargeStep ==
  ASSUME TypeInv, ChargeInv, [Next]_vars
  PROVE  ChargeInv'
<1> USE OwnPostsAssumption
<1> DEFINE Quiet ==
       \/ Post
       \/ NextDay
       \/ SpendCredits
       \/ (\E p \in Posts : Delete(p))
       \/ (\E p \in Posts : HearDelete(p))
       \/ (\E d \in pausing : WritePause(d))
       \/ (\E c \in CatchUps : Ask(c))
       \/ (\E c \in CatchUps : Look(c))
       \/ (\E c \in CatchUps : ReadFails(c))
       \/ (\E c \in CatchUps : HearRead(c))
       \/ (\E c \in CatchUps : StoreNext(c))
       \/ (\E c \in CatchUps : Finish(c))
       \/ ServerDies
       \/ (\E p \in Sighted : Wake(p))
       \/ (\E p \in Sighted : Sight(p))
       \/ (\E p \in Sighted : Age(p))
       \/ Select
       \/ Confirm
       \/ (\E p \in Sighted : Publish(p))
       \/ Flag
       \/ UNCHANGED vars
<1>1. Quiet => UNCHANGED <<known, charged, webhook>>
  BY DEF Post, NextDay, SpendCredits, Delete, HearDelete, WritePause, Ask, Look,
       ReadFails, HearRead, StoreNext, Finish, ServerDies, Wake, Sight, Age,
       Select, Confirm, Publish, Flag, vars, meter, atX, keys, desk, faults
<1>2. ASSUME Quiet PROVE ChargeInv'
  BY <1>1, <1>2 DEF ChargeInv
<1>3. ASSUME NEW p \in Posts, HearCreate(p) PROVE ChargeInv'
  BY <1>3 DEF TypeInv, SharedOK, ChargeInv, Posts, HearCreate, meter, atX, keys,
       desk, faults
<1>4. CASE Remember
  BY <1>4 DEF TypeInv, SharedOK, ChargeInv, Posts, Remember, meter, atX, keys,
       desk, faults
<1>5. CASE Store
  BY <1>5 DEF TypeInv, SharedOK, ChargeInv, Posts, Store, meter, atX, keys, desk,
       faults
<1>6. CASE WebhookDies
  BY <1>6 DEF TypeInv, SharedOK, ChargeInv, Posts, WebhookDies, meter, atX, keys,
       desk, faults
<1>7. ASSUME NEW c \in CatchUps, RememberNext(c) PROVE ChargeInv'
  BY <1>7 DEF TypeInv, SharedOK, ChargeInv, Posts, RememberNext, meter, atX, keys,
       desk, faults
<1> QED
  BY <1>2, <1>3, <1>4, <1>5, <1>6, <1>7 DEF Next, WebhookNext, CatchUpNext,
       SightingNext

\* A post is metered once.
THEOREM PostsChargedOnce == Spec => []ChargedOnce
<1>1. Init => TypeInv /\ ChargeInv
  BY InitTyped DEF Init, ChargeInv
<1>2. TypeInv /\ ChargeInv /\ [Next]_vars => TypeInv' /\ ChargeInv'
  BY TypeStep, ChargeStep
<1>3. ChargeInv => ChargedOnce
  BY DEF ChargeInv, ChargedOnce
<1> QED BY <1>1, <1>2, <1>3, PTL DEF Spec

-----------------------------------------------------------------------------
(* What is stored, remembered and deleted.                                   *)

(* Who remembers a post has stored it or is about to; who stored one         *)
(* remembers it, is about to or died.                                        *)
StoreInv ==
  /\ own \subseteq ever
  /\ KnownWasStored
  /\ \A c \in CatchUps : task[c].post # None => task[c].post \in ever
  /\ webhook.step = "store" => webhook.post \in known
  /\ \A p \in own : p \in known \cup dropped \/ \E c \in CatchUps : task[c].post = p

(* What nothing can bring back.                                              *)
OutInv == \A p \in out : p \notin own /\ p \in known /\ p \in deleted /\ ~InFlight(p)

\* Every step keeps the first.
LEMMA StoreStep ==
  ASSUME TypeInv, StoreInv, [Next]_vars
  PROVE  StoreInv'
<1> USE OwnPostsAssumption
<1> DEFINE Quiet ==
       \/ Post
       \/ NextDay
       \/ SpendCredits
       \/ (\E p \in Posts : Delete(p))
       \/ (\E d \in pausing : WritePause(d))
       \/ (\E p \in Sighted : Wake(p))
       \/ (\E p \in Sighted : Sight(p))
       \/ (\E p \in Sighted : Age(p))
       \/ Select
       \/ Confirm
       \/ (\E p \in Sighted : Publish(p))
       \/ Flag
       \/ UNCHANGED vars
<1>1. Quiet => UNCHANGED <<own, ever, known, dropped, webhook, task>>
  BY DEF Post, NextDay, SpendCredits, Delete, WritePause, Wake, Sight, Age,
       Select, Confirm, Publish, Flag, vars, meter, atX, keys, desk, faults
<1>2. ASSUME Quiet PROVE StoreInv'
  BY <1>1, <1>2 DEF StoreInv, KnownWasStored
<1>3. ASSUME NEW p \in Posts, HearCreate(p) PROVE StoreInv'
  BY <1>3 DEF TypeInv, SharedOK, TasksOK, GoodTask, Task, StoreInv,
       KnownWasStored, Idle, Posts, HearCreate, meter, atX, keys, desk, faults
<1>4. ASSUME NEW p \in Posts, HearDelete(p) PROVE StoreInv'
  BY <1>4 DEF TypeInv, SharedOK, TasksOK, GoodTask, Task, StoreInv,
       KnownWasStored, Idle, Posts, HearDelete, meter, atX, keys, desk, faults
<1>5. CASE Remember
  BY <1>5 DEF TypeInv, SharedOK, TasksOK, GoodTask, Task, StoreInv,
       KnownWasStored, Idle, Posts, Remember, meter, atX, keys, desk, faults
<1>6. CASE Store
  BY <1>6 DEF TypeInv, SharedOK, TasksOK, GoodTask, Task, StoreInv,
       KnownWasStored, Idle, Posts, Store, meter, atX, keys, desk, faults
<1>7. CASE WebhookDies
  BY <1>7 DEF TypeInv, SharedOK, TasksOK, GoodTask, Task, StoreInv,
       KnownWasStored, Idle, Posts, WebhookDies, meter, atX, keys, desk, faults
<1>8. ASSUME NEW c \in CatchUps, Ask(c) PROVE StoreInv'
  BY <1>8 DEF TypeInv, SharedOK, TasksOK, GoodTask, Task, StoreInv,
       KnownWasStored, Idle, Posts, Ask, meter, atX, keys, desk, faults
<1>9. ASSUME NEW c \in CatchUps, Look(c) PROVE StoreInv'
  <2>1. \A d \in CatchUps : task'[d].post = task[d].post
    BY <1>9 DEF Look, TypeInv, TasksOK, Task
  <2>2. \A d \in CatchUps : \A p \in task'[d].queue : p \in task[d].queue \/ p \notin deleted
    BY <1>9 DEF Look, Newest, TypeInv, TasksOK, Task
  <2>3. UNCHANGED <<own, ever, known, dropped, webhook, out, deleted>>
    BY <1>9 DEF Look, atX, keys, faults
  <2> QED BY <2>1, <2>2, <2>3 DEF StoreInv, KnownWasStored
<1>10. ASSUME NEW c \in CatchUps, ReadFails(c) PROVE StoreInv'
  BY <1>10 DEF TypeInv, SharedOK, TasksOK, GoodTask, Task, StoreInv,
       KnownWasStored, Idle, Posts, ReadFails, meter, atX, keys, desk, faults
<1>11. ASSUME NEW c \in CatchUps, HearRead(c) PROVE StoreInv'
  BY <1>11 DEF TypeInv, SharedOK, TasksOK, GoodTask, Task, StoreInv,
       KnownWasStored, Idle, Posts, HearRead, meter, atX, keys, desk, faults
<1>12. ASSUME NEW c \in CatchUps, StoreNext(c) PROVE StoreInv'
  <2> DEFINE p == Min(task[c].queue)
  <2>1. p \in task[c].queue /\ p \in 1 .. sent /\ task[c].post = None /\ None \notin own
    BY <1>12, OldestPost DEF StoreNext, TypeInv, SharedOK, TasksOK, GoodTask, Task
  <2>2. CASE p \in own
    <3>1. \A d \in CatchUps : /\ task'[d].post = task[d].post
                             /\ task'[d].queue \subseteq task[d].queue
      BY <1>12, <2>2 DEF StoreNext, TypeInv, TasksOK, Task
    <3> QED BY <1>12, <2>2, <3>1 DEF StoreNext, StoreInv, KnownWasStored,
                                 atX, keys, faults
  <2>3. CASE p \notin own
    <3>1. task'[c].post = p /\ task'[c].queue \subseteq task[c].queue
      BY <1>12, <2>3 DEF StoreNext, TypeInv, TasksOK, Task
    <3>2. \A d \in CatchUps \ {c} : task'[d] = task[d]
      BY <1>12, <2>3 DEF StoreNext, TypeInv, TasksOK
    <3>3. own' = own \cup {p} /\ ever' = ever \cup {p}
      BY <1>12, <2>3 DEF StoreNext
    <3>4. UNCHANGED <<known, dropped, webhook, out, deleted>>
      BY <1>12 DEF StoreNext, atX, keys, faults
    <3> HIDE DEF p
    <3> QED BY <2>1, <3>1, <3>2, <3>3, <3>4 DEF StoreInv, KnownWasStored
  <2> QED BY <2>2, <2>3
<1>13. ASSUME NEW c \in CatchUps, RememberNext(c) PROVE StoreInv'
  BY <1>13 DEF TypeInv, SharedOK, TasksOK, GoodTask, Task, StoreInv,
       KnownWasStored, Idle, Posts, RememberNext, meter, atX, keys, desk, faults
<1>14. ASSUME NEW c \in CatchUps, Finish(c) PROVE StoreInv'
  BY <1>14 DEF TypeInv, SharedOK, TasksOK, GoodTask, Task, StoreInv,
       KnownWasStored, Idle, Posts, Finish, meter, atX, keys, desk, faults
<1>15. CASE ServerDies
  BY <1>15 DEF TypeInv, SharedOK, TasksOK, GoodTask, Task, StoreInv,
       KnownWasStored, Idle, Posts, ServerDies, meter, atX, keys, desk, faults
<1> QED
  BY <1>2, <1>3, <1>4, <1>5, <1>6, <1>7, <1>8, <1>9, <1>10, <1>11, <1>12, <1>13,
       <1>14, <1>15 DEF Next, WebhookNext, CatchUpNext, SightingNext

\* And the second.
LEMMA OutStep ==
  ASSUME TypeInv, StoreInv, OutInv, [Next]_vars
  PROVE  OutInv'
<1> USE OwnPostsAssumption
<1> DEFINE Quiet ==
       \/ Post
       \/ NextDay
       \/ SpendCredits
       \/ (\E d \in pausing : WritePause(d))
       \/ (\E p \in Sighted : Wake(p))
       \/ (\E p \in Sighted : Sight(p))
       \/ (\E p \in Sighted : Age(p))
       \/ Select
       \/ Confirm
       \/ (\E p \in Sighted : Publish(p))
       \/ Flag
       \/ UNCHANGED vars
<1>1. Quiet => UNCHANGED <<own, known, out, deleted, webhook, task>>
  BY DEF Post, NextDay, SpendCredits, WritePause, Wake, Sight, Age, Select,
       Confirm, Publish, Flag, vars, meter, atX, keys, desk, faults
<1>2. ASSUME Quiet PROVE OutInv'
  BY <1>1, <1>2 DEF OutInv, InFlight
<1>3. ASSUME NEW p \in Posts, HearCreate(p) PROVE OutInv'
  BY <1>3 DEF TypeInv, SharedOK, TasksOK, GoodTask, Task, StoreInv, OutInv,
       InFlight, Idle, Posts, HearCreate, meter, atX, keys, desk, faults
<1>4. ASSUME NEW p \in Posts, HearDelete(p) PROVE OutInv'
  BY <1>4 DEF TypeInv, SharedOK, TasksOK, GoodTask, Task, StoreInv, OutInv,
       InFlight, Idle, Posts, HearDelete, meter, atX, keys, desk, faults
<1>5. CASE Remember
  BY <1>5 DEF TypeInv, SharedOK, TasksOK, GoodTask, Task, StoreInv, OutInv,
       InFlight, Idle, Posts, Remember, meter, atX, keys, desk, faults
<1>6. CASE Store
  <2>1. \A p \in 1 .. sent : InFlight(p)' => InFlight(p)
    BY <1>6 DEF Store, InFlight, Idle, TypeInv, SharedOK
  <2>2. \A p \in out : p \in 1 .. sent /\ p # webhook.post
    BY DEF OutInv, InFlight, TypeInv, SharedOK
  <2> QED BY <1>6, <2>1, <2>2 DEF Store, OutInv, atX, keys, faults
<1>7. CASE WebhookDies
  <2>1. \A p \in 1 .. sent : InFlight(p)' => InFlight(p)
    BY <1>7 DEF WebhookDies, InFlight, Idle, TypeInv, SharedOK
  <2>2. \A p \in out : p \in 1 .. sent /\ p # webhook.post
    BY DEF OutInv, InFlight, TypeInv, SharedOK
  <2> QED BY <1>7, <2>1, <2>2 DEF WebhookDies, OutInv, atX, keys, faults
<1>8. ASSUME NEW c \in CatchUps, Ask(c) PROVE OutInv'
  BY <1>8 DEF TypeInv, SharedOK, TasksOK, GoodTask, Task, StoreInv, OutInv,
       InFlight, Idle, Posts, Ask, meter, atX, keys, desk, faults
<1>9. ASSUME NEW c \in CatchUps, Look(c) PROVE OutInv'
  <2>1. \A d \in CatchUps : task'[d].post = task[d].post
    BY <1>9 DEF Look, TypeInv, TasksOK, Task
  <2>2. \A d \in CatchUps : \A p \in task'[d].queue : p \in task[d].queue \/ p \notin deleted
    BY <1>9 DEF Look, Newest, TypeInv, TasksOK, Task
  <2>3. UNCHANGED <<own, ever, known, dropped, webhook, out, deleted>>
    BY <1>9 DEF Look, atX, keys, faults
  <2> QED BY <2>1, <2>2, <2>3 DEF OutInv, InFlight
<1>10. ASSUME NEW c \in CatchUps, ReadFails(c) PROVE OutInv'
  BY <1>10 DEF TypeInv, SharedOK, TasksOK, GoodTask, Task, StoreInv, OutInv,
       InFlight, Idle, Posts, ReadFails, meter, atX, keys, desk, faults
<1>11. ASSUME NEW c \in CatchUps, HearRead(c) PROVE OutInv'
  BY <1>11 DEF TypeInv, SharedOK, TasksOK, GoodTask, Task, StoreInv, OutInv,
       InFlight, Idle, Posts, HearRead, meter, atX, keys, desk, faults
<1>12. ASSUME NEW c \in CatchUps, StoreNext(c) PROVE OutInv'
  <2> DEFINE p == Min(task[c].queue)
  <2>1. p \in task[c].queue /\ p \in 1 .. sent /\ task[c].post = None /\ None \notin own
    BY <1>12, OldestPost DEF StoreNext, TypeInv, SharedOK, TasksOK, GoodTask, Task
  <2>2. CASE p \in own
    <3>1. \A d \in CatchUps : /\ task'[d].post = task[d].post
                             /\ task'[d].queue \subseteq task[d].queue
      BY <1>12, <2>2 DEF StoreNext, TypeInv, TasksOK, Task
    <3> QED BY <1>12, <2>2, <3>1 DEF StoreNext, OutInv, InFlight,
                                 atX, keys, faults
  <2>3. CASE p \notin own
    <3>1. task'[c].post = p /\ task'[c].queue \subseteq task[c].queue
      BY <1>12, <2>3 DEF StoreNext, TypeInv, TasksOK, Task
    <3>2. \A d \in CatchUps \ {c} : task'[d] = task[d]
      BY <1>12, <2>3 DEF StoreNext, TypeInv, TasksOK
    <3>3. own' = own \cup {p} /\ ever' = ever \cup {p}
      BY <1>12, <2>3 DEF StoreNext
    <3>4. UNCHANGED <<known, dropped, webhook, out, deleted>>
      BY <1>12 DEF StoreNext, atX, keys, faults
    <3> HIDE DEF p
    <3> QED BY <2>1, <3>1, <3>2, <3>3, <3>4 DEF OutInv, InFlight
  <2> QED BY <2>2, <2>3
<1>13. ASSUME NEW c \in CatchUps, RememberNext(c) PROVE OutInv'
  BY <1>13 DEF TypeInv, SharedOK, TasksOK, GoodTask, Task, StoreInv, OutInv,
       InFlight, Idle, Posts, RememberNext, meter, atX, keys, desk, faults
<1>14. ASSUME NEW c \in CatchUps, Finish(c) PROVE OutInv'
  BY <1>14 DEF TypeInv, SharedOK, TasksOK, GoodTask, Task, StoreInv, OutInv,
       InFlight, Idle, Posts, Finish, meter, atX, keys, desk, faults
<1>15. CASE ServerDies
  <2>1. \A p \in 1 .. sent : InFlight(p)' => InFlight(p)
    BY <1>15 DEF ServerDies, InFlight, Idle, TypeInv, SharedOK
  <2>2. \A p \in out : p \in 1 .. sent /\ p # webhook.post
    BY DEF OutInv, InFlight, TypeInv, SharedOK
  <2> QED BY <1>15, <2>1, <2>2 DEF ServerDies, OutInv, atX, keys, faults
<1>16. ASSUME NEW p \in Posts, Delete(p) PROVE OutInv'
  BY <1>16 DEF TypeInv, SharedOK, TasksOK, GoodTask, Task, StoreInv, OutInv,
       InFlight, Idle, Posts, Delete, meter, atX, keys, desk, faults
<1> QED
  BY <1>2, <1>3, <1>4, <1>5, <1>6, <1>7, <1>8, <1>9, <1>10, <1>11, <1>12, <1>13,
       <1>14, <1>15, <1>16 DEF Next, WebhookNext, CatchUpNext, SightingNext

\* Nothing is stored at first.
LEMMA InitStored == Init => StoreInv /\ OutInv
<1> SUFFICES ASSUME Init PROVE StoreInv /\ OutInv
  OBVIOUS
<1>1. \A c \in CatchUps : task[c].post = None
  BY DEF Init, Idle
<1> QED BY <1>1 DEF Init, StoreInv, KnownWasStored, OutInv

\* A remembered post was stored, but for a death.
THEOREM KnownPostsWereStored == Spec => []KnownWasStored
<1>1. Init => TypeInv /\ StoreInv
  BY InitTyped, InitStored
<1>2. TypeInv /\ StoreInv /\ [Next]_vars => TypeInv' /\ StoreInv'
  BY TypeStep, StoreStep
<1>3. StoreInv => KnownWasStored
  BY DEF StoreInv
<1> QED BY <1>1, <1>2, <1>3, PTL DEF Spec

\* A deleted post stays out.
THEOREM DeletedPostsStayOut == Spec => []DeletedStaysOut
<1>1. Init => TypeInv /\ StoreInv /\ OutInv
  BY InitTyped, InitStored
<1>2. TypeInv /\ StoreInv /\ OutInv /\ [Next]_vars => TypeInv' /\ StoreInv' /\ OutInv'
  BY TypeStep, StoreStep, OutStep
<1>3. OutInv => DeletedStaysOut
  BY DEF OutInv, DeletedStaysOut
<1> QED BY <1>1, <1>2, <1>3, PTL DEF Spec

-----------------------------------------------------------------------------
(* The daily allowance.                                                      *)

(* While no two handlers have stored at a time, who is past its check has    *)
(* counted all that is stored today.                                         *)
UsedInv ==
  /\ \A p \in Posts : day[p] <= today
  /\ ~overlapped =>
       /\ UsedToday <= Limit
       /\ webhook.step # "idle" => UsedToday < Limit
       /\ \A c \in CatchUps : PastGate(c) =>
            /\ UsedToday <= task[c].used /\ task[c].used <= Limit

\* More posts are not used by fewer, one more by at most one.
LEMMA UsedByOne ==
  ASSUME NEW S \in SUBSET Posts, NEW p \in Posts, NEW T \in SUBSET (S \cup {p})
  PROVE  /\ Cardinality(T) \in Nat /\ Cardinality(S) \in Nat
         /\ Cardinality(T) <= Cardinality(S) + 1
         /\ T \subseteq S => Cardinality(T) <= Cardinality(S)
<1>1. IsFiniteSet(S) /\ Cardinality(S) \in Nat
  BY UsedIsCounted
<1>2. IsFiniteSet(S \cup {p}) /\ Cardinality(S \cup {p}) \in Nat
  BY UsedIsCounted
<1>3. Cardinality(S \cup {p}) <= Cardinality(S) + 1
  <2>1. Cardinality(S \cup {p}) = IF p \in S THEN Cardinality(S) ELSE Cardinality(S) + 1
    BY <1>1, FS_AddElement
  <2> QED BY <1>1, <2>1
<1>4. Cardinality(T) <= Cardinality(S \cup {p}) /\ Cardinality(T) \in Nat
  BY <1>2, FS_Subset, UsedIsCounted
<1>5. T \subseteq S => Cardinality(T) <= Cardinality(S)
  BY <1>1, FS_Subset
<1> QED BY <1>1, <1>2, <1>3, <1>4, <1>5

\* What is used today, from one state to the next.
LEMMA UsedStep ==
  ASSUME TypeInv, TypeInv', day' = day, today' = today
  PROVE  /\ UsedToday \in Nat /\ UsedToday' \in Nat
         /\ own' \subseteq own => UsedToday' <= UsedToday
         /\ \A p \in Posts : own' = own \cup {p} => UsedToday' <= UsedToday + 1
<1> DEFINE S == {q \in own : day[q] = today}
           T == {q \in own' : day[q] = today}
<1>1. S \in SUBSET Posts /\ T \in SUBSET Posts
  <2>1. own \subseteq 1 .. sent /\ sent \in 0 .. MaxPosts
    BY DEF TypeInv, SharedOK
  <2>2. own' \subseteq 1 .. sent' /\ sent' \in 0 .. MaxPosts
    BY DEF TypeInv, SharedOK
  <2>3. own \subseteq Posts /\ own' \subseteq Posts
    BY <2>1, <2>2, OwnPostsAssumption DEF Posts
  <2> QED BY <2>3
<1>2. UsedToday = Cardinality(S) /\ UsedToday' = Cardinality(T)
  BY DEF UsedToday
<1>3. Cardinality(S) \in Nat /\ Cardinality(T) \in Nat
  BY <1>1, UsedIsCounted
<1>4. own' \subseteq own => T \subseteq S
  OBVIOUS
<1>5. \A p \in Posts : own' = own \cup {p} => T \in SUBSET (S \cup {p})
  OBVIOUS
<1> HIDE DEF S, T
<1>6. T \subseteq S => Cardinality(T) <= Cardinality(S)
  BY <1>1, UsedIsCounted, FS_Subset
<1>7. \A p \in Posts : own' = own \cup {p} => Cardinality(T) <= Cardinality(S) + 1
  BY <1>1, <1>5, UsedByOne
<1> QED BY <1>2, <1>3, <1>4, <1>6, <1>7

\* Every step keeps it.
LEMMA UsedInvStep ==
  ASSUME TypeInv, UsedInv, [Next]_vars
  PROVE  UsedInv'
<1> USE OwnPostsAssumption
<1> DEFINE Quiet ==
       \/ SpendCredits
       \/ (\E p \in Posts : Delete(p))
       \/ (\E d \in pausing : WritePause(d))
       \/ (\E p \in Sighted : Wake(p))
       \/ (\E p \in Sighted : Sight(p))
       \/ (\E p \in Sighted : Age(p))
       \/ Select
       \/ Confirm
       \/ (\E p \in Sighted : Publish(p))
       \/ Flag
       \/ UNCHANGED vars
<1>1. Quiet => UNCHANGED <<own, day, today, webhook, task, overlapped>>
  BY DEF SpendCredits, Delete, WritePause, Wake, Sight, Age, Select, Confirm,
       Publish, Flag, vars, meter, atX, keys, desk, faults
<1>2. ASSUME Quiet PROVE UsedInv'
  BY <1>1, <1>2 DEF UsedInv, UsedToday, PastGate
<1>3. ASSUME NEW p \in Posts, HearCreate(p) PROVE UsedInv'
  <2>1. UsedToday' = UsedToday
    BY <1>3 DEF HearCreate, UsedToday, meter, atX, keys, desk, faults
  <2>2. UsedToday \in Nat
    BY UsedIsTyped DEF TypeInv
  <2> QED BY <1>3, <2>1, <2>2 DEF HearCreate, UsedInv, PastGate, Idle, CanWatch,
       GateOpen,
             TypeInv, SharedOK, TasksOK, GoodTask, Task, meter, atX, keys, desk, faults
<1>4. CASE Remember
  <2>1. UsedToday' = UsedToday
    BY <1>4 DEF Remember, UsedToday, meter, atX, keys, desk, faults
  <2>2. UsedToday \in Nat
    BY UsedIsTyped DEF TypeInv
  <2> QED BY <1>4, <2>1, <2>2 DEF Remember, UsedInv, PastGate, Idle, CanWatch,
       GateOpen,
             TypeInv, SharedOK, TasksOK, GoodTask, Task, meter, atX, keys, desk, faults
<1>5. CASE WebhookDies
  <2>1. UsedToday' = UsedToday
    BY <1>5 DEF WebhookDies, UsedToday, meter, atX, keys, desk, faults
  <2>2. UsedToday \in Nat
    BY UsedIsTyped DEF TypeInv
  <2> QED BY <1>5, <2>1, <2>2 DEF WebhookDies, UsedInv, PastGate, Idle, CanWatch,
       GateOpen,
             TypeInv, SharedOK, TasksOK, GoodTask, Task, meter, atX, keys, desk, faults
<1>6. ASSUME NEW c \in CatchUps, Ask(c) PROVE UsedInv'
  <2>1. UsedToday' = UsedToday
    BY <1>6 DEF Ask, UsedToday, meter, atX, keys, desk, faults
  <2>2. UsedToday \in Nat
    BY UsedIsTyped DEF TypeInv
  <2> QED BY <1>6, <2>1, <2>2 DEF Ask, UsedInv, PastGate, Idle, CanWatch,
       GateOpen,
             TypeInv, SharedOK, TasksOK, GoodTask, Task, meter, atX, keys, desk, faults
<1>7. ASSUME NEW c \in CatchUps, Look(c) PROVE UsedInv'
  <2>1. UsedToday' = UsedToday
    BY <1>7 DEF Look, UsedToday, meter, atX, keys, desk, faults
  <2>2. UsedToday \in Nat
    BY UsedIsTyped DEF TypeInv
  <2> QED BY <1>7, <2>1, <2>2 DEF Look, UsedInv, PastGate, Idle, CanWatch,
       GateOpen,
             TypeInv, SharedOK, TasksOK, GoodTask, Task, meter, atX, keys, desk, faults
<1>8. ASSUME NEW c \in CatchUps, ReadFails(c) PROVE UsedInv'
  <2>1. UsedToday' = UsedToday
    BY <1>8 DEF ReadFails, UsedToday, meter, atX, keys, desk, faults
  <2>2. UsedToday \in Nat
    BY UsedIsTyped DEF TypeInv
  <2> QED BY <1>8, <2>1, <2>2 DEF ReadFails, UsedInv, PastGate, Idle, CanWatch,
       GateOpen,
             TypeInv, SharedOK, TasksOK, GoodTask, Task, meter, atX, keys, desk, faults
<1>9. ASSUME NEW c \in CatchUps, HearRead(c) PROVE UsedInv'
  <2>1. UsedToday' = UsedToday
    BY <1>9 DEF HearRead, UsedToday, meter, atX, keys, desk, faults
  <2>2. UsedToday \in Nat
    BY UsedIsTyped DEF TypeInv
  <2> QED BY <1>9, <2>1, <2>2 DEF HearRead, UsedInv, PastGate, Idle, CanWatch,
       GateOpen,
             TypeInv, SharedOK, TasksOK, GoodTask, Task, meter, atX, keys, desk, faults
<1>10. ASSUME NEW c \in CatchUps, RememberNext(c) PROVE UsedInv'
  <2>1. UsedToday' = UsedToday
    BY <1>10 DEF RememberNext, UsedToday, meter, atX, keys, desk, faults
  <2>2. UsedToday \in Nat
    BY UsedIsTyped DEF TypeInv
  <2> QED BY <1>10, <2>1, <2>2 DEF RememberNext, UsedInv, PastGate, Idle,
       CanWatch, GateOpen,
             TypeInv, SharedOK, TasksOK, GoodTask, Task, meter, atX, keys, desk, faults
<1>11. ASSUME NEW c \in CatchUps, Finish(c) PROVE UsedInv'
  <2>1. UsedToday' = UsedToday
    BY <1>11 DEF Finish, UsedToday, meter, atX, keys, desk, faults
  <2>2. UsedToday \in Nat
    BY UsedIsTyped DEF TypeInv
  <2> QED BY <1>11, <2>1, <2>2 DEF Finish, UsedInv, PastGate, Idle, CanWatch,
       GateOpen,
             TypeInv, SharedOK, TasksOK, GoodTask, Task, meter, atX, keys, desk, faults
<1>12. CASE ServerDies
  <2>1. UsedToday' = UsedToday
    BY <1>12 DEF ServerDies, UsedToday, meter, atX, keys, desk, faults
  <2>2. UsedToday \in Nat
    BY UsedIsTyped DEF TypeInv
  <2> QED BY <1>12, <2>1, <2>2 DEF ServerDies, UsedInv, PastGate, Idle, CanWatch,
       GateOpen,
             TypeInv, SharedOK, TasksOK, GoodTask, Task, meter, atX, keys, desk, faults
<1>13. CASE Post
  <2>1. \A p \in own : day'[p] = day[p]
    BY <1>13 DEF Post, TypeInv, SharedOK, Posts
  <2>2. own' = own /\ today' = today
    BY <1>13 DEF Post, meter
  <2>3. UsedToday' = UsedToday
    BY <2>1, <2>2 DEF UsedToday
  <2>4. \A p \in Posts : day'[p] <= today
    BY <1>13 DEF Post, TypeInv, SharedOK, Posts, UsedInv
  <2> QED BY <1>13, <2>2, <2>3, <2>4 DEF Post, UsedInv, PastGate
<1>14. CASE NextDay
  <2>1. \A p \in Posts : day'[p] <= today /\ day'[p] \in Int
    BY <1>14 DEF NextDay, atX, UsedInv, TypeInv, SharedOK
  <2>2. today' = today + 1 /\ own' = own /\ own \subseteq Posts /\ today \in Nat
    BY <1>14 DEF NextDay, TypeInv, SharedOK, Posts
  <2>3. {p \in own' : day'[p] = today'} = {}
    BY <2>1, <2>2
  <2>4. UsedToday' = 0
    BY <2>3, FS_EmptySet DEF UsedToday
  <2>5. \A c \in CatchUps : task[c].used \in Nat
    BY DEF TypeInv, TasksOK, GoodTask, Task
  <2> QED BY <1>14, <2>1, <2>2, <2>4, <2>5 DEF NextDay, UsedInv, PastGate
<1>15. CASE Store
  <2>1. own' = own \cup {webhook.post} /\ webhook.post \in Posts /\ webhook.step # "idle"
    BY <1>15 DEF Store, TypeInv, SharedOK, Posts
  <2>2. day' = day /\ today' = today /\ task' = task /\ webhook'.step = "idle"
    BY <1>15 DEF Store, atX, meter
  <2>3. /\ UsedToday \in Nat /\ UsedToday' \in Nat
        /\ UsedToday' <= UsedToday + 1
    BY <2>1, <2>2, UsedStep, TypeStep
  <2>4. ~overlapped' => ~overlapped /\ \A c \in CatchUps : ~PastGate(c)
    BY <1>15 DEF Store
  <2> QED BY <2>1, <2>2, <2>3, <2>4 DEF UsedInv, PastGate
<1>16. ASSUME NEW p \in Posts, HearDelete(p) PROVE UsedInv'
  <2>1. own' \subseteq own /\ day' = day /\ today' = today
    BY <1>16 DEF HearDelete, atX, meter
  <2>2. UsedToday \in Nat /\ UsedToday' \in Nat /\ UsedToday' <= UsedToday
    BY <2>1, UsedStep, TypeStep
  <2>3. task' = task /\ webhook' = webhook /\ overlapped' = overlapped
    BY <1>16 DEF HearDelete
  <2>4. \A c \in CatchUps : task[c].used \in Nat
    BY DEF TypeInv, TasksOK, GoodTask, Task
  <2> QED BY <2>1, <2>2, <2>3, <2>4 DEF UsedInv, PastGate
<1>17. ASSUME NEW c \in CatchUps, StoreNext(c) PROVE UsedInv'
  <2> DEFINE p == Min(task[c].queue)
  <2>1. p \in Posts
    BY <1>17, OldestPost DEF StoreNext, TypeInv, TasksOK, GoodTask, Task
  <2>2. /\ PastGate(c) /\ task[c].used < Limit /\ task[c].used \in Nat
        /\ day' = day /\ today' = today /\ webhook' = webhook
    BY <1>17 DEF StoreNext, PastGate, TypeInv, TasksOK, GoodTask, Task, atX, meter
  <2>3. /\ UsedToday \in Nat /\ UsedToday' \in Nat
        /\ own' \subseteq own => UsedToday' <= UsedToday
        /\ own' = own \cup {p} => UsedToday' <= UsedToday + 1
    BY <2>1, <2>2, UsedStep, TypeStep
  <2>4. CASE p \in own
    <3>1. /\ own' = own /\ overlapped' = overlapped
          /\ \A d \in CatchUps : /\ task'[d].used = task[d].used
                                 /\ task'[d].step = task[d].step
      BY <1>17, <2>4 DEF StoreNext, TypeInv, TasksOK, Task
    <3>2. UsedToday' <= UsedToday
      BY <2>3, <3>1
    <3>3. \A d \in CatchUps : task[d].used \in Nat
      BY DEF TypeInv, TasksOK, GoodTask, Task
    <3> HIDE DEF p
    <3> QED BY <2>2, <2>3, <3>1, <3>2, <3>3 DEF UsedInv, PastGate
  <2>5. CASE p \notin own
    <3>1. /\ own' = own \cup {p}
          /\ ~overlapped' => /\ ~overlapped /\ webhook.step = "idle"
                             /\ \A d \in CatchUps \ {c} : ~PastGate(d)
      BY <1>17, <2>5 DEF StoreNext
    <3>2. /\ task'[c].used = task[c].used + 1
          /\ \A d \in CatchUps \ {c} : task'[d] = task[d]
      BY <1>17, <2>5 DEF StoreNext, TypeInv, TasksOK
    <3>3. UsedToday' <= UsedToday + 1
      BY <2>3, <3>1
    <3> HIDE DEF p
    <3> QED BY <2>2, <2>3, <3>1, <3>2, <3>3, OwnPostsAssumption DEF UsedInv,
         PastGate
  <2> QED BY <2>4, <2>5
<1> QED
  BY <1>2, <1>3, <1>4, <1>5, <1>6, <1>7, <1>8, <1>9, <1>10, <1>11, <1>12, <1>13,
       <1>14, <1>15, <1>16, <1>17 DEF Next, WebhookNext, CatchUpNext, SightingNext

\* One handler at a time keeps the allowance.
THEOREM AllowanceIsKept == Spec => []AllowanceKept
<1>1. Init => UsedInv
  <2> SUFFICES ASSUME Init PROVE UsedInv
    OBVIOUS
  <2>1. {p \in own : day[p] = today} = {}
    BY DEF Init
  <2>2. UsedToday = 0
    BY <2>1, FS_EmptySet DEF UsedToday
  <2>3. \A c \in CatchUps : ~PastGate(c)
    BY DEF Init, PastGate, Idle
  <2>4. \A p \in Posts : day[p] <= today
    BY DEF Init
  <2>5. webhook.step = "idle"
    BY DEF Init
  <2> QED BY <2>2, <2>3, <2>4, <2>5, OwnPostsAssumption DEF UsedInv
<1>2. Init => TypeInv
  BY InitTyped
<1>3. TypeInv /\ UsedInv /\ [Next]_vars => TypeInv' /\ UsedInv'
  BY TypeStep, UsedInvStep
<1>4. UsedInv => AllowanceKept
  BY DEF UsedInv, AllowanceKept
<1> QED BY <1>1, <1>2, <1>3, <1>4, PTL DEF Spec

-----------------------------------------------------------------------------
(* Sightings.                                                                *)

\* What a step does to a confirmed sighting and what its desk was told.
LEMMA StandStep ==
  ASSUME TypeInv, [Next]_vars, NEW p \in Sighted, seen[p] = "confirmed"
  PROVE  seen'[p] = "confirmed" /\ told'[p] \in {told[p], "post"}
<1> DEFINE Stands == seen'[p] = "confirmed" /\ told'[p] \in {told[p], "post"}
<1> USE OwnPostsAssumption
<1> DEFINE Quiet ==
       \/ Post
       \/ NextDay
       \/ SpendCredits
       \/ (\E q \in Posts : Delete(q))
       \/ (\E q \in Posts : HearCreate(q))
       \/ (\E q \in Posts : HearDelete(q))
       \/ Remember
       \/ Store
       \/ WebhookDies
       \/ (\E d \in pausing : WritePause(d))
       \/ (\E c \in CatchUps : Ask(c))
       \/ (\E c \in CatchUps : Look(c))
       \/ (\E c \in CatchUps : ReadFails(c))
       \/ (\E c \in CatchUps : HearRead(c))
       \/ (\E c \in CatchUps : StoreNext(c))
       \/ (\E c \in CatchUps : Finish(c))
       \/ (\E q \in Sighted : Age(q))
       \/ Select
       \/ UNCHANGED vars
<1>1. Quiet => UNCHANGED <<seen, told>>
  BY DEF Post, NextDay, SpendCredits, Delete, HearCreate, HearDelete, Remember,
       Store, WebhookDies, WritePause, Ask, Look, ReadFails, HearRead, StoreNext,
       Finish, Age, Select, vars, meter, atX, keys, desk, faults
<1>2. ASSUME Quiet PROVE Stands
  BY <1>1, <1>2
<1>3. ASSUME NEW c \in CatchUps, RememberNext(c) PROVE Stands
  BY <1>3, seen[p] = "confirmed" DEF RememberNext, Open, TypeInv, SharedOK, meter,
       atX, keys, desk, faults
<1>4. ASSUME NEW q \in Sighted, Wake(q) PROVE Stands
  BY <1>4, seen[p] = "confirmed" DEF Wake, Open, TypeInv, SharedOK, meter, atX,
       keys, desk, faults
<1>5. ASSUME NEW q \in Sighted, Sight(q) PROVE Stands
  BY <1>5, seen[p] = "confirmed" DEF Sight, Open, TypeInv, SharedOK, meter, atX,
       keys, desk, faults
<1>6. ASSUME Confirm PROVE Stands
  BY <1>6, seen[p] = "confirmed" DEF Confirm, Open, TypeInv, SharedOK, meter, atX,
       keys, desk, faults
<1>7. ASSUME Flag PROVE Stands
  BY <1>7, seen[p] = "confirmed" DEF Flag, Overdue, Open, TypeInv, SharedOK, meter, atX,
       keys, desk, faults
<1>8. ASSUME NEW q \in Sighted, Publish(q) PROVE Stands
  BY <1>8, seen[p] = "confirmed" DEF Publish, TypeInv, SharedOK
<1>9. ASSUME ServerDies PROVE Stands
  BY <1>9, seen[p] = "confirmed" DEF ServerDies, Overdue, TypeInv, SharedOK
<1> HIDE DEF Stands
<1>10. \/ Quiet
      \/ (\E c \in CatchUps : RememberNext(c))
      \/ (\E q \in Sighted : Wake(q))
      \/ (\E q \in Sighted : Sight(q)) \/ Confirm \/ Flag
      \/ (\E q \in Sighted : Publish(q)) \/ ServerDies
  BY DEF Next, WebhookNext, CatchUpNext, SightingNext
<1> HIDE DEF Quiet
<1>11. Stands
  BY <1>2, <1>3, <1>4, <1>5, <1>6, <1>7, <1>8, <1>9, <1>10
<1> QED BY <1>11 DEF Stands

\* A confirmed sighting stands.
THEOREM ConfirmedSightingsStand == Spec => ConfirmedStands
<1>1. Init => TypeInv
  BY InitTyped
<1>2. TypeInv /\ [Next]_vars => TypeInv'
  BY TypeStep
<1>3. TypeInv /\ [Next]_vars =>
        [\A p \in Sighted : seen[p] = "confirmed" =>
           seen'[p] = "confirmed" /\ told'[p] \in {told[p], "post"}]_vars
  BY StandStep
<1> QED BY <1>1, <1>2, <1>3, PTL DEF Spec, ConfirmedStands

(* Only a post that was stored is confirmed.                                 *)
SeenInv == \A p \in Sighted : seen[p] = "confirmed" => p \in ever

\* Every step keeps it.
LEMMA SeenStep ==
  ASSUME TypeInv, StoreInv, SeenInv, [Next]_vars
  PROVE  SeenInv'
<1> DEFINE Quiet ==
       \/ Post
       \/ NextDay
       \/ SpendCredits
       \/ (\E p \in Posts : Delete(p))
       \/ (\E p \in Posts : HearCreate(p))
       \/ Remember
       \/ WebhookDies
       \/ (\E d \in pausing : WritePause(d))
       \/ (\E c \in CatchUps : Ask(c))
       \/ (\E c \in CatchUps : Look(c))
       \/ (\E c \in CatchUps : ReadFails(c))
       \/ (\E c \in CatchUps : HearRead(c))
       \/ (\E c \in CatchUps : RememberNext(c))
       \/ (\E c \in CatchUps : Finish(c))
       \/ (\E p \in Sighted : Publish(p))
       \/ (\E p \in Sighted : Wake(p))
       \/ (\E p \in Sighted : Age(p))
       \/ Select
       \/ UNCHANGED vars
<1>1. Quiet => UNCHANGED <<seen, ever, own>>
  BY DEF Post, NextDay, SpendCredits, Delete, HearCreate, Remember, WebhookDies,
       WritePause, Ask, Look, ReadFails, HearRead, RememberNext, Finish,
       Wake, Age, Publish, Select, vars, meter, atX, keys, desk, faults
<1>2. ASSUME Quiet PROVE SeenInv'
  BY <1>1, <1>2 DEF SeenInv
<1>3. CASE Store
  BY <1>3 DEF TypeInv, SharedOK, StoreInv, SeenInv, Store, meter, atX, keys, desk,
       faults
<1>4. ASSUME NEW p \in Posts, HearDelete(p) PROVE SeenInv'
  BY <1>4 DEF TypeInv, SharedOK, StoreInv, SeenInv, HearDelete, meter, atX, keys,
       desk, faults
<1>5. ASSUME NEW c \in CatchUps, StoreNext(c) PROVE SeenInv'
  BY <1>5 DEF TypeInv, SharedOK, StoreInv, SeenInv, StoreNext, meter, atX, keys,
       desk, faults
<1>6. ASSUME NEW p \in Sighted, Sight(p) PROVE SeenInv'
  BY <1>6 DEF TypeInv, SharedOK, StoreInv, SeenInv, Sight, meter, atX, keys, desk,
       faults
<1>7. CASE Confirm
  BY <1>7 DEF TypeInv, SharedOK, StoreInv, SeenInv, Confirm, meter, atX, keys,
       desk, faults
<1>8. CASE Flag
  BY <1>8 DEF TypeInv, SharedOK, StoreInv, SeenInv, Flag, Overdue, meter, atX, keys, desk,
       faults
<1>9. CASE ServerDies
  BY <1>9 DEF TypeInv, SharedOK, SeenInv, ServerDies, Overdue
<1> QED
  BY <1>2, <1>3, <1>4, <1>5, <1>6, <1>7, <1>8, <1>9 DEF Next, WebhookNext, CatchUpNext,
       SightingNext

\* A confirmed sighting is a post X brought.
THEOREM ConfirmedPostsWereStored == Spec => []ConfirmedWasStored
<1>1. Init => TypeInv /\ StoreInv /\ SeenInv
  <2>1. Init => \A p \in Sighted : seen[p] # "confirmed"
    BY OwnPostsAssumption DEF Init
  <2> QED BY <2>1, InitTyped, InitStored DEF SeenInv
<1>2. TypeInv /\ StoreInv /\ SeenInv /\ [Next]_vars => TypeInv' /\ StoreInv' /\ SeenInv'
  BY TypeStep, StoreStep, SeenStep
<1>3. SeenInv => ConfirmedWasStored
  BY DEF SeenInv, ConfirmedWasStored
<1> QED BY <1>1, <1>2, <1>3, PTL DEF Spec
===============================================================================
