--------------------------- MODULE ApproachProofs ---------------------------
(* Proofs about ApproachServer and ApproachDesk: the rows stay typed and in   *)
(* step with the task, detections are truthful, and no released card is       *)
(* served, for every set of cards, threads, stocks and presses; any number of *)
(* tabs is a desk the server's specification allows; and on a network that    *)
(* loses nothing one tab and the server agree.                                *)
EXTENDS ApproachDesk, SequenceTheorems, TLAPS

(* What every reachable state satisfies; the six conjuncts lean on one        *)
(* another, so they are proved together.                                      *)
IInv ==
  /\ TypeOK
  /\ RowsFollowTask
  /\ DetectedReplyWasSent
  /\ DetectedOriginalIsNewer
  /\ ServedCardIsNotReleased
  /\ PreviewFollowsTask

-----------------------------------------------------------------------------
(* The ladder.                                                                *)

(* The first card of a set of cards is one of them, or None when there is     *)
(* none: what `find` returns over tank and suggestion list.                   *)
LEMMA FirstOrNoneIsMember ==
  ASSUME NEW S \in SUBSET Cards
  PROVE  FirstOrNone(S) \in S \cup {None}
<1>1. CASE S = {}
  BY <1>1 DEF FirstOrNone
<1>2. CASE S # {}
  <2>1. \E c \in S : \A d \in S : Rank[c] <= Rank[d]
    BY <1>2, RankAssumption
  <2>2. First(S) \in S
    BY <2>1 DEF First
  <2> QED BY <1>2, <2>2 DEF FirstOrNone
<1> QED BY <1>1, <1>2

(* What is on offer is of the right kind, in the stock's range, and neither   *)
(* released nor the excluded card.                                            *)
LEMMA InventoryOffers ==
  ASSUME NEW stock \in Stock, NEW ledger \in SUBSET Cards,
         NEW exclude \in Cards \cup {None}, NEW after \in BOOLEAN
  PROVE  LET inv == Inventory(stock, ledger, exclude, after)
         IN  /\ inv \in Offer
             /\ inv.scoutId = None \/ inv.scoutId \notin ledger \cup {exclude}
             /\ inv.suggestionId = None \/ inv.suggestionId \notin ledger \cup {exclude}
<1> DEFINE scouts == stock.scouts \ (stock.interacted \cup ledger \cup {exclude})
           offers == stock.suggestions \ (ledger \cup {exclude})
<1>1. FirstOrNone(scouts) \in scouts \cup {None}
  BY FirstOrNoneIsMember DEF Stock, Cards
<1>2. PickSuggestion(offers, stock, after) \in offers \cup {None}
  <2> DEFINE paced == {s \in offers : /\ Kind[s] # "post"
                                      /\ Target[s] \notin stock.interacted \cup stock.history}
             earned == {s \in offers : Kind[s] = "post"}
  <2>1. FirstOrNone(paced) \in paced \cup {None}
    BY FirstOrNoneIsMember DEF Stock, Cards
  <2>2. FirstOrNone(earned) \in earned \cup {None}
    BY FirstOrNoneIsMember DEF Stock, Cards
  <2> QED BY <2>1, <2>2 DEF PickSuggestion
<1> QED BY <1>1, <1>2 DEF Inventory, Offer, Stock

\* The locks a desk can be on are locks.
LEMMA DeskLocksAreLocks == DeskLocks \subseteq Lock
BY CardsAssumption
   DEF DeskLocks, Lock, ScoutLock, OrganicLock, ForYouLock, HoldLock, DoneLock,
       SurfaceLock, Cards, Phases, Surfaces, Gates

(* A lock the ladder can leave the desk on, given what is on offer: one a     *)
(* desk can be on, and on no card but an offered one.                         *)
OfferedLock(lock, inv) ==
  lock \in DeskLocks /\ lock.cardId \in {None, inv.scoutId, inv.suggestionId}

\* The locks the ladder builds from an offer are offered ones.
LEMMA OfferedLocks ==
  ASSUME NEW inv \in Offer
  PROVE  /\ OfferedLock(ScoutLock(None), inv)
         /\ OfferedLock(ScoutLock(inv.scoutId), inv)
         /\ inv.suggestionId # None => OfferedLock(OrganicLock(inv.suggestionId), inv)
         /\ OfferedLock(ForYouLock, inv)
         /\ OfferedLock(DoneLock, inv)
         /\ inv.gate # None => OfferedLock(SurfaceLock(inv.gate), inv)
BY DEF OfferedLock, DeskLocks, Offer, ScoutLock, OrganicLock, ForYouLock, DoneLock,
       SurfaceLock

\* The inventory step leads to an offered lock.
LEMMA NextInventoryCardOffers ==
  ASSUME NEW inv \in Offer, NEW exclude, NEW previous, NEW prefer
  PROVE  OfferedLock(NextInventoryCard(inv, exclude, previous, prefer), inv)
BY OfferedLocks DEF NextInventoryCard

(* A press leaves the lock as it is or on an offered card.                    *)
LEMMA AdvanceOffers ==
  ASSUME NEW inv \in Offer, NEW lock \in Lock, NEW event
  PROVE  \/ AdvanceApproach(lock, event, inv) = lock
         \/ OfferedLock(AdvanceApproach(lock, event, inv), inv)
<1>1. \/ AdvanceDone(lock, inv) = lock
      \/ OfferedLock(AdvanceDone(lock, inv), inv)
  <2> DEFINE quiet == [inv EXCEPT !.canPresentForYou = FALSE]
  <2>1. quiet \in Offer /\ quiet.scoutId = inv.scoutId /\ quiet.suggestionId = inv.suggestionId
    BY DEF Offer
  <2>2. OfferedLock(NextInventoryCard(quiet, None, None, FALSE), quiet)
    BY <2>1, NextInventoryCardOffers
  <2> QED BY <2>1, <2>2 DEF AdvanceDone, OfferedLock
<1>2. \A exclude : OfferedLock(NextScoutCard(inv.scoutId, exclude), inv)
  BY OfferedLocks DEF NextScoutCard
<1>3. \/ AdvanceScout(lock, event, inv) = lock
      \/ OfferedLock(AdvanceScout(lock, event, inv), inv)
  BY <1>2, OfferedLocks, NextInventoryCardOffers DEF AdvanceScout
<1>4. \/ AdvanceOrganic(lock, event, inv) = lock
      \/ OfferedLock(AdvanceOrganic(lock, event, inv), inv)
  BY NextInventoryCardOffers DEF AdvanceOrganic
<1> QED BY <1>1, <1>3, <1>4, NextInventoryCardOffers DEF AdvanceApproach

(* A press that moves the desk never leads to a released card, nor back to    *)
(* the card it was made on.                                                   *)
THEOREM StepServesFreshCard ==
  ASSUME NEW stock \in Stock, NEW ledger \in SUBSET Cards, NEW lock \in Lock, NEW event,
         NextApproachStep(stock, ledger, lock, event) # lock
  PROVE  LET next == NextApproachStep(stock, ledger, lock, event)
         IN  /\ next \in DeskLocks /\ next \in Lock
             /\ next.cardId = None \/ next.cardId \notin ledger \cup {lock.cardId}
<1> DEFINE inv == Inventory(stock, ledger, lock.cardId, IsForYouTask(lock))
<1>1. lock.cardId \in Cards \cup {None}
  BY DEF Lock
<1>2. IsForYouTask(lock) \in BOOLEAN
  BY DEF IsForYouTask
<1>3. /\ inv \in Offer
      /\ inv.scoutId = None \/ inv.scoutId \notin ledger \cup {lock.cardId}
      /\ inv.suggestionId = None \/ inv.suggestionId \notin ledger \cup {lock.cardId}
  BY <1>1, <1>2, InventoryOffers
<1>4. OfferedLock(AdvanceApproach(lock, event, inv), inv)
  BY <1>3, AdvanceOffers DEF NextApproachStep
<1> QED BY <1>3, <1>4, DeskLocksAreLocks DEF NextApproachStep, OfferedLock

-----------------------------------------------------------------------------
(* The rows.                                                                  *)

(* The reply thread of a lock is a thread, and a lock's state row is typed.   *)
LEMMA RowsOfLock ==
  ASSUME NEW lock \in Lock
  PROVE  /\ ReplyThread(lock) \in Threads \cup {None}
         /\ ViewOf(lock) \in Views
         /\ ViewOf(lock) = "suggestion" =>
              lock.phase = "organic_reply" /\ lock.cardId \in Suggestions
         /\ \A detected \in BOOLEAN, named \in BOOLEAN, post \in Nat :
              StateFor(lock, detected, named, post) \in DeskState
BY CardsAssumption
   DEF Lock, ReplyThread, ViewOf, Views, StateFor, DeskState, Cards, IsForYouTask,
       Phases, Surfaces, Gates

(* A lock is determined by the card it holds.                                 *)
LEMMA CardNamesLock ==
  ASSUME NEW lock \in Lock, NEW other \in Lock,
         lock.cardId # None, lock.cardId = other.cardId
  PROVE  lock = other
BY CardsAssumption DEF Lock, Cards

\* The invariant holds at first.
LEMMA InitIInv == Init => IInv
BY CardsAssumption
   DEF Init, IInv, TypeOK, RowsFollowTask, DetectedReplyWasSent,
       DetectedOriginalIsNewer, ServedCardIsNotReleased, PreviewFollowsTask, NoPost

(* A desk publish.                                                            *)
LEMMA PutLockIInv ==
  ASSUME IInv, NEW lock \in DeskLocks, NEW detected \in BOOLEAN, NEW named \in BOOLEAN,
         NEW post \in 0..posts, NEW preview \in Preview \cup {None},
         DeskCanPublish(lock, detected, named, post, preview),
         PutLock(lock, detected, named, post, preview)
  PROVE  IInv'
<1> USE DEF IInv
<1> DEFINE incoming == StateFor(lock, detected, named, post)
<1>1. lock \in Lock /\ post \in Nat /\ incoming \in DeskState
  BY DeskLocksAreLocks, RowsOfLock DEF TypeOK
<1>2. /\ task' \in Task /\ task'.lock = lock /\ released' \subseteq Cards
      /\ task # None /\ task.lock = lock => task'.since = task.since
  BY <1>1, CardsAssumption
     DEF PutLock, DeskCanPublish, WriteDeskLock, AcknowledgesServerLock, SetTask, LeftByDesk, TypeOK,
         Task, Owners, Lock
<1>3. ServedCardIsNotReleased'
  BY <1>1
     DEF PutLock, DeskCanPublish, WriteDeskLock, AcknowledgesServerLock, SetTask, LeftByDesk, TypeOK,
         Task, Owners, ServedCardIsNotReleased
<1>4. /\ card' \in Threads \cup {None}
      /\ card' # None => card' = ReplyThread(lock)
  BY <1>1, RowsOfLock DEF PutLock
<1>5. PreviewFollowsTask'
  BY <1>1, <1>2, <1>4, NullAssumption, CardsAssumption
     DEF PutLock, DeskCanPublish, DeskPreview, PreviewFollowsTask, RemoteNextCanApply, ReplyThread,
         IsForYouTask, Task, Preview, Lock
<1>6. CASE state' = incoming
  <2>1. state' # None
    BY <1>1, <1>6, NullAssumption
  <2>2. TypeOK'
    BY <1>1, <1>2, <1>4, <1>6 DEF PutLock, DeskCanPublish, TypeOK, world
  <2>3. RowsFollowTask'
    BY <1>1, <1>2, <1>4, <1>6, NullAssumption DEF PutLock, DeskCanPublish, RowsFollowTask, StateFor
  <2>4. DetectedReplyWasSent'
    BY <1>1, <1>2, <1>6, CardsAssumption
       DEF PutLock, DeskCanPublish, DeskDetected, DetectedReplyWasSent, StateFor, IsOriginalCard,
           IsForYouTask, ReplyThread, Lock, world
  <2>5. DetectedOriginalIsNewer'
    BY <1>1, <1>2, <1>6 DEF PutLock, DeskCanPublish, DeskDetected, DetectedOriginalIsNewer, StateFor, world, NoPost
  <2> QED BY <1>3, <1>5, <2>2, <2>3, <2>4, <2>5
<1>7. CASE state' # incoming
  <2> DEFINE kept == [incoming EXCEPT !.detected = TRUE, !.post = state.post]
  <2>1. /\ state' = kept
        /\ incoming.suggestion # None /\ Kind[incoming.suggestion] = "post"
        /\ state # None /\ state.view = "suggestion"
        /\ state.suggestion = incoming.suggestion
    BY <1>7 DEF PutLock, DeskCanPublish, KeepDetectedOriginal
  <2>2. /\ kept \in DeskState /\ kept.view = ViewOf(lock)
        /\ kept.suggestion = lock.cardId /\ kept.post = state.post
    BY <1>1, <2>1 DEF StateFor, DeskState, TypeOK
  <2>3. task # None /\ task.lock = lock
    BY <1>1, <2>1, <2>2, CardNamesLock DEF RowsFollowTask, TypeOK, Task, StateFor
  <2>4. TypeOK'
    BY <1>1, <1>2, <1>4, <2>1, <2>2 DEF PutLock, DeskCanPublish, TypeOK, world
  <2>5. RowsFollowTask'
    BY <1>1, <1>2, <1>4, <2>1, <2>2, NullAssumption DEF PutLock, DeskCanPublish, RowsFollowTask
  <2>6. DetectedReplyWasSent'
    BY <1>1, <1>2, <2>1, <2>2, CardsAssumption, RowsOfLock
       DEF DetectedReplyWasSent, ReplyThread, StateFor, Lock
  <2>7. DetectedOriginalIsNewer'
    BY <1>2, <2>1, <2>2, <2>3 DEF PutLock, DeskCanPublish, DetectedOriginalIsNewer, world
  <2> QED BY <1>3, <1>5, <2>4, <2>5, <2>6, <2>7
<1> QED BY <1>6, <1>7

(* A read that heals the state row.                                           *)
LEMMA GetLockIInv == ASSUME IInv, GetLock PROVE IInv'
<1> USE DEF IInv
<1>1. /\ task.lock \in Lock /\ task.lock.cardId \in Suggestions
      /\ state \in DeskState /\ state.post \in Nat
  BY CardsAssumption DEF GetLock, TypeOK, Task, DeskState, Lock, Cards
<1>2. state' \in DeskState /\ state' # None
  BY <1>1, NullAssumption DEF GetLock, DeskState
<1>3. TypeOK'
  BY <1>2 DEF GetLock, TypeOK, world
<1>4. RowsFollowTask' /\ DetectedReplyWasSent' /\ DetectedOriginalIsNewer'
  BY <1>1, <1>2
     DEF GetLock, RowsFollowTask, DetectedReplyWasSent, DetectedOriginalIsNewer,
         DeskState, world
<1>5. ServedCardIsNotReleased' /\ PreviewFollowsTask'
  BY DEF GetLock, ServedCardIsNotReleased, PreviewFollowsTask
<1> QED BY <1>3, <1>4, <1>5

(* A press that begins or fails leaves the rows alone.                        *)
LEMMA IdlePressIInv ==
  ASSUME IInv, NEW r \in Requests,
         NextFail(r) \/ \E event \in Events : NextBegin(r, event)
  PROVE  IInv'
<1> USE DEF IInv
<1>1. UNCHANGED <<rows, world>>
  BY DEF NextFail, NextBegin
<1>2. requests' \in [Requests -> Press \cup {None}]
  <2>1. CASE NextFail(r)
    BY <2>1 DEF NextFail, TypeOK
  <2>2. ASSUME NEW event \in Events, NextBegin(r, event)
        PROVE  requests' \in [Requests -> Press \cup {None}]
    BY <2>2 DEF NextBegin, ServerNextEvent, Events, TypeOK, Task, Press
  <2> QED BY <2>1, <2>2
<1> QED
  BY <1>1, <1>2
     DEF TypeOK, RowsFollowTask, DetectedReplyWasSent, DetectedOriginalIsNewer,
         ServedCardIsNotReleased, PreviewFollowsTask, rows, world

\* A restart leaves the rows alone too.
LEMMA ServerStopsIInv == ASSUME IInv, ServerStops PROVE IInv'
BY DEF IInv, ServerStops, TypeOK, RowsFollowTask, DetectedReplyWasSent,
       DetectedOriginalIsNewer, ServedCardIsNotReleased, PreviewFollowsTask, rows, world

(* A press that moves the task rewrites every row for the lock it leads to.   *)
LEMMA NextFinishIInv ==
  ASSUME IInv, NEW r \in Requests, NEW stock \in Stocks, NextFinish(r, stock)
  PROVE  IInv'
<1> USE DEF IInv
<1> DEFINE from == requests[r].lock
           to == NextApproachStep(stock, released, from, requests[r].event)
           ledger == ReleasedBy(from, to)
<1>1. /\ from \in Lock /\ released \in SUBSET Cards /\ stock \in Stock
      /\ requests' \in [Requests -> Press \cup {None}]
  BY ServerAssumption DEF NextFinish, TypeOK, Press
<1>2. CASE to = from
  <2>1. UNCHANGED <<rows, world>>
    BY <1>2 DEF NextFinish
  <2> QED
    BY <1>1, <2>1
       DEF TypeOK, RowsFollowTask, DetectedReplyWasSent, DetectedOriginalIsNewer,
           ServedCardIsNotReleased, PreviewFollowsTask, rows, world
<1>3. CASE to # from
  <2>1. /\ to \in Lock
        /\ to.cardId = None \/ to.cardId \notin released \cup {from.cardId}
    BY <1>1, <1>3, StepServesFreshCard
  <2>2. /\ released' = ledger /\ SetTask(to, "server") /\ card' = ReplyThread(to)
        /\ upNext' = Following(stock, ledger, to) /\ state' = PublishedState(to)
        /\ UNCHANGED world
    BY <1>3 DEF NextFinish
  <2>3. ledger \in SUBSET Cards /\ to.cardId \notin ledger
    BY <1>1, <2>1, CardsAssumption DEF ReleasedBy, Lock, Cards
  <2>4. task' \in Task /\ task'.lock = to /\ task' # None
    BY <2>1, <2>2, NullAssumption DEF SetTask, TypeOK, Task, Owners
  <2>5. /\ card' \in Threads \cup {None}
        /\ state' = None \/ state' = StateFor(to, FALSE, TRUE, NoPost)
        /\ state' \in DeskState \cup {None}
    BY <2>1, <2>2, RowsOfLock DEF PublishedState, NoPost
  <2>6. /\ upNext' \in Preview \cup {None}
        /\ upNext' # None => /\ RemoteNextCanApply(to)
                             /\ upNext'.card # None => upNext'.card # card'
    <3> DEFINE next == NextApproachStep(stock, ledger, to, "next")
    <3>1. CASE upNext' = None
      BY <3>1
    <3>2. CASE upNext' # None
      <4>1. /\ RemoteNextCanApply(to) /\ next # to /\ next.phase # "organic_reply"
            /\ upNext' = [card |-> ReplyThread(next)]
        BY <2>2, <3>2 DEF Following
      <4>2. /\ next \in Lock
            /\ next.cardId = None \/ next.cardId \notin ledger \cup {to.cardId}
        BY <1>1, <2>1, <2>3, <4>1, StepServesFreshCard
      <4>3. ReplyThread(next) \in Threads \cup {None}
        BY <4>2, RowsOfLock
      <4>4. ReplyThread(next) # None => ReplyThread(next) = next.cardId
        BY <4>1 DEF ReplyThread
      <4>5. ReplyThread(to) # None => ReplyThread(to) = to.cardId
        BY <4>1 DEF ReplyThread, RemoteNextCanApply, IsForYouTask
      <4> QED BY <2>2, <4>1, <4>2, <4>3, <4>4, <4>5 DEF Preview
    <3> QED BY <3>1, <3>2
  <2>7. TypeOK'
    BY <1>1, <2>2, <2>3, <2>4, <2>5, <2>6 DEF TypeOK, world
  <2>8. RowsFollowTask' /\ DetectedReplyWasSent' /\ DetectedOriginalIsNewer'
    BY <2>2, <2>4, <2>5
       DEF RowsFollowTask, DetectedReplyWasSent, DetectedOriginalIsNewer, StateFor
  <2>9. ServedCardIsNotReleased' /\ PreviewFollowsTask'
    BY <2>2, <2>3, <2>4, <2>6 DEF ServedCardIsNotReleased, PreviewFollowsTask
  <2> QED BY <2>7, <2>8, <2>9
<1> QED BY <1>2, <1>3

(* The operator posts or replies.                                             *)
LEMMA OperatorPostsIInv == ASSUME IInv, OperatorPosts PROVE IInv'
<1> USE DEF IInv
<1>1. /\ UNCHANGED <<rows, requests>>
      /\ posts' \in Nat /\ originals' \subseteq 1..posts' /\ replied' \subseteq Threads
      /\ originals \subseteq originals' /\ replied \subseteq replied'
  <2>1. posts \in Nat /\ originals \subseteq 1..posts /\ replied \subseteq Threads
    BY DEF TypeOK
  <2>2. CASE PostOriginal
    BY <2>1, <2>2 DEF PostOriginal
  <2>3. ASSUME NEW t \in Threads, PostReply(t)
        PROVE  /\ UNCHANGED <<rows, requests>>
               /\ posts' \in Nat /\ originals' \subseteq 1..posts'
               /\ replied' \subseteq Threads
               /\ originals \subseteq originals' /\ replied \subseteq replied'
    BY <2>1, <2>3 DEF PostReply
  <2> QED BY <2>2, <2>3 DEF OperatorPosts
<1>2. TypeOK'
  BY <1>1 DEF TypeOK, rows
<1>3. RowsFollowTask' /\ ServedCardIsNotReleased' /\ PreviewFollowsTask'
  BY <1>1 DEF RowsFollowTask, ServedCardIsNotReleased, PreviewFollowsTask, rows
<1>4. DetectedReplyWasSent' /\ DetectedOriginalIsNewer'
  BY <1>1 DEF DetectedReplyWasSent, DetectedOriginalIsNewer, rows
<1> QED BY <1>2, <1>3, <1>4

(* The server is told of a post or a reply.                                   *)
LEMMA ServerHearsIInv == ASSUME IInv, ServerHears PROVE IInv'
<1> USE DEF IInv
<1>1. UNCHANGED <<task, released, card, upNext, requests, world>>
  BY DEF ServerHears, SeeOwnPost, SeeReply
<1>2. ServedCardIsNotReleased' /\ PreviewFollowsTask'
  BY <1>1 DEF ServedCardIsNotReleased, PreviewFollowsTask
<1>3. ASSUME NEW p \in 1..posts, SeeOwnPost(p)
      PROVE  TypeOK' /\ RowsFollowTask' /\ DetectedReplyWasSent' /\ DetectedOriginalIsNewer'
  <2>1. task \in Task /\ task # None /\ task.lock \in Lock /\ p \in Nat
    <3>1. task # None
      BY <1>3 DEF SeeOwnPost, DetectForYou, DetectOriginal
    <3>2. task \in Task /\ posts \in Nat
      BY <3>1 DEF TypeOK
    <3> QED BY <3>1, <3>2 DEF Task
  <2>2. CASE DetectForYou(p)
    <3>1. state' = StateFor(task.lock, TRUE, FALSE, NoPost) /\ state' \in DeskState
      BY <2>1, <2>2, RowsOfLock DEF DetectForYou, NoPost
    <3>2. ReplyThread(task.lock) = None
      BY <2>1, <2>2 DEF DetectForYou, IsForYouTask, ReplyThread
    <3> QED
      BY <1>1, <2>1, <3>1, <3>2
         DEF TypeOK, RowsFollowTask, DetectedReplyWasSent, DetectedOriginalIsNewer,
             StateFor, world
  <2>3. CASE DetectOriginal(p)
    <3>1. /\ state' = StateFor(task.lock, TRUE, TRUE, p) /\ state' \in DeskState
          /\ p \in originals /\ p > task.since
      BY <2>1, <2>3, RowsOfLock DEF DetectOriginal
    <3>2. ReplyThread(task.lock) = None
      BY <2>1, <2>3 DEF DetectOriginal, IsOriginalCard, ReplyThread
    <3> QED
      BY <1>1, <2>1, <3>1, <3>2
         DEF TypeOK, RowsFollowTask, DetectedReplyWasSent, DetectedOriginalIsNewer,
             StateFor, world
  <2> QED BY <1>3, <2>2, <2>3 DEF SeeOwnPost
<1>4. ASSUME NEW t \in Threads, SeeReply(t)
      PROVE  TypeOK' /\ RowsFollowTask' /\ DetectedReplyWasSent' /\ DetectedOriginalIsNewer'
  <2>1. /\ state \in DeskState /\ state # None
        /\ t \in replied /\ card = t /\ t # None
        /\ state' = [state EXCEPT !.detected = TRUE]
    BY <1>4, CardsAssumption DEF SeeReply, TypeOK
  <2>2. /\ state' \in DeskState /\ state'.view = state.view
        /\ state'.suggestion = state.suggestion /\ state'.post = state.post
    BY <2>1 DEF DeskState
  <2>3. task # None /\ t = ReplyThread(task.lock)
    BY <2>1 DEF RowsFollowTask
  <2> QED
    BY <1>1, <2>1, <2>2, <2>3
       DEF TypeOK, RowsFollowTask, DetectedReplyWasSent, DetectedOriginalIsNewer, world
<1> QED BY <1>2, <1>3, <1>4 DEF ServerHears

(* Rows are forgotten.                                                        *)
LEMMA RowsExpireIInv == ASSUME IInv, RowsExpire PROVE IInv'
BY DEF IInv, RowsExpire, ExpireRelease, ExpireCard, ExpireState, TypeOK, RowsFollowTask,
       DetectedReplyWasSent, DetectedOriginalIsNewer, ServedCardIsNotReleased,
       PreviewFollowsTask, world

\* Every step of the specification preserves the invariant.
LEMMA NextIInv == ASSUME IInv, [Next]_vars PROVE IInv'
<1>1. CASE DeskPublishes
  BY <1>1, PutLockIInv DEF DeskPublishes
<1>2. CASE GetLock
  BY <1>2, GetLockIInv
<1>3. CASE PanelPresses
  BY <1>3, IdlePressIInv, NextFinishIInv DEF PanelPresses
<1>4. CASE OperatorPosts
  BY <1>4, OperatorPostsIInv
<1>8. CASE ServerStops
  BY <1>8, ServerStopsIInv
<1>5. CASE ServerHears
  BY <1>5, ServerHearsIInv
<1>6. CASE RowsExpire
  BY <1>6, RowsExpireIInv
<1>7. CASE UNCHANGED vars
  BY <1>7
     DEF IInv, TypeOK, RowsFollowTask, DetectedReplyWasSent, DetectedOriginalIsNewer,
         ServedCardIsNotReleased, PreviewFollowsTask, vars, rows, world
<1> QED BY <1>1, <1>2, <1>3, <1>4, <1>5, <1>6, <1>7, <1>8 DEF Next

(* The conjunction is an inductive invariant of the specification.            *)
THEOREM Invariance == Spec => []IInv
BY InitIInv, NextIInv, PTL DEF Spec

(* Type correctness of the server's rows.                                     *)
THEOREM TypeCorrect == Spec => []TypeOK
BY Invariance, PTL DEF IInv

(* Whichever writer came last, the rows the panel reads are about the card    *)
(* the task is on.                                                            *)
THEOREM RowsInStep == Spec => []PanelInStep
BY Invariance, PTL DEF IInv, PanelInStep

(* A detected reply was sent, and a post shown on an original card is an      *)
(* original made after the card came up.                                      *)
THEOREM DetectionsAreTrue == Spec => []DetectionsHold
BY Invariance, PTL DEF IInv, DetectionsHold

(* However presses overlap, the server never serves a released card.          *)
THEOREM NoReleasedCardServed == Spec => []ServedCardIsNotReleased
BY Invariance, PTL DEF IInv

-----------------------------------------------------------------------------
(* The tabs.                                                                  *)

\* What a tab may send: a lock a desk can be on, and of a next card no more
\* than the free desk of ApproachServer names.
Publishable ==
  {p \in [lock : DeskLocks, named : BOOLEAN, preview : Preview \cup {None}] :
     (p.named \/ ViewOf(p.lock) = "suggestion") /\ DeskPreview(p.lock, p.preview)}

\* What a tab may be told.
Answer == [status : {"idle", "asked", "answered"}, lock : DeskLocks \cup {None},
           released : SUBSET Cards]

(* Every lock a tab shows, keeps, sends or is told of is one a desk can be on. *)
TabInv ==
  /\ shown \in [Desks -> DeskLocks \cup {None}]
  /\ stored \in DeskLocks \cup {None}
  /\ gone \in [Desks -> SUBSET Cards]
  /\ puts \in [Desks -> Seq(Publishable)]
  /\ reads \in [Desks -> [Slots -> Answer]]
  /\ task # None => task.lock \in DeskLocks

DeskInv == IInv /\ TabInv

\* A lock taken from storage or from the server becomes one a desk can be on.
LEMMA NormalizedIsDeskLock ==
  ASSUME NEW lock \in DeskLocks, NEW offer \in Offer
  PROVE  NormalizeLock(lock, offer) \in DeskLocks
<1>1. AdvanceDone(lock, offer) \in DeskLocks
  <2> DEFINE quiet == [offer EXCEPT !.canPresentForYou = FALSE]
  <2>1. quiet \in Offer
    BY DEF Offer
  <2> QED BY <2>1, NextInventoryCardOffers DEF AdvanceDone, OfferedLock
<1>2. /\ ScoutLock(offer.scoutId) \in DeskLocks
      /\ offer.gate # None => SurfaceLock(offer.gate) \in DeskLocks
      /\ NextInventoryCard(offer, None, None, FALSE) \in DeskLocks
  BY OfferedLocks, NextInventoryCardOffers DEF OfferedLock
<1> QED BY <1>1, <1>2 DEF NormalizeLock

\* So does the lock of a first paint.
LEMMA InitialIsDeskLock ==
  ASSUME NEW offer \in Offer
  PROVE  InitialLock(offer) \in DeskLocks
BY OfferedLocks DEF InitialLock, OfferedLock

\* What a tab offers is an offer.
LEMMA DeskOffers ==
  ASSUME TabInv, NEW d \in Desks, NEW stock \in Stocks
  PROVE  DeskOffer(d, stock) \in Offer
BY InventoryOffers, ServerAssumption DEF TabInv, DeskOffer

(* The card a tab names after its own is one the server's specification lets  *)
(* it name.                                                                   *)
LEMMA FollowingIsNamed ==
  ASSUME NEW stock \in Stocks, NEW ledger \in SUBSET Cards, NEW lock \in DeskLocks
  PROVE  /\ Following(stock, ledger, lock) \in Preview \cup {None}
         /\ DeskPreview(lock, Following(stock, ledger, lock))
<1> DEFINE next == NextApproachStep(stock, ledger, lock, "next")
<1>1. CASE Following(stock, ledger, lock) = None
  BY <1>1 DEF DeskPreview
<1>2. CASE Following(stock, ledger, lock) # None
  <2>1. /\ RemoteNextCanApply(lock) /\ next # lock /\ next.phase # "organic_reply"
        /\ Following(stock, ledger, lock) = [card |-> ReplyThread(next)]
    BY <1>2 DEF Following
  <2>2. /\ next \in Lock
        /\ next.cardId = None \/ next.cardId # lock.cardId
    BY <2>1, StepServesFreshCard, DeskLocksAreLocks, ServerAssumption
  <2>3. ReplyThread(next) \in Scouts \cup {None}
    BY <2>1, <2>2, CardsAssumption DEF ReplyThread, Lock, Cards
  <2>4. ReplyThread(next) \in {None, next.cardId}
    BY <2>1 DEF ReplyThread
  <2>5. ReplyThread(next) = None \/ ReplyThread(next) # lock.cardId
    BY <2>2, <2>4
  <2>6. [card |-> ReplyThread(next)] \in Preview
    BY <2>3, CardsAssumption DEF Preview
  <2> QED BY <2>1, <2>3, <2>5, <2>6 DEF DeskPreview
<1> QED BY <1>1, <1>2

(* Taking the i-th publish from the queue leaves the others in their order.   *)
LEMMA WithoutIsQueue ==
  ASSUME NEW S, NEW s \in Seq(S), NEW i \in 1..Len(s)
  PROVE  /\ Without(s, i) \in Seq(S) /\ Len(Without(s, i)) = Len(s) - 1
         /\ s[i] \in S
         /\ i < Len(s) => Without(s, i)[Len(s) - 1] = s[Len(s)]
<1> DEFINE n == Len(s) - 1
<1>1. n \in Nat /\ Len(s) = n + 1 /\ i \in 1..(n + 1)
  BY LenProperties
<1>2. \A j \in 1..(n + 1) : s[j] \in S
  BY <1>1, ElementOfSeq
<1>3. \A j \in 1..n : (IF j < i THEN s[j] ELSE s[j + 1]) \in S
  BY <1>1, <1>2
<1>4. Without(s, i) \in [1..n -> S]
  BY <1>3 DEF Without
<1>5. Without(s, i) \in Seq(S)
  BY <1>1, <1>4, SeqDef
<1>6. Len(Without(s, i)) = n
  <2>1. DOMAIN Without(s, i) = 1..n /\ DOMAIN Without(s, i) = 1..Len(Without(s, i))
    BY <1>4, <1>5, LenProperties
  <2> DEFINE m == Len(Without(s, i))
  <2>2. m \in Nat /\ 1..m = 1..n
    BY <1>5, <2>1, LenProperties
  <2>3. n \in Nat
    BY <1>1
  <2>4. m = n
    <3> HIDE DEF m, n
    <3>1. m > n => m \in 1..n
      BY <2>2, <2>3
    <3>2. n > m => n \in 1..m
      BY <2>2, <2>3
    <3> QED BY <2>2, <2>3, <3>1, <3>2
  <2> QED BY <2>4
<1> QED BY <1>1, <1>2, <1>5, <1>6 DEF Without

\* A button leaves a tab on a card a desk can be on.
LEMMA AdvanceCardTyped ==
  ASSUME TabInv, NEW d \in Desks, NEW stock \in Stocks, NEW event,
         shown[d] # None, AdvanceCard(d, stock, event)
  PROVE  /\ shown' \in [Desks -> DeskLocks \cup {None}]
         /\ stored' \in DeskLocks \cup {None}
         /\ gone' \in [Desks -> SUBSET Cards]
         /\ shown'[d] # None
<1> DEFINE next == NextApproachStep(stock, gone[d], shown[d], event)
<1>1. shown[d] \in DeskLocks /\ shown[d] \in Lock /\ gone[d] \in SUBSET Cards
  BY DeskLocksAreLocks DEF TabInv
<1>2. CASE next = shown[d]
  BY <1>2 DEF AdvanceCard, TabInv
<1>3. CASE next # shown[d]
  <2>1. next \in DeskLocks
    BY <1>1, <1>3, StepServesFreshCard, ServerAssumption
  <2>2. Left(d, next) \in SUBSET Cards
    BY <1>1 DEF Left, Lock
  <2>3. next # None
    BY <2>1, DeskLocksAreLocks, NoLockAssumption
  <2> QED BY <1>1, <1>3, <2>1, <2>2, <2>3 DEF AdvanceCard, Show, TabInv
<1> QED BY <1>2, <1>3

\* A lock shown is one a desk can be on.
LEMMA ShowTyped ==
  ASSUME TabInv, NEW d \in Desks, NEW next \in DeskLocks, Show(d, next)
  PROVE  /\ shown' \in [Desks -> DeskLocks \cup {None}] /\ shown'[d] # None
         /\ stored' \in DeskLocks \cup {None}
BY DeskLocksAreLocks, NoLockAssumption DEF Show, TabInv

\* A tab that shows a lock goes on showing one.
Kept(d) == shown[d] # None => shown'[d] # None

(* Buttons and effects of a tab.                                              *)
LEMMA DeskDecidesTabs ==
  ASSUME TabInv, NEW d \in Desks, DeskDecides(d)
  PROVE  TabInv' /\ UNCHANGED server /\ Kept(d)
<1>1. ASSUME NEW stock \in Stocks, Restore(d, stock) PROVE TabInv' /\ UNCHANGED server /\ Kept(d)
  <2>1. (IF stored = None THEN InitialLock(DeskOffer(d, stock))
         ELSE NormalizeLock(stored, DeskOffer(d, stock))) \in DeskLocks
    BY DeskOffers, NormalizedIsDeskLock, InitialIsDeskLock DEF TabInv
  <2> QED BY <1>1, <2>1, ShowTyped DEF Restore, TabInv, Kept, server, rows, net
<1>2. ASSUME NEW stock \in Stocks, AdoptEmptyScoutCollecting(d, stock)
      PROVE  TabInv' /\ UNCHANGED server /\ Kept(d)
  <2>1. ScoutLock(DeskOffer(d, stock).scoutId) \in DeskLocks
    BY DeskOffers, OfferedLocks DEF OfferedLock
  <2> QED BY <1>2, <2>1, ShowTyped DEF AdoptEmptyScoutCollecting, TabInv, Kept, server, rows, net
<1>3. ASSUME NEW stock \in Stocks, ReconcileGate(d, stock) PROVE TabInv' /\ UNCHANGED server /\ Kept(d)
  <2>1. NormalizeLock(shown[d], DeskOffer(d, stock)) \in DeskLocks
    BY <1>3, DeskOffers, NormalizedIsDeskLock DEF ReconcileGate, TabInv
  <2> QED BY <1>3, <2>1, ShowTyped DEF ReconcileGate, TabInv, Kept, server, rows, net
<1>4. ASSUME NEW stock \in Stocks, PressNext(d, stock) PROVE TabInv' /\ UNCHANGED server /\ Kept(d)
  BY <1>4, AdvanceCardTyped DEF PressNext, TabInv, Kept, server, rows, net
<1>5. ASSUME NEW stock \in Stocks, PressWritten(d, stock) PROVE TabInv' /\ UNCHANGED server /\ Kept(d)
  BY <1>5, AdvanceCardTyped DEF PressWritten, TabInv, Kept, server, rows, net
<1>6. ASSUME NEW event, PressWrite(d, event) PROVE TabInv' /\ UNCHANGED server /\ Kept(d)
  BY <1>6 DEF PressWrite, TabInv, Kept, server, rows, net
<1>7. ASSUME PressRefused(d) PROVE TabInv' /\ UNCHANGED server /\ Kept(d)
  BY <1>7 DEF PressRefused, TabInv, Kept, server, rows, net
<1> QED BY <1>1, <1>2, <1>3, <1>4, <1>5, <1>6, <1>7 DEF DeskDecides

(* What a tab sends and hears.                                                *)
LEMMA PublishTabs ==
  ASSUME TabInv, NEW d \in Desks, Publish(d)
  PROVE  TabInv' /\ UNCHANGED server
<1>0. PICK named \in BOOLEAN, stock \in Stocks :
        \E preview \in {None, Following(stock, gone[d], shown[d])} :
          /\ named \/ ViewOf(shown[d]) = "suggestion"
          /\ puts' = [puts EXCEPT ![d] =
               Append(@, [lock |-> shown[d], named |-> named, preview |-> preview])]
  BY DEF Publish
<1>1. PICK preview \in {None, Following(stock, gone[d], shown[d])} :
        /\ named \/ ViewOf(shown[d]) = "suggestion"
        /\ puts' = [puts EXCEPT ![d] =
             Append(@, [lock |-> shown[d], named |-> named, preview |-> preview])]
  BY <1>0
<1> DEFINE put == [lock |-> shown[d], named |-> named, preview |-> preview]
<1>2. shown[d] \in DeskLocks /\ gone[d] \in SUBSET Cards /\ puts[d] \in Seq(Publishable)
  BY DEF Publish, TabInv
<1>3. preview \in Preview \cup {None} /\ DeskPreview(shown[d], preview)
  BY <1>2, FollowingIsNamed DEF DeskPreview
<1>4. put \in Publishable
  BY <1>1, <1>2, <1>3 DEF Publishable
<1>5. Append(puts[d], put) \in Seq(Publishable)
  BY <1>2, <1>4, AppendProperties
<1>6. puts' \in [Desks -> Seq(Publishable)]
  BY <1>1, <1>5 DEF TabInv
<1> QED BY <1>6 DEF Publish, TabInv, server, rows, tab

LEMMA LosePutTabs ==
  ASSUME TabInv, NEW d \in Desks, LosePut(d)
  PROVE  TabInv' /\ UNCHANGED server
<1>1. puts[d] \in Seq(Publishable) /\ puts[d] # <<>>
  BY DEF LosePut, TabInv
<1>2. Tail(puts[d]) \in Seq(Publishable)
  BY <1>1, HeadTailProperties
<1> QED BY <1>2 DEF LosePut, TabInv, server, rows, tab

LEMMA TakeAnswerTabs ==
  ASSUME TabInv, NEW d \in Desks, NEW i \in Slots, NEW stock \in Stocks,
         TakeAnswer(d, i, stock)
  PROVE  TabInv' /\ UNCHANGED server /\ Kept(d)
<1> DEFINE answer == reads[d][i]
           next == NormalizeLock(answer.lock, DeskOffer(d, stock))
           known == gone[d] \cup answer.released
<1>1. answer \in Answer /\ known \in SUBSET Cards /\ Idle \in Answer
  BY DEF TabInv, Answer, Idle
<1>2. reads' \in [Desks -> [Slots -> Answer]]
  BY <1>1 DEF TakeAnswer, SetRead, TabInv
<1>3. /\ shown' \in [Desks -> DeskLocks \cup {None}]
      /\ stored' \in DeskLocks \cup {None}
      /\ gone' \in [Desks -> SUBSET Cards]
      /\ Kept(d)
  <2>1. CASE answer.lock = None
    BY <1>1, <2>1 DEF TakeAnswer, TabInv, Kept
  <2>2. CASE answer.lock # None /\ shown[d] \in {None, answer.lock}
    BY <1>1, <2>2 DEF TakeAnswer, TabInv, Answer, Kept
  <2>3. CASE answer.lock # None /\ shown[d] \notin {None, answer.lock}
    <3>1. answer.lock \in DeskLocks /\ next \in DeskLocks
      BY <1>1, <2>3, DeskOffers, NormalizedIsDeskLock DEF Answer
    <3>2. Left(d, answer.lock) \in SUBSET Cards
      BY <2>3, DeskLocksAreLocks DEF Left, TabInv, Lock
    <3>3. Show(d, next) /\ gone' = [gone EXCEPT ![d] = known \cup Left(d, answer.lock)]
      BY <2>3 DEF TakeAnswer
    <3> QED BY <1>1, <3>1, <3>2, <3>3, ShowTyped DEF TabInv, Kept
  <2> QED BY <2>1, <2>2, <2>3
<1> QED BY <1>2, <1>3 DEF TakeAnswer, TabInv, Kept, server, rows

LEMMA DeskHearsTabs ==
  ASSUME TabInv, NEW d \in Desks, NEW stock \in Stocks, DeskHears(d, stock)
  PROVE  TabInv' /\ UNCHANGED server /\ Kept(d)
<1> DEFINE notice == Head(wire[d])
<1>1. CASE notice.kind = "task"
  <2>1. Asked \in Answer
    BY DEF Asked, Answer
  <2>2. PICK i \in Slots \ {BootRead} : reads' = [reads EXCEPT ![d][i] = Asked]
    BY <1>1 DEF DeskHears, SetRead
  <2>3. reads' \in [Desks -> [Slots -> Answer]]
    BY <2>1, <2>2 DEF TabInv
  <2> QED BY <1>1, <2>3 DEF DeskHears, TabInv, Kept, server, rows
<1>2. CASE notice.kind # "task"
  <2>1. /\ shown' \in [Desks -> DeskLocks \cup {None}]
        /\ stored' \in DeskLocks \cup {None}
        /\ gone' \in [Desks -> SUBSET Cards]
        /\ Kept(d)
    BY <1>2, AdvanceCardTyped DEF DeskHears, TabInv, Kept
  <2> QED BY <1>2, <2>1 DEF DeskHears, TabInv, Kept, server, rows
<1> QED BY <1>1, <1>2

(* Calls given up, streams and reloads.                                       *)
LEMMA PageTabs ==
  ASSUME TabInv, NEW d \in Desks,
         \/ GiveUp(d) \/ StreamReady(d) \/ StreamDrop(d) \/ Reload(d)
         \/ \E i \in Slots : LoseRead(d, i)
  PROVE  TabInv' /\ UNCHANGED server
<1>1. Idle \in Answer /\ Asked \in Answer
  BY DEF Idle, Asked, Answer
<1>2. BootReads \in [Slots -> Answer]
  BY <1>1 DEF BootReads
<1>3. CASE GiveUp(d) \/ StreamReady(d) \/ StreamDrop(d)
  BY <1>3 DEF GiveUp, StreamReady, StreamDrop, TabInv, server, rows, tab, net
<1>4. CASE Reload(d)
  BY <1>2, <1>4 DEF Reload, TabInv, server, rows
<1>5. ASSUME NEW i \in Slots, LoseRead(d, i) PROVE TabInv' /\ UNCHANGED server
  BY <1>1, <1>5 DEF LoseRead, SetRead, TabInv, server, rows, tab
<1> QED BY <1>3, <1>4, <1>5

-----------------------------------------------------------------------------
(* Every step of the tabs and the panel is a step of the server's             *)
(* specification, or none.                                                    *)

\* A publish arrives: the free desk publishes.
LEMMA TakesPutMaps ==
  ASSUME DeskInv, NEW d \in Desks, NEW i, ServerTakesPut(d, i)
  PROVE  TabInv' /\ Next
<1> DEFINE put == puts[d][i]
<1>1. puts[d] \in Seq(Publishable) /\ i \in 1..Len(puts[d])
  BY DEF DeskInv, TabInv, ServerTakesPut
<1>2. put \in Publishable /\ Without(puts[d], i) \in Seq(Publishable)
  BY <1>1, WithoutIsQueue
<1>3. puts' \in [Desks -> Seq(Publishable)]
  BY <1>2 DEF ServerTakesPut, DeskInv, TabInv
<1>4. PutLock(put.lock, FALSE, put.named, NoPost, put.preview)
  BY DEF ServerTakesPut
<1>5. task' # None => task'.lock \in DeskLocks
  BY <1>2, <1>4
     DEF PutLock, WriteDeskLock, AcknowledgesServerLock, SetTask, Publishable, DeskInv, TabInv
<1>6. TabInv'
  BY <1>3, <1>5 DEF ServerTakesPut, DeskInv, TabInv, tab
<1>7. /\ put.lock \in DeskLocks /\ put.named \in BOOLEAN /\ put.preview \in Preview \cup {None}
      /\ put.named \/ ViewOf(put.lock) = "suggestion"
      /\ DeskPreview(put.lock, put.preview)
  BY <1>2 DEF Publishable
<1>8. NoPost \in 0..posts
  BY DEF NoPost, DeskInv, IInv, TypeOK
<1>9. DeskCanPublish(put.lock, FALSE, put.named, NoPost, put.preview)
  BY <1>7 DEF DeskCanPublish
<1>10. DeskPublishes
  BY <1>4, <1>7, <1>8, <1>9 DEF DeskPublishes
<1> QED BY <1>6, <1>10 DEF Next

\* A read is answered, and may heal the state row.
LEMMA AnswersMaps ==
  ASSUME DeskInv, NEW d \in Desks, NEW i \in Slots, ServerAnswers(d, i)
  PROVE  TabInv' /\ [Next]_vars
<1>1. [status |-> "answered", lock |-> ServerOwnedLock, released |-> released] \in Answer
  BY DEF ServerOwnedLock, Answer, DeskInv, TabInv, IInv, TypeOK
<1>2. reads' \in [Desks -> [Slots -> Answer]]
  BY <1>1 DEF ServerAnswers, SetRead, DeskInv, TabInv
<1>3. [Next]_vars /\ task' = task
  BY DEF ServerAnswers, Next, GetLock, vars, server, rows
<1> QED BY <1>2, <1>3 DEF ServerAnswers, DeskInv, TabInv, tab

\* Panel presses begin, finish and fail as the server's specification says.
LEMMA PanelMaps ==
  ASSUME DeskInv, Panel
  PROVE  TabInv' /\ [Next]_vars
<1>1. ASSUME NEW r \in Requests, NEW event \in PanelEvents, PanelPress(r, event)
      PROVE  TabInv' /\ Next
  <2>1. NextBegin(r, event) /\ event \in Events
    BY <1>1 DEF PanelPress, PanelEvents, Events
  <2> QED
    BY <1>1, <2>1 DEF PanelPress, NextBegin, PanelPresses, Next, DeskInv, TabInv, tab, net, rows
<1>2. ASSUME NEW r \in Requests, PanelPressDone(r) PROVE TabInv' /\ Next
  <2>1. PICK stock \in Stocks : NextFinish(r, stock)
    BY <1>2 DEF PanelPressDone
  <2> DEFINE from == requests[r].lock
             to == NextApproachStep(stock, released, from, requests[r].event)
  <2>2. from \in Lock /\ released \in SUBSET Cards /\ stock \in Stock
    BY <2>1, ServerAssumption DEF NextFinish, DeskInv, IInv, TypeOK, Press
  <2>3. task' # None => task'.lock \in DeskLocks
    <3>1. CASE to = from
      BY <2>1, <3>1 DEF NextFinish, DeskInv, TabInv, rows
    <3>2. CASE to # from
      <4>1. to \in DeskLocks
        BY <2>2, <3>2, StepServesFreshCard
      <4>2. SetTask(to, "server")
        BY <2>1, <3>2 DEF NextFinish
      <4> QED BY <4>1, <4>2 DEF SetTask
    <3> QED BY <3>1, <3>2
  <2>4. TabInv'
    BY <1>2, <2>3 DEF PanelPressDone, DeskInv, TabInv, tab
  <2> QED BY <2>1, <2>4 DEF PanelPresses, Next
<1>3. ASSUME NEW r \in Requests, PanelPressFails(r) PROVE TabInv' /\ Next
  BY <1>3 DEF PanelPressFails, NextFail, PanelPresses, Next, DeskInv, TabInv, tab, rows
<1>4. ASSUME NEW from, NEW event, PanelPressRefused(from, event)
      PROVE  TabInv' /\ UNCHANGED vars
  BY <1>4 DEF PanelPressRefused, DeskInv, TabInv, tab, server, rows, vars
<1>5. ASSUME Announce PROVE TabInv' /\ UNCHANGED vars
  BY <1>5 DEF Announce, DeskInv, TabInv, tab, server, rows, vars
<1> QED BY <1>1, <1>2, <1>3, <1>4, <1>5 DEF Panel

\* A restart drops the presses, if there are any, and every publish under way.
LEMMA RestartMaps ==
  ASSUME DeskInv, ServerRestart
  PROVE  TabInv' /\ [Next]_vars
<1>1. <<>> \in Seq(Publishable)
  BY EmptySeq
<1>2. TabInv'
  BY <1>1 DEF ServerRestart, DeskInv, TabInv, tab, rows
<1>3. CASE \E r \in Requests : requests[r] # None
  BY <1>2, <1>3 DEF ServerRestart, ServerStops, Next
<1>4. CASE \A r \in Requests : requests[r] = None
  BY <1>2, <1>4 DEF ServerRestart, DeskInv, IInv, TypeOK, vars, rows
<1> QED BY <1>2, <1>3, <1>4

\* The panel's own reads and the passing of a day.
LEMMA AloneMaps ==
  ASSUME DeskInv, ServerAlone
  PROVE  TabInv' /\ Next
BY DEF ServerAlone, GetLock, RowsExpire, ExpireRelease, ExpireCard, ExpireState, Next,
       DeskInv, TabInv, tab, net

\* Every step keeps the tabs' invariant and is a step of the server's.
LEMMA DeskStepMaps ==
  ASSUME DeskInv, [DeskNext]_deskVars
  PROVE  TabInv' /\ [Next]_vars
<1>1. UNCHANGED server => UNCHANGED vars
  BY DEF server, vars
<1>2. ASSUME NEW d \in Desks, DeskDecides(d) PROVE TabInv' /\ [Next]_vars
  BY <1>1, <1>2, DeskDecidesTabs DEF DeskInv
<1>3. ASSUME NEW d \in Desks, DeskCalls(d) PROVE TabInv' /\ [Next]_vars
  <2>1. CASE Publish(d) \/ LosePut(d)
    BY <1>1, <2>1, PublishTabs, LosePutTabs DEF DeskInv
  <2>2. CASE GiveUp(d) \/ \E i \in Slots : LoseRead(d, i)
    BY <1>1, <2>2, PageTabs DEF DeskInv
  <2>3. CASE \E i \in 1..MaxPuts : ServerTakesPut(d, i)
    BY <2>3, TakesPutMaps
  <2>4. CASE \E i \in Slots : ServerAnswers(d, i)
    BY <2>4, AnswersMaps
  <2>5. CASE \E i \in Slots, stock \in Stocks : TakeAnswer(d, i, stock)
    BY <1>1, <2>5, TakeAnswerTabs DEF DeskInv
  <2> QED BY <1>3, <2>1, <2>2, <2>3, <2>4, <2>5 DEF DeskCalls
<1>4. ASSUME NEW d \in Desks, DeskStream(d) \/ Reload(d) PROVE TabInv' /\ [Next]_vars
  BY <1>1, <1>4, PageTabs, DeskHearsTabs DEF DeskInv, DeskStream
<1>5. CASE UNCHANGED deskVars
  BY <1>5 DEF deskVars, server, tab, net, DeskInv, TabInv, vars, rows
<1> QED
  BY <1>2, <1>3, <1>4, <1>5, PanelMaps, AloneMaps, RestartMaps DEF DeskNext

\* The tabs' invariant holds at first.
LEMMA InitDeskInv == DeskInit => DeskInv
<1> SUFFICES ASSUME DeskInit PROVE DeskInv
  OBVIOUS
<1>1. IInv
  BY InitIInv DEF DeskInit
<1>2. BootReads \in [Slots -> Answer] /\ <<>> \in Seq(Publishable)
  BY EmptySeq DEF BootReads, Idle, Asked, Answer
<1> QED BY <1>1, <1>2 DEF DeskInit, Init, DeskInv, TabInv

(* The server's invariant and the tabs' hold together.                        *)
THEOREM DeskInvariance == DeskSafety => []DeskInv
<1>1. DeskInv /\ [DeskNext]_deskVars => DeskInv'
  BY DeskStepMaps, NextIInv DEF DeskInv
<1> QED BY <1>1, InitDeskInv, PTL DEF DeskSafety

(* Any number of tabs, on a network that may lose and reorder their calls and *)
(* a server that may restart, is a desk the server's specification allows:    *)
(* every step of the composed system is one of the server's, or none.         *)
THEOREM TabsAreTheDesk == DeskSafety => ServerSpec
<1>1. DeskInit => Init
  BY DEF DeskInit
<1>2. DeskInv /\ [DeskNext]_deskVars => [Next]_vars
  BY DeskStepMaps
<1> QED BY <1>1, <1>2, DeskInvariance, PTL DEF DeskSafety, ServerSpec, Spec

(* What is proved for the free desk is so proved for the tabs: the panel's    *)
(* rows are in step, and the server serves no released card.                  *)
THEOREM TabsKeepTheRows == DeskSafety => [](PanelInStep /\ ServedCardIsNotReleased)
BY TabsAreTheDesk, RowsInStep, NoReleasedCardServed, PTL DEF ServerSpec

-----------------------------------------------------------------------------
(* The types of what is under way between the tabs and the server.            *)

NetTypes ==
  /\ checked \in [Desks -> BOOLEAN] /\ open \in [Desks -> BOOLEAN]
  /\ published \in [Desks -> DeskLocks \cup {None}]
  /\ pressing \in [Desks -> Press \cup {None}]
  /\ wire \in [Desks -> Seq(Notice)]
  /\ announce \in Nat /\ moves \in 0..MaxMoves

LEMMA MoveTyped == ASSUME moves \in 0..MaxMoves, Move PROVE moves' \in 0..MaxMoves
BY DeskAssumption DEF Move

LEMMA TellKeepsFrames ==
  ASSUME wire \in [Desks -> Seq(Notice)], NEW notice \in Notice, Tell(notice)
  PROVE  wire' \in [Desks -> Seq(Notice)]
<1>1. ASSUME NEW d \in Desks
      PROVE  (IF open[d] THEN Append(wire[d], notice) ELSE wire[d]) \in Seq(Notice)
  BY AppendProperties
<1> QED BY <1>1 DEF Tell

\* What the server publishes is a notice.
LEMMA NoticesSent ==
  ASSUME DeskInv
  PROVE  /\ TaskNotice \in Notice
         /\ \A r \in Requests : requests[r] # None =>
              NextNotice(requests[r].lock.cardId, requests[r].event) \in Notice
         /\ \A from \in Cards \cup {None}, event \in PanelEvents :
              NextNotice(from, event) \in Notice
<1>1. TaskNotice \in Notice
  BY DEF TaskNotice, Notice, Events
<1>2. \A r \in Requests : requests[r] # None =>
        NextNotice(requests[r].lock.cardId, requests[r].event) \in Notice
  BY DEF NextNotice, Notice, DeskInv, IInv, TypeOK, Press, Lock
<1>3. \A from \in Cards \cup {None}, event \in PanelEvents : NextNotice(from, event) \in Notice
  BY DEF NextNotice, Notice, PanelEvents, Events
<1> QED BY <1>1, <1>2, <1>3

\* A tab's own decisions touch only its button and the count of moves.
LEMMA DecisionsTyped ==
  ASSUME DeskInv, NetTypes, NEW d \in Desks, DeskDecides(d)
  PROVE  NetTypes'
<1>1. UNCHANGED <<checked, open, published, wire, announce>>
  BY DEF DeskDecides, Restore, AdoptEmptyScoutCollecting, ReconcileGate, PressNext,
         PressWritten, PressWrite, PressRefused, net, page
<1>2. moves' \in 0..MaxMoves
  BY MoveTyped DEF DeskDecides, Restore, AdoptEmptyScoutCollecting, ReconcileGate, PressNext,
         PressWritten, PressWrite, PressRefused, NetTypes
<1>3. pressing' \in [Desks -> Press \cup {None}]
  <2>1. CASE \E event \in {"skip", "dismiss", "posted"} : PressWrite(d, event)
    <3>1. PICK event \in {"skip", "dismiss", "posted"} : PressWrite(d, event)
      BY <2>1
    <3>2. shown[d] \in Lock
      BY <3>1, DeskLocksAreLocks DEF PressWrite, DeskInv, TabInv
    <3>3. [lock |-> shown[d], event |-> event] \in Press
      BY <3>2 DEF Press, Events
    <3> QED BY <3>1, <3>3 DEF PressWrite, NetTypes
  <2>2. CASE ~\E event \in {"skip", "dismiss", "posted"} : PressWrite(d, event)
    <3>1. pressing' \in {pressing, [pressing EXCEPT ![d] = None]}
      BY <2>2 DEF DeskDecides, Restore, AdoptEmptyScoutCollecting, ReconcileGate, PressNext,
             PressWritten, PressRefused
    <3> QED BY <3>1 DEF NetTypes
  <2> QED BY <2>1, <2>2
<1> QED BY <1>1, <1>2, <1>3 DEF NetTypes

LEMMA CallsTyped ==
  ASSUME DeskInv, NetTypes, NEW d \in Desks, DeskCalls(d)
  PROVE  NetTypes'
<1>1. CASE Publish(d)
  <2>1. moves' \in 0..MaxMoves
    BY <1>1, MoveTyped DEF Publish, NetTypes
  <2>2. published' \in [Desks -> DeskLocks \cup {None}]
    BY <1>1 DEF Publish, NetTypes, DeskInv, TabInv
  <2> QED BY <1>1, <2>1, <2>2 DEF Publish, NetTypes, tab
<1>2. CASE LosePut(d) \/ \E i \in 1..MaxPuts : ServerTakesPut(d, i)
  BY <1>2 DEF LosePut, ServerTakesPut, NetTypes, tab, page
<1>3. CASE GiveUp(d)
  BY <1>3 DEF GiveUp, NetTypes, tab, net
<1>4. CASE \E i \in Slots : ServerAnswers(d, i)
  BY <1>4 DEF ServerAnswers, NetTypes, tab, page
<1>5. ASSUME NEW i \in Slots, LoseRead(d, i) \/ \E stock \in Stocks : TakeAnswer(d, i, stock)
      PROVE  NetTypes'
  <2>1. /\ checked' = [checked EXCEPT ![d] = @ \/ i = BootRead]
        /\ UNCHANGED <<open, published, pressing, wire, announce, moves>>
    BY <1>5 DEF LoseRead, TakeAnswer, tab
  <2>2. (checked[d] \/ i = BootRead) \in BOOLEAN
    OBVIOUS
  <2> QED BY <2>1, <2>2, Zenon DEF NetTypes
<1> QED BY <1>1, <1>2, <1>3, <1>4, <1>5 DEF DeskCalls

LEMMA StreamTyped ==
  ASSUME DeskInv, NetTypes, NEW d \in Desks, DeskStream(d) \/ Reload(d)
  PROVE  NetTypes'
<1>1. <<TaskNotice>> \in Seq(Notice) /\ <<>> \in Seq(Notice)
  BY NoticesSent
<1>2. CASE StreamReady(d)
  BY <1>1, <1>2 DEF StreamReady, NetTypes, tab, page
<1>3. CASE StreamDrop(d) \/ Reload(d)
  BY <1>1, <1>3, MoveTyped DEF StreamDrop, Reload, NetTypes, tab, page
<1>4. ASSUME NEW stock \in Stocks, DeskHears(d, stock) PROVE NetTypes'
  <2>1. Tail(wire[d]) \in Seq(Notice)
    BY <1>4, HeadTailProperties DEF DeskHears, NetTypes
  <2> QED BY <1>4, <2>1 DEF DeskHears, NetTypes, page
<1> QED BY <1>2, <1>3, <1>4 DEF DeskStream

LEMMA PanelTyped ==
  ASSUME DeskInv, NetTypes, Panel
  PROVE  NetTypes'
<1>1. UNCHANGED <<checked, open, published, pressing>>
  BY DEF Panel, PanelPress, PanelPressDone, PanelPressFails, PanelPressRefused, Announce,
         tab, net, page
<1>2. moves' \in 0..MaxMoves
  BY MoveTyped DEF Panel, PanelPress, PanelPressDone, PanelPressFails, PanelPressRefused,
         Announce, NetTypes
<1>3. wire' \in [Desks -> Seq(Notice)]
  <2>1. wire' = wire \/ \E notice \in Notice : Tell(notice)
    <3>1. CASE \E r \in Requests, event \in PanelEvents : PanelPress(r, event)
      BY <3>1 DEF PanelPress, net
    <3>2. CASE \E r \in Requests : PanelPressDone(r) \/ PanelPressFails(r)
      BY <3>2, NoticesSent DEF PanelPressDone, PanelPressFails, NextFail
    <3>3. CASE \E from \in Cards \cup {None}, event \in PanelEvents :
                 PanelPressRefused(from, event)
      BY <3>3, NoticesSent DEF PanelPressRefused
    <3>4. CASE Announce
      BY <3>4, NoticesSent DEF Announce
    <3> QED BY <3>1, <3>2, <3>3, <3>4 DEF Panel
  <2> QED BY <2>1, TellKeepsFrames DEF NetTypes
<1>4. announce' \in Nat
  BY DEF Panel, PanelPress, PanelPressDone, PanelPressFails, PanelPressRefused, Announce,
         net, NetTypes
<1> QED BY <1>1, <1>2, <1>3, <1>4 DEF NetTypes

(* The type invariant of the tabs, for any number of them.                    *)
THEOREM DeskTypesCorrect == DeskSafety => []DeskTypeOK
<1>1. DeskInit => NetTypes
  BY DeskAssumption, EmptySeq DEF DeskInit, NetTypes
<1>2. ASSUME DeskInv, NetTypes, [DeskNext]_deskVars PROVE NetTypes'
  <2>1. CASE UNCHANGED deskVars
    BY <1>2, <2>1 DEF deskVars, tab, net, page, NetTypes
  <2>2. CASE ServerAlone
    BY <1>2, <2>2, MoveTyped DEF ServerAlone, tab, net, page, NetTypes
  <2>3. CASE ServerRestart
    BY <1>2, <2>3, MoveTyped, EmptySeq DEF ServerRestart, tab, page, NetTypes
  <2> QED BY <1>2, <2>1, <2>2, <2>3, DecisionsTyped, CallsTyped, StreamTyped, PanelTyped
          DEF DeskNext
<1>3. ASSUME DeskInv, NetTypes PROVE DeskTypeOK
  <2>1. DeskLocks \cup {None} \subseteq Lock \cup {None} /\ Publishable \subseteq Put
    BY DeskLocksAreLocks DEF Publishable, Put
  <2>2. Answer \subseteq Read
    BY DeskLocksAreLocks DEF Answer, Read
  <2>3. puts \in [Desks -> Seq(Put)]
    <3>1. \A d \in Desks : puts[d] \in Seq(Put)
      BY <1>3, <2>1, ElementOfSeq, SeqDef DEF DeskInv, TabInv
    <3> QED BY <1>3, <3>1 DEF DeskInv, TabInv
  <2>4. reads \in [Desks -> [Slots -> Read]]
    BY <1>3, <2>2 DEF DeskInv, TabInv
  <2>5. /\ shown \in [Desks -> Lock \cup {None}] /\ stored \in Lock \cup {None}
        /\ published \in [Desks -> Lock \cup {None}] /\ TypeOK
        /\ gone \in [Desks -> SUBSET Cards]
    BY <1>3, <2>1 DEF DeskInv, TabInv, NetTypes, IInv
  <2> QED BY <1>3, <2>3, <2>4, <2>5 DEF DeskTypeOK, NetTypes
<1> QED BY <1>1, <1>2, <1>3, DeskInvariance, InitDeskInv, PTL DEF DeskSafety

-----------------------------------------------------------------------------
(* Agreement of one tab and the server, on a network that loses nothing.      *)

\* A frame that makes the tab read is under way.
TaskFrame(frames) == \E i \in 1..Len(frames) : frames[i].kind = "task"

\* The tab is still to be told of the server's lock, or holds the answer.
BeingTold(d) ==
  \/ announce > 0 \/ ~open[d] \/ TaskFrame(wire[d])
  \/ \E i \in Slots : \/ reads[d][i].status = "asked"
                      \/ reads[d][i].status = "answered" /\ reads[d][i].lock = task.lock

\* A lock a tab keeps as it is when the server has moved to it: a card, and For
\* You as long as no gate comes between.
NoGate == \A stock \in Stocks : stock.gate = None
TakenAsIs(lock) == HasCard(lock) \/ (IsForYouTask(lock) /\ NoGate)

NetInv ==
  /\ wire \in [Desks -> Seq(Notice)] /\ open \in [Desks -> BOOLEAN] /\ announce \in Nat
  /\ checked \in [Desks -> BOOLEAN] /\ published \in [Desks -> DeskLocks \cup {None}]

\* A tab publishes what it shows, once its boot read is over.
PageInv(d) == published[d] # None => shown[d] # None /\ checked[d]

\* The last publish that the server took, or has still to take, is the last
\* the tab made, unless the server has moved since.
SentInv(d) ==
  published[d] # None =>
    IF puts[d] # <<>> THEN puts[d][Len(puts[d])].lock = published[d]
    ELSE task # None /\ task.owner = "desk" => task.lock = published[d]

\* Once the tab has been told of the server's lock and has nothing to publish,
\* that lock is the one it published.
TakenInv(d) ==
  (/\ published[d] # None /\ shown[d] = published[d] /\ puts[d] = <<>>
   /\ task # None /\ task.owner = "server" /\ TakenAsIs(task.lock) /\ ~BeingTold(d))
    => published[d] = task.lock

AgreeInv == NetInv /\ \A d \in Desks : PageInv(d) /\ SentInv(d) /\ TakenInv(d)

OneTab == \E d : Desks = {d}

\* A frame sent joins those under way, and one heard leaves the others.
LEMMA FramesUnderWay ==
  ASSUME NEW frames \in Seq(Notice), NEW notice \in Notice
  PROVE  /\ Append(frames, notice) \in Seq(Notice)
         /\ TaskFrame(frames) \/ notice.kind = "task" => TaskFrame(Append(frames, notice))
         /\ frames # <<>> =>
              /\ Tail(frames) \in Seq(Notice)
              /\ TaskFrame(frames) => TaskFrame(Tail(frames)) \/ Head(frames).kind = "task"
<1> DEFINE n == Len(frames)
           more == Append(frames, notice)
           rest == Tail(frames)
<1>1. n \in Nat
  BY LenProperties
<1>2. /\ more \in Seq(Notice) /\ Len(more) = n + 1 /\ more[n + 1] = notice
      /\ \A i \in 1..n : more[i] = frames[i]
  BY AppendProperties
<1>3. TaskFrame(frames) \/ notice.kind = "task" => TaskFrame(more)
  <2>1. \A i \in 1..n : i \in 1..Len(more)
    BY <1>1, <1>2
  <2>2. n + 1 \in 1..Len(more)
    BY <1>1, <1>2
  <2> QED BY <1>2, <2>1, <2>2 DEF TaskFrame
<1>4. ASSUME frames # <<>>
      PROVE  /\ rest \in Seq(Notice)
             /\ TaskFrame(frames) => TaskFrame(rest) \/ Head(frames).kind = "task"
  <2>1. /\ rest \in Seq(Notice) /\ Len(rest) = n - 1 /\ Head(frames) = frames[1]
        /\ \A i \in 1..Len(rest) : rest[i] = frames[i + 1]
    BY <1>4, HeadTailProperties
  <2>2. ASSUME NEW i \in 1..n, frames[i].kind = "task", i # 1
        PROVE  i - 1 \in 1..Len(rest) /\ rest[i - 1].kind = "task"
    <3>1. i - 1 \in 1..Len(rest) /\ (i - 1) + 1 = i
      BY <1>1, <2>1, <2>2
    <3> QED BY <2>1, <2>2, <3>1
  <2> QED BY <2>1, <2>2 DEF TaskFrame
<1> QED BY <1>2, <1>3, <1>4

(* What is told to the tabs keeps the frames typed, and being told stays so.  *)
LEMMA TellTyped ==
  ASSUME AgreeInv, NEW notice \in Notice, Tell(notice)
  PROVE  /\ wire' \in [Desks -> Seq(Notice)]
         /\ \A d \in Desks : TaskFrame(wire[d]) => TaskFrame(wire[d])'
         /\ \A d \in Desks : open[d] /\ notice.kind = "task" => TaskFrame(wire[d])'
<1>1. ASSUME NEW d \in Desks
      PROVE  /\ wire'[d] \in Seq(Notice)
             /\ TaskFrame(wire[d]) => TaskFrame(wire'[d])
             /\ open[d] /\ notice.kind = "task" => TaskFrame(wire'[d])
  <2>1. wire[d] \in Seq(Notice)
    BY DEF AgreeInv, NetInv
  <2>2. wire'[d] = IF open[d] THEN Append(wire[d], notice) ELSE wire[d]
    BY DEF Tell
  <2> QED BY <2>1, <2>2, FramesUnderWay
<1>2. wire' \in [Desks -> Seq(Notice)]
  BY <1>1 DEF Tell
<1>3. \A d \in Desks : TaskFrame(wire[d])' <=> TaskFrame(wire'[d])
  BY DEF TaskFrame
<1> QED BY <1>1, <1>2, <1>3

\* A tab takes such a lock as it is.
LEMMA TakenAsItIs ==
  ASSUME NEW d, NEW stock \in Stocks, NEW lock, TakenAsIs(lock)
  PROVE  NormalizeLock(lock, DeskOffer(d, stock)) = lock
<1>1. CASE HasCard(lock)
  BY <1>1 DEF NormalizeLock
<1>2. CASE ~HasCard(lock)
  <2>1. IsForYouTask(lock) /\ stock.gate = None
    BY <1>2 DEF TakenAsIs, NoGate
  <2>2. DeskOffer(d, stock).gate = None
    BY <2>1 DEF DeskOffer, Inventory
  <2> QED BY <1>2, <2>1, <2>2 DEF NormalizeLock, IsForYouTask
<1> QED BY <1>1, <1>2

(* A step that leaves the task and the publishes alone, and in which the tab  *)
(* moves only from a lock it has published, keeps the agreement.              *)
LEMMA CalmStep ==
  ASSUME NEW d, PageInv(d), SentInv(d), TakenInv(d),
         task' = task, published'[d] = published[d], puts'[d] = puts[d],
         checked[d] => checked'[d], shown[d] # None => shown'[d] # None,
         shown'[d] = shown[d] \/ Rendered(d),
         BeingTold(d) => BeingTold(d)'
  PROVE  PageInv(d)' /\ SentInv(d)' /\ TakenInv(d)'
<1>1. PageInv(d)'
  BY DEF PageInv
<1>2. SentInv(d)'
  BY DEF SentInv
<1>3. published[d] # None /\ shown'[d] = published[d] => shown[d] = published[d]
  BY DEF PageInv, Rendered
<1>4. TakenInv(d)'
  BY <1>3 DEF TakenInv
<1> QED BY <1>1, <1>2, <1>4

\* A publish the server takes makes the task what it says.
LEMMA WriteLands ==
  ASSUME NEW lock \in Lock, WriteDeskLock(lock), IInv
  PROVE  task' # None /\ task'.lock = lock
<1>1. CASE AcknowledgesServerLock(lock)
  BY <1>1 DEF WriteDeskLock, AcknowledgesServerLock
<1>2. CASE ~AcknowledgesServerLock(lock)
  <2>1. SetTask(lock, "desk")
    BY <1>2 DEF WriteDeskLock
  <2>2. CASE task # None /\ task.lock = lock /\ task.owner = "desk"
    BY <2>1, <2>2 DEF SetTask
  <2>3. CASE ~(task # None /\ task.lock = lock /\ task.owner = "desk")
    <3>1. task' = [lock |-> lock, owner |-> "desk", since |-> posts]
      BY <2>1, <2>3 DEF SetTask
    <3>2. task' \in Task
      BY <3>1 DEF IInv, TypeOK, Task, Owners
    <3> QED BY <3>1, <3>2, NullAssumption
  <2> QED BY <2>2, <2>3
<1> QED BY <1>1, <1>2

\* What the steps of one tab may not lose, for it alone.
Agrees(d) == PageInv(d) /\ SentInv(d) /\ TakenInv(d)

(* Buttons and effects.                                                       *)
LEMMA DecisionsAgree ==
  ASSUME TabInv, AgreeInv, NEW d \in Desks, DeskDecides(d)
  PROVE  NetInv' /\ Agrees(d)'
<1>1. UNCHANGED server /\ Kept(d)
  BY DeskDecidesTabs
<1>2. /\ UNCHANGED <<puts, reads, wire, open, announce, checked, published>>
      /\ shown'[d] = shown[d] \/ Rendered(d)
  <2>1. CASE \E stock \in Stocks :
               \/ Restore(d, stock) \/ AdoptEmptyScoutCollecting(d, stock)
               \/ ReconcileGate(d, stock) \/ PressNext(d, stock) \/ PressWritten(d, stock)
    BY <2>1
       DEF Restore, AdoptEmptyScoutCollecting, ReconcileGate, PressNext, PressWritten,
           Rendered, net, page
  <2>2. CASE (\E event \in {"skip", "dismiss", "posted"} : PressWrite(d, event)) \/ PressRefused(d)
    BY <2>2 DEF PressWrite, PressRefused, net, page
  <2> QED BY <2>1, <2>2 DEF DeskDecides
<1>3. BeingTold(d) => BeingTold(d)'
  BY <1>1, <1>2 DEF BeingTold, TaskFrame, server, rows
<1>4. NetInv'
  BY <1>2 DEF AgreeInv, NetInv
<1> QED BY <1>1, <1>2, <1>3, <1>4, CalmStep DEF AgreeInv, Agrees, Kept, server, rows

(* A publish is the last sent.                                                *)
LEMMA PublishAgrees ==
  ASSUME TabInv, AgreeInv, NEW d \in Desks, Publish(d)
  PROVE  NetInv' /\ Agrees(d)'
<1>1. PICK named, preview :
        puts' = [puts EXCEPT ![d] =
          Append(@, [lock |-> shown[d], named |-> named, preview |-> preview])]
  BY DEF Publish
<1> DEFINE put == [lock |-> shown[d], named |-> named, preview |-> preview]
           queue == puts'[d]
<1>2. puts[d] \in Seq(Publishable) /\ queue = Append(puts[d], put)
  BY <1>1 DEF TabInv
<1>3. queue # <<>> /\ queue[Len(queue)] = put
  <2>1. puts[d] \in Seq(Publishable \cup {put}) /\ put \in Publishable \cup {put}
    BY <1>2, SeqMonotonic
  <2>2. Len(queue) = Len(puts[d]) + 1 /\ queue[Len(puts[d]) + 1] = put /\ Len(puts[d]) \in Nat
    BY <1>2, <2>1, AppendProperties, LenProperties
  <2> QED BY <2>2, EmptySeq
<1>4. /\ published' = [published EXCEPT ![d] = shown[d]]
      /\ shown[d] \in DeskLocks /\ shown' = shown /\ checked[d] /\ checked' = checked
      /\ UNCHANGED <<wire, open, announce>>
  BY DEF Publish, TabInv, tab
<1>5. published' \in [Desks -> DeskLocks \cup {None}] /\ published'[d] = shown[d]
  BY <1>4 DEF AgreeInv, NetInv
<1>6. NetInv'
  BY <1>4, <1>5 DEF AgreeInv, NetInv
<1>7. PageInv(d)'
  BY <1>4, <1>5, DeskLocksAreLocks, NoLockAssumption DEF PageInv
<1>8. SentInv(d)' /\ TakenInv(d)'
  BY <1>3, <1>5 DEF SentInv, TakenInv
<1> QED BY <1>6, <1>7, <1>8 DEF Agrees

(* The server takes the oldest publish; if it was the last, the task is what  *)
(* the tab published.                                                         *)
LEMMA TakesPutAgrees ==
  ASSUME DeskInv, AgreeInv, Reliable, NEW d \in Desks, NEW i, ServerTakesPut(d, i)
  PROVE  NetInv' /\ Agrees(d)'
<1> DEFINE s == puts[d]
           put == s[i]
<1>1. s \in Seq(Publishable) /\ i \in 1..Len(s) /\ i = 1
  BY DEF DeskInv, TabInv, ServerTakesPut
<1>2. /\ Without(s, i) \in Seq(Publishable) /\ Len(Without(s, i)) = Len(s) - 1
      /\ put \in Publishable
      /\ i < Len(s) => Without(s, i)[Len(s) - 1] = s[Len(s)]
  BY <1>1, WithoutIsQueue
<1>3. puts'[d] = Without(s, i)
  BY DEF ServerTakesPut, DeskInv, TabInv
<1>4. /\ UNCHANGED <<shown, checked, published, wire, open, announce>>
      /\ WriteDeskLock(put.lock)
  BY DEF ServerTakesPut, PutLock, tab, page
<1>5. task' # None /\ task'.lock = put.lock
  BY <1>2, <1>4, WriteLands, DeskLocksAreLocks DEF DeskInv, Publishable
<1>6. NetInv' /\ PageInv(d)'
  BY <1>4 DEF AgreeInv, NetInv, PageInv
<1>7. s # <<>> /\ Len(s) \in Nat
  BY <1>1, LenProperties, EmptySeq
<1>8. published[d] # None => s[Len(s)].lock = published[d]
  BY <1>7 DEF AgreeInv, SentInv
<1>9. CASE Len(s) = 1
  <2>1. puts'[d] = <<>>
    BY <1>2, <1>3, <1>9, EmptySeq
  <2>2. published[d] # None => task'.lock = published[d]
    BY <1>1, <1>5, <1>8, <1>9
  <2> QED BY <1>4, <1>6, <2>1, <2>2 DEF Agrees, SentInv, TakenInv
<1>10. CASE Len(s) # 1
  <2>1. i < Len(s) /\ Len(puts'[d]) = Len(s) - 1 /\ puts'[d] # <<>>
    <3>1. i < Len(s) /\ Len(s) - 1 > 0
      BY <1>1, <1>7, <1>10
    <3>2. Len(puts'[d]) = Len(s) - 1
      BY <1>2, <1>3
    <3> QED BY <3>1, <3>2, EmptySeq
  <2>2. puts'[d][Len(puts'[d])] = s[Len(s)]
    BY <1>2, <1>3, <2>1
  <2> QED BY <1>4, <1>6, <1>8, <2>1, <2>2 DEF Agrees, SentInv, TakenInv
<1> QED BY <1>9, <1>10

(* An answer taken puts the tab on the server's lock, when it is still the    *)
(* server's and one to take as it is.                                         *)
LEMMA TakeAnswerAgrees ==
  ASSUME TabInv, AgreeInv, NEW d \in Desks, NEW i \in Slots, NEW stock \in Stocks,
         TakeAnswer(d, i, stock)
  PROVE  NetInv' /\ Agrees(d)'
<1> DEFINE answer == reads[d][i]
           next == NormalizeLock(answer.lock, DeskOffer(d, stock))
<1>1. UNCHANGED server /\ Kept(d)
  BY TakeAnswerTabs
<1>2. /\ Rendered(d) /\ answer.status = "answered"
      /\ UNCHANGED <<puts, wire, open, announce, published>>
      /\ reads' = [reads EXCEPT ![d][i] = Idle]
      /\ checked' = [checked EXCEPT ![d] = @ \/ i = BootRead]
  BY DEF TakeAnswer, SetRead
<1>3. checked' \in [Desks -> BOOLEAN] /\ (checked[d] => checked'[d])
  BY <1>2 DEF AgreeInv, NetInv
<1>4. NetInv'
  BY <1>2, <1>3 DEF AgreeInv, NetInv
<1>5. CASE BeingTold(d) => BeingTold(d)'
  BY <1>1, <1>2, <1>3, <1>4, <1>5, CalmStep DEF AgreeInv, Agrees, Kept, server, rows
<1>6. CASE BeingTold(d) /\ ~BeingTold(d)'
  <2>1. answer.lock = task.lock
    <3>1. \A j \in Slots \ {i} : reads'[d][j] = reads[d][j]
      BY <1>2 DEF TabInv
    <3>2. ~(announce > 0 \/ ~open[d] \/ TaskFrame(wire[d]))
      BY <1>2, <1>6 DEF BeingTold, TaskFrame
    <3>3. PICK j \in Slots :
            \/ reads[d][j].status = "asked"
            \/ reads[d][j].status = "answered" /\ reads[d][j].lock = task.lock
      BY <1>6, <3>2 DEF BeingTold
    <3>4. j = i
      BY <1>1, <1>6, <3>1, <3>3 DEF BeingTold, server, rows
    <3> QED BY <1>2, <3>3, <3>4
  <2>2. ASSUME published[d] # None, shown'[d] = published[d], task # None,
               TakenAsIs(task.lock)
        PROVE  published[d] = task.lock
    <3>1. task.lock \in DeskLocks /\ answer.lock # None
      BY <2>1, <2>2, DeskLocksAreLocks, NoLockAssumption DEF TabInv
    <3>2. shown[d] = published[d]
      BY <1>2, <2>2 DEF AgreeInv, PageInv, Rendered
    <3>3. CASE shown[d] = answer.lock
      BY <2>1, <3>2, <3>3
    <3>4. CASE shown[d] # answer.lock
      <4>1. Show(d, next)
        BY <2>2, <3>1, <3>2, <3>4 DEF TakeAnswer
      <4>2. next = task.lock
        BY <2>1, <2>2, TakenAsItIs
      <4> QED BY <2>2, <4>1, <4>2 DEF Show, TabInv
    <3> QED BY <3>3, <3>4
  <2>3. PageInv(d)' /\ SentInv(d)'
    BY <1>1, <1>2, <1>3 DEF AgreeInv, PageInv, SentInv, Kept, server, rows
  <2>4. TakenInv(d)'
    BY <1>1, <1>2, <2>2 DEF TakenInv, server, rows
  <2> QED BY <1>4, <2>3, <2>4 DEF Agrees
<1> QED BY <1>5, <1>6

(* Reads asked and answered, and frames heard, keep the tab being told.       *)
LEMMA AnswersAgree ==
  ASSUME DeskInv, AgreeInv, NEW d \in Desks, NEW i \in Slots, ServerAnswers(d, i)
  PROVE  NetInv' /\ Agrees(d)'
<1> DEFINE answer == [status |-> "answered", lock |-> ServerOwnedLock, released |-> released]
<1>1. /\ UNCHANGED <<shown, puts, wire, open, announce, checked, published, task>>
      /\ reads[d][i].status = "asked"
      /\ reads' = [reads EXCEPT ![d][i] = answer]
  BY DEF ServerAnswers, SetRead, GetLock, server, rows, tab, page
<1>2. NetInv' /\ PageInv(d)' /\ SentInv(d)'
  BY <1>1 DEF AgreeInv, NetInv, PageInv, SentInv
<1>3. ASSUME task # None, task.owner = "server", BeingTold(d) PROVE BeingTold(d)'
  <2>1. reads'[d][i] = answer /\ \A j \in Slots \ {i} : reads'[d][j] = reads[d][j]
    BY <1>1 DEF DeskInv, TabInv
  <2>2. answer.status = "answered" /\ answer.lock = task.lock
    BY <1>3 DEF ServerOwnedLock
  <2> QED BY <1>1, <1>3, <2>1, <2>2 DEF BeingTold
<1>4. TakenInv(d)'
  BY <1>1, <1>3 DEF AgreeInv, TakenInv
<1> QED BY <1>2, <1>4 DEF Agrees

LEMMA DeskHearsAgrees ==
  ASSUME TabInv, AgreeInv, NEW d \in Desks, NEW stock \in Stocks, DeskHears(d, stock)
  PROVE  NetInv' /\ Agrees(d)'
<1> DEFINE notice == Head(wire[d])
<1>1. UNCHANGED server /\ Kept(d)
  BY DeskHearsTabs
<1>2. /\ Rendered(d) /\ wire[d] # <<>> /\ wire' = [wire EXCEPT ![d] = Tail(wire[d])]
      /\ UNCHANGED <<puts, open, announce, checked, published>>
  BY DEF DeskHears, page
<1>3. /\ wire[d] \in Seq(Notice) /\ wire'[d] = Tail(wire[d])
  BY <1>2 DEF AgreeInv, NetInv
<1>4. /\ wire'[d] \in Seq(Notice)
      /\ TaskFrame(wire[d]) => TaskFrame(wire'[d]) \/ notice.kind = "task"
  <2>1. TaskNotice \in Notice
    BY DEF TaskNotice, Notice, Events
  <2> QED BY <1>2, <1>3, <2>1, FramesUnderWay
<1>5. NetInv'
  BY <1>2, <1>4 DEF AgreeInv, NetInv
<1>6. BeingTold(d) => BeingTold(d)'
  <2>1. CASE notice.kind = "task"
    <3>1. PICK i \in Slots \ {BootRead} : reads' = [reads EXCEPT ![d][i] = Asked]
      BY <2>1 DEF DeskHears, SetRead
    <3>2. reads'[d][i].status = "asked"
      BY <3>1 DEF TabInv, Asked
    <3> QED BY <3>2 DEF BeingTold
  <2>2. CASE notice.kind # "task"
    <3>1. reads' = reads
      BY <2>2 DEF DeskHears
    <3> QED BY <1>1, <1>2, <1>3, <1>4, <2>2, <3>1 DEF BeingTold, TaskFrame, server, rows
  <2> QED BY <2>1, <2>2
<1> QED BY <1>1, <1>2, <1>5, <1>6, CalmStep DEF AgreeInv, Agrees, Kept, server, rows

(* Streams, reloads and a boot read given up; on a reliable network no read   *)
(* or publish is lost, and the server does not restart.                       *)
LEMMA PageAgrees ==
  ASSUME TabInv, AgreeInv, NEW d \in Desks,
         GiveUp(d) \/ StreamReady(d) \/ StreamDrop(d) \/ Reload(d)
  PROVE  NetInv' /\ Agrees(d)'
<1>1. <<>> \in Seq(Notice) /\ <<TaskNotice>> \in Seq(Notice) /\ TaskFrame(<<TaskNotice>>)
  <2>1. TaskNotice \in Notice /\ TaskNotice.kind = "task"
    BY DEF TaskNotice, Notice, Events
  <2> QED BY <2>1 DEF TaskFrame
<1>2. CASE GiveUp(d)
  <2>1. /\ UNCHANGED <<server, shown, puts, reads, wire, open, announce, published>>
        /\ checked' = [checked EXCEPT ![d] = TRUE]
    BY <1>2 DEF GiveUp, tab, net
  <2>2. NetInv' /\ checked'[d]
    BY <2>1 DEF AgreeInv, NetInv
  <2>3. BeingTold(d) => BeingTold(d)'
    BY <2>1 DEF BeingTold, TaskFrame, server, rows
  <2> QED BY <2>1, <2>2, <2>3, CalmStep DEF AgreeInv, Agrees, server, rows
<1>3. CASE StreamReady(d)
  <2>1. /\ UNCHANGED <<server, shown, puts, reads, announce, checked, published>>
        /\ open' = [open EXCEPT ![d] = TRUE] /\ wire' = [wire EXCEPT ![d] = <<TaskNotice>>]
    BY <1>3 DEF StreamReady, tab, page
  <2>2. NetInv' /\ wire'[d] = <<TaskNotice>>
    BY <1>1, <2>1 DEF AgreeInv, NetInv
  <2>3. BeingTold(d)'
    BY <1>1, <2>2 DEF BeingTold, TaskFrame
  <2> QED BY <2>1, <2>2, <2>3, CalmStep DEF AgreeInv, Agrees, server, rows
<1>4. CASE StreamDrop(d)
  <2>1. /\ UNCHANGED <<server, shown, puts, reads, announce, checked, published>>
        /\ open' = [open EXCEPT ![d] = FALSE] /\ wire' = [wire EXCEPT ![d] = <<>>]
    BY <1>4 DEF StreamDrop, tab, page
  <2>2. NetInv' /\ ~open'[d]
    BY <1>1, <2>1 DEF AgreeInv, NetInv
  <2>3. BeingTold(d)'
    BY <2>2 DEF BeingTold
  <2> QED BY <2>1, <2>2, <2>3, CalmStep DEF AgreeInv, Agrees, server, rows
<1>5. CASE Reload(d)
  <2>1. NetInv' /\ published'[d] = None
    BY <1>1, <1>5 DEF Reload, AgreeInv, NetInv
  <2> QED BY <2>1 DEF Agrees, PageInv, SentInv, TakenInv
<1> QED BY <1>2, <1>3, <1>4, <1>5

(* The panel: a press that moves the task is to be announced, and what is     *)
(* announced is told to the tab if its stream is open.                        *)
LEMMA PanelAgrees ==
  ASSUME DeskInv, AgreeInv, Panel, NEW d \in Desks
  PROVE  NetInv' /\ Agrees(d)'
<1>1. UNCHANGED <<shown, puts, reads, open, checked, published>>
  BY DEF Panel, PanelPress, PanelPressDone, PanelPressFails, PanelPressRefused, Announce,
         tab, net, page
<1>2. ASSUME task' = task, NetInv', BeingTold(d) => BeingTold(d)'
      PROVE  NetInv' /\ Agrees(d)'
  BY <1>1, <1>2, CalmStep DEF AgreeInv, Agrees
<1>3. ASSUME NEW notice \in Notice, Tell(notice), announce' = announce, task' = task
      PROVE  NetInv' /\ Agrees(d)'
  <2>1. NetInv' /\ (TaskFrame(wire[d]) => TaskFrame(wire[d])')
    BY <1>1, <1>3, TellTyped DEF AgreeInv, NetInv
  <2>2. BeingTold(d) => BeingTold(d)'
    BY <1>1, <1>3, <2>1 DEF BeingTold
  <2> QED BY <1>2, <1>3, <2>1, <2>2
<1>4. ASSUME NEW r \in Requests, NEW event, PanelPress(r, event)
      PROVE  NetInv' /\ Agrees(d)'
  <2>1. UNCHANGED <<task, wire, announce>>
    BY <1>4 DEF PanelPress, NextBegin, rows, net
  <2> QED BY <1>1, <1>2, <2>1 DEF AgreeInv, NetInv, BeingTold, TaskFrame
<1>5. \A r \in Requests : requests[r] # None =>
        NextNotice(requests[r].lock.cardId, requests[r].event) \in Notice
  BY DEF NextNotice, Notice, DeskInv, IInv, TypeOK, Press, Lock
<1>6. ASSUME NEW r \in Requests, PanelPressFails(r) PROVE NetInv' /\ Agrees(d)'
  <2>1. requests[r] # None /\ UNCHANGED <<task, announce>>
    BY <1>6 DEF PanelPressFails, NextFail, rows
  <2> QED BY <1>3, <1>5, <1>6, <2>1 DEF PanelPressFails
<1>7. ASSUME NEW from \in Cards \cup {None}, NEW event \in PanelEvents,
             PanelPressRefused(from, event)
      PROVE  NetInv' /\ Agrees(d)'
  <2>1. NextNotice(from, event) \in Notice
    BY DEF NextNotice, Notice, PanelEvents, Events
  <2> QED BY <1>3, <1>7, <2>1 DEF PanelPressRefused, server, rows
<1>8. ASSUME NEW r \in Requests, PanelPressDone(r) PROVE NetInv' /\ Agrees(d)'
  <2>1. PICK stock \in Stocks :
          /\ NextFinish(r, stock)
          /\ IF NextApproachStep(stock, released, requests[r].lock, requests[r].event)
                = requests[r].lock
             THEN /\ Tell(NextNotice(requests[r].lock.cardId, requests[r].event))
                  /\ UNCHANGED announce
             ELSE announce' = announce + 1 /\ UNCHANGED wire
    BY <1>8 DEF PanelPressDone
  <2> DEFINE to == NextApproachStep(stock, released, requests[r].lock, requests[r].event)
  <2>2. CASE to = requests[r].lock
    <3>1. requests[r] # None /\ task' = task
      BY <2>1, <2>2 DEF NextFinish, rows
    <3> QED BY <1>3, <1>5, <2>1, <2>2, <3>1
  <2>3. CASE to # requests[r].lock
    <3>1. announce' = announce + 1 /\ UNCHANGED wire /\ SetTask(to, "server")
      BY <2>1, <2>3 DEF NextFinish
    <3>2. announce' \in Nat /\ announce' > 0
      BY <3>1 DEF AgreeInv, NetInv
    <3>3. NetInv' /\ PageInv(d)'
      BY <1>1, <3>1, <3>2 DEF AgreeInv, NetInv, PageInv
    <3>4. task' # None => task'.owner = "server"
      BY <3>1 DEF SetTask
    <3>5. SentInv(d)'
      BY <1>1, <3>4 DEF AgreeInv, SentInv
    <3>6. TakenInv(d)'
      BY <3>2 DEF TakenInv, BeingTold
    <3> QED BY <3>3, <3>5, <3>6 DEF Agrees
  <2> QED BY <2>2, <2>3
<1>9. CASE Announce
  <2>1. TaskNotice \in Notice /\ TaskNotice.kind = "task"
    BY DEF TaskNotice, Notice, Events
  <2>2. /\ announce > 0 /\ announce' = announce - 1 /\ Tell(TaskNotice) /\ task' = task
    BY <1>9 DEF Announce, server, rows
  <2>3. NetInv' /\ (open[d] => TaskFrame(wire[d])')
    BY <1>1, <2>1, <2>2, TellTyped DEF AgreeInv, NetInv
  <2>4. BeingTold(d)'
    BY <1>1, <2>3 DEF BeingTold
  <2> QED BY <1>2, <2>2, <2>3, <2>4
<1> QED BY <1>4, <1>6, <1>7, <1>8, <1>9 DEF Panel

(* Every step keeps the agreement of one tab on a reliable network.           *)
LEMMA AgreeStep ==
  ASSUME OneTab, Reliable, DeskInv, AgreeInv, [DeskNext]_deskVars
  PROVE  AgreeInv'
<1>1. PICK d : Desks = {d}
  BY DEF OneTab
<1>2. d \in Desks
  BY <1>1
<1> SUFFICES NetInv' /\ Agrees(d)'
  BY <1>1 DEF AgreeInv, Agrees
<1>3. CASE DeskDecides(d)
  BY <1>2, <1>3, DecisionsAgree DEF DeskInv
<1>4. CASE DeskCalls(d)
  <2>1. ~LosePut(d) /\ \A i \in Slots : ~LoseRead(d, i)
    BY DEF LosePut, LoseRead
  <2>2. CASE Publish(d) \/ GiveUp(d)
    BY <1>2, <2>2, PublishAgrees, PageAgrees DEF DeskInv
  <2>3. CASE \E i \in 1..MaxPuts : ServerTakesPut(d, i)
    BY <1>2, <2>3, TakesPutAgrees
  <2>4. CASE \E i \in Slots : ServerAnswers(d, i)
    BY <1>2, <2>4, AnswersAgree
  <2>5. CASE \E i \in Slots, stock \in Stocks : TakeAnswer(d, i, stock)
    BY <1>2, <2>5, TakeAnswerAgrees DEF DeskInv
  <2> QED BY <1>4, <2>1, <2>2, <2>3, <2>4, <2>5 DEF DeskCalls
<1>5. CASE DeskStream(d) \/ Reload(d)
  BY <1>2, <1>5, PageAgrees, DeskHearsAgrees DEF DeskStream, DeskInv
<1>6. CASE Panel
  BY <1>2, <1>6, PanelAgrees
<1>7. CASE ServerAlone \/ UNCHANGED deskVars
  <2>1. UNCHANGED <<task, shown, puts, reads, wire, open, announce, checked, published>>
    BY <1>7
       DEF ServerAlone, GetLock, RowsExpire, ExpireRelease, ExpireCard, ExpireState,
           tab, net, page, deskVars, server, rows
  <2> QED
    BY <1>2, <2>1, CalmStep DEF AgreeInv, NetInv, Agrees, BeingTold, TaskFrame
<1>8. ~ServerRestart
  BY DEF ServerRestart
<1> QED BY <1>1, <1>3, <1>4, <1>5, <1>6, <1>7, <1>8 DEF DeskNext

\* Nothing is agreed on at first.
LEMMA InitAgreeInv == DeskInit => AgreeInv
<1> SUFFICES ASSUME DeskInit PROVE AgreeInv
  OBVIOUS
<1>1. NetInv
  BY EmptySeq DEF DeskInit, NetInv
<1>2. ASSUME NEW d \in Desks PROVE PageInv(d) /\ SentInv(d) /\ TakenInv(d)
  <2>1. published[d] = None
    BY DEF DeskInit
  <2> QED BY <2>1 DEF PageInv, SentInv, TakenInv
<1> QED BY <1>1, <1>2 DEF AgreeInv

\* When nothing is under way, what the tab shows is what the server has.
LEMMA QuietAgrees ==
  ASSUME DeskInv, AgreeInv, NEW d \in Desks, Quiet(d), task # None, TakenAsIs(task.lock)
  PROVE  shown[d] = task.lock
<1>1. task.owner \in {"desk", "server"}
  BY DEF DeskInv, IInv, TypeOK, Task, Owners
<1>2. published[d] # None /\ shown[d] = published[d] /\ puts[d] = <<>>
  BY DEF Quiet
<1>3. CASE task.owner = "desk"
  BY <1>2, <1>3 DEF AgreeInv, SentInv
<1>4. CASE task.owner = "server"
  <2>1. ~BeingTold(d)
    BY DEF Quiet, BeingTold, TaskFrame, NoReads, Idle
  <2> QED BY <1>2, <1>4, <2>1 DEF AgreeInv, TakenInv
<1> QED BY <1>1, <1>3, <1>4

(* One tab on a network that loses nothing: however publishes, reads, frames, *)
(* reloads and panel presses interleave, once nothing is under way the tab    *)
(* shows the very lock the server has up, be it a card or, as long as no gate *)
(* comes between, For You.                                                    *)
THEOREM TabAndServerAgree ==
  ASSUME OneTab, Reliable, NoGate
  PROVE  DeskSafety => []CardAgreement
<1>1. DeskInv /\ AgreeInv /\ [DeskNext]_deskVars => AgreeInv'
  BY AgreeStep
<1>2. DeskInv /\ AgreeInv => CardAgreement
  BY QuietAgrees DEF CardAgreement, TakenAsIs
<1> QED BY <1>1, <1>2, InitAgreeInv, DeskInvariance, PTL DEF DeskSafety

(* Whatever the gates do, they agree on every card.                           *)
CardsAgreed ==
  \A d \in Desks : Quiet(d) /\ task # None /\ HasCard(task.lock) => shown[d] = task.lock

(* The same for a card alone, in a system whose gates come and go.            *)
THEOREM TabAndServerAgreeOnCards ==
  ASSUME OneTab, Reliable
  PROVE  DeskSafety => []CardsAgreed
<1>1. DeskInv /\ AgreeInv /\ [DeskNext]_deskVars => AgreeInv'
  BY AgreeStep
<1>2. DeskInv /\ AgreeInv => CardsAgreed
  BY QuietAgrees DEF CardsAgreed, TakenAsIs
<1> QED BY <1>1, <1>2, InitAgreeInv, DeskInvariance, PTL DEF DeskSafety

=============================================================================
