---------------------------- MODULE ApproachPhase ----------------------------
(* The card ladder of the Approach desk: what card a lock moves to when the   *)
(* operator presses a button.  Pure operators.  The program holds this ladder *)
(* twice, once for the server (server/src/desk/approachPhase.ts and           *)
(* approachSelector.ts) and once for the desk (shared/src/deskPhase.ts and    *)
(* approachCard.ts); the two copies take the same decisions.                  *)
(*                                                                            *)
(* A scout card is named by the X thread it points at.  A suggestion has an   *)
(* id of its own, a kind and, for a reply, the thread it answers.             *)
EXTENDS Integers

CONSTANTS
  Threads,      \* X threads a card can point at or a reply can land on
  Scouts,       \* the threads the scout tank can hold
  Suggestions,  \* For You suggestion ids
  Kind,         \* Kind[s]: what suggestion s asks for
  Target,       \* Target[s]: the thread s points at, or None
  Rank,         \* the order in which tank and suggestion list are scanned
  None          \* JavaScript's null

Cards == Scouts \cup Suggestions
Kinds == {"post", "quote", "repost", "reply"}
Phases == {"needs_onboarding", "hold", "scout_reply", "organic_reply",
           "silent_refuel", "done_for_now"}
Gates == {"link_x", "settings"}
Surfaces == {"for_you", "usage", "wait"} \cup Gates
Events == {"next", "skip", "dismiss", "mark", "bypass", "posted"}

ASSUME CardsAssumption ==
  /\ Scouts \subseteq Threads
  /\ Threads \cap Suggestions = {}
  /\ None \notin Threads \cup Suggestions \cup Phases \cup Surfaces
  /\ Kind \in [Suggestions -> Kinds]
  /\ Target \in [Suggestions -> Threads \cup {None}]

\* Scanning order: every non-empty set of cards has a first one.
ASSUME RankAssumption ==
  /\ Rank \in [Cards -> Nat]
  /\ \A S \in (SUBSET Cards) \ {{}} : \E c \in S : \A d \in S : Rank[c] <= Rank[d]

\* Only the two card phases hold a card, of their own kind and on no surface.
Lock ==
  {l \in [phase : Phases, cardId : Cards \cup {None}, surface : Surfaces \cup {None}] :
     /\ l.cardId \in Scouts => l.phase = "scout_reply"
     /\ l.cardId \in Suggestions => l.phase = "organic_reply"
     /\ l.phase \in {"scout_reply", "organic_reply"} => l.surface = None}

ScoutLock(c) == [phase |-> "scout_reply", cardId |-> c, surface |-> None]
OrganicLock(s) == [phase |-> "organic_reply", cardId |-> s, surface |-> None]
SurfaceLock(g) == [phase |-> "silent_refuel", cardId |-> None, surface |-> g]
ForYouLock == SurfaceLock("for_you")
HoldLock == [phase |-> "hold", cardId |-> None, surface |-> "for_you"]
DoneLock == [phase |-> "done_for_now", cardId |-> None, surface |-> None]

\* The card waits on x.com/home and not on a card of its own.
IsForYouTask(lock) ==
  \/ lock.phase = "hold"
  \/ lock.phase = "silent_refuel" /\ lock.surface = "for_you"

-----------------------------------------------------------------------------
(* The stock a decision is taken from, and what of it is on offer.            *)

Stock ==
  [scouts        : SUBSET Scouts,        \* the saved tank
   suggestions   : SUBSET Suggestions,   \* the active suggestion rows
   interacted    : SUBSET Threads,       \* threads on reply cooldown
   history       : SUBSET Threads,       \* threads the reply history names
   gate          : Gates \cup {None},    \* a missing prerequisite
   replyDone     : BOOLEAN,              \* a scouted reply was made today
   originalOpen  : BOOLEAN]              \* original_1 exists and is not met

Offer == [scoutId : Scouts \cup {None}, suggestionId : Suggestions \cup {None},
          gate : Gates \cup {None}, canPresentForYou : BOOLEAN]

First(S) == CHOOSE c \in S : \A d \in S : Rank[c] <= Rank[d]
FirstOrNone(S) == IF S = {} THEN None ELSE First(S)

CanServeOriginal(stock, afterForYou) ==
  (stock.replyDone \/ afterForYou) /\ stock.originalOpen

\* The first paced row whose thread was not answered yet, else an earned post.
PickSuggestion(rows, stock, afterForYou) ==
  LET paced == {s \in rows : /\ Kind[s] # "post"
                             /\ Target[s] \notin stock.interacted \cup stock.history}
      posts == {s \in rows : Kind[s] = "post"}
  IN  IF paced = {} /\ CanServeOriginal(stock, afterForYou)
      THEN FirstOrNone(posts) ELSE FirstOrNone(paced)

\* Mutant: released suggestions stay on offer.
InventoryForgetsReleased(stock, released, exclude, afterForYou) ==
  [scoutId |-> FirstOrNone(stock.scouts \ (stock.interacted \cup released \cup {exclude})),
   suggestionId |-> PickSuggestion(stock.suggestions \ {exclude}, stock, afterForYou),
   gate |-> stock.gate,
   canPresentForYou |-> stock.gate = None]

Inventory(stock, released, exclude, afterForYou) ==
  [scoutId |-> FirstOrNone(stock.scouts \ (stock.interacted \cup released \cup {exclude})),
   suggestionId |->
     PickSuggestion(stock.suggestions \ (released \cup {exclude}), stock, afterForYou),
   gate |-> stock.gate,
   canPresentForYou |-> stock.gate = None]

-----------------------------------------------------------------------------
(* The ladder itself.                                                         *)

NextScoutCard(scoutId, exclude) ==
  ScoutLock(IF scoutId # exclude THEN scoutId ELSE None)

\* Scout and suggestion cards alternate; For You comes between them when the
\* other kind is out, and an empty desk collects.
NextInventoryCard(inv, exclude, previous, preferSuggestion) ==
  LET hasScout == inv.scoutId \notin {None, exclude}
      hasSuggestion == inv.suggestionId \notin {None, exclude}
      fromCard == previous \in {"scout_reply", "organic_reply"}
  IN  IF previous = "scout_reply" /\ hasSuggestion THEN OrganicLock(inv.suggestionId)
      ELSE IF previous = "organic_reply" /\ hasScout THEN ScoutLock(inv.scoutId)
      ELSE IF previous = "organic_reply" /\ preferSuggestion /\ hasSuggestion
           THEN OrganicLock(inv.suggestionId)
      ELSE IF fromCard /\ inv.canPresentForYou THEN ForYouLock
      ELSE IF hasScout THEN ScoutLock(inv.scoutId)
      ELSE IF hasSuggestion THEN OrganicLock(inv.suggestionId)
      ELSE IF previous \in {"hold", "silent_refuel"} THEN DoneLock
      ELSE IF inv.canPresentForYou THEN ForYouLock
      ELSE IF inv.gate # None THEN SurfaceLock(inv.gate)
      ELSE DoneLock

AdvanceDone(lock, inv) ==
  IF inv.scoutId = None /\ inv.suggestionId = None THEN lock
  ELSE NextInventoryCard([inv EXCEPT !.canPresentForYou = FALSE], None, None, FALSE)

AdvanceScout(lock, event, inv) ==
  IF event = "next" /\ lock.cardId = None
    THEN IF inv.scoutId = None THEN lock ELSE NextScoutCard(inv.scoutId, None)
  ELSE IF event = "next" THEN NextInventoryCard(inv, lock.cardId, lock.phase, FALSE)
  ELSE IF event = "mark" /\ inv.scoutId = None THEN ScoutLock(None)
  ELSE IF event \in {"skip", "dismiss"} THEN NextScoutCard(inv.scoutId, lock.cardId)
  ELSE lock

AdvanceOrganic(lock, event, inv) ==
  IF event \in {"next", "posted", "skip", "dismiss"}
  THEN NextInventoryCard(inv, lock.cardId, lock.phase, event = "next")
  ELSE lock

AdvanceApproach(lock, event, inv) ==
  IF lock.phase = "done_for_now" THEN AdvanceDone(lock, inv)
  ELSE IF IsForYouTask(lock) /\ event \in {"next", "bypass"}
    THEN NextInventoryCard(inv, None, lock.phase, FALSE)
  ELSE IF lock.phase = "scout_reply" THEN AdvanceScout(lock, event, inv)
  ELSE IF lock.phase = "organic_reply" THEN AdvanceOrganic(lock, event, inv)
  ELSE lock

\* One press: the lock it leads to, the same lock when it leads nowhere.
NextApproachStep(stock, released, lock, event) ==
  AdvanceApproach(lock, event,
                  Inventory(stock, released, lock.cardId, IsForYouTask(lock)))

\* A panel's Next can act on this lock, so the card after it is worth naming.
RemoteNextCanApply(lock) ==
  IsForYouTask(lock) \/ (lock.phase = "scout_reply" /\ lock.cardId # None)

=============================================================================
