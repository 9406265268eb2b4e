---------------------------- MODULE ApproachServer ----------------------------
(* The server's half of the Approach task for one user: the task row with its *)
(* owner, the ledger of released cards, and the three rows the extension      *)
(* panel reads (locked card, next card, desk state).  Handlers run on one     *)
(* Node thread, so everything between two awaits is one step.  The one await  *)
(* that matters is in advanceApproachOnServer: it reads the task, waits for   *)
(* the stock, and then writes what the task it read leads to.                 *)
(*                                                                            *)
(* Time is the number of own posts made so far: the code compares only the    *)
(* instant of a post with the instant the task row was last written.  The     *)
(* task's version counter is left out: no reader of it decides anything.      *)
EXTENDS ApproachPhase

CONSTANTS
  Requests,   \* panel presses the server can be handling at once
  Stocks,     \* the stocks a press may find
  MaxPosts    \* bound: own posts made in one behaviour

ASSUME ServerAssumption ==
  /\ Stocks \subseteq Stock
  /\ MaxPosts \in Nat
  /\ None \notin Requests

VARIABLES
  task,      \* approach_tasks row: [lock, owner, since], None before a desk wrote one
  released,  \* approach_released: cards not to be offered again
  card,      \* scout_approach_locks row: the thread under reply, or None
  upNext,    \* scout_approach_next row: [card], None when absent
  state,     \* scout_approach_state row, None when absent
  requests,  \* what each press read before its await: [lock, event], None when idle
  posts,     \* own posts made so far
  originals, \* which of them are originals
  replied    \* threads the operator replied to

rows == <<task, released, card, upNext, state>>
world == <<posts, originals, replied>>
vars == <<rows, requests, world>>

Owners == {"desk", "server"}
Views == {"scout", "suggestion", "for_you", "collecting", "other"}
NoPost == 0

Task == [lock : Lock, owner : Owners, since : Nat]
DeskState == [view : Views, detected : BOOLEAN,
              suggestion : Suggestions \cup {None}, post : Nat]
Preview == [card : Threads \cup {None}]
Press == [lock : Lock, event : Events]

\* No row and no press is null.
ASSUME NullAssumption == None \notin Task \cup DeskState \cup Preview \cup Press

TypeOK ==
  /\ task \in Task \cup {None}
  /\ released \subseteq Cards
  /\ card \in Threads \cup {None}
  /\ upNext \in Preview \cup {None}
  /\ state \in DeskState \cup {None}
  /\ requests \in [Requests -> Press \cup {None}]
  /\ posts \in Nat
  /\ originals \subseteq 1..posts
  /\ replied \subseteq Threads

Init ==
  /\ task = None /\ released = {} /\ card = None /\ upNext = None /\ state = None
  /\ requests = [r \in Requests |-> None]
  /\ posts = 0 /\ originals = {} /\ replied = {}

-----------------------------------------------------------------------------
(* What the rows say about a lock.                                            *)

\* The thread the operator replies to on this lock, if it is a reply card.
ReplyThread(lock) ==
  IF lock.phase = "scout_reply" THEN lock.cardId
  ELSE IF lock.phase = "organic_reply" /\ lock.cardId # None
       THEN IF Kind[lock.cardId] = "reply" THEN Target[lock.cardId] ELSE None
  ELSE None

ViewOf(lock) ==
  IF IsForYouTask(lock) THEN "for_you"
  ELSE IF lock.phase = "scout_reply" /\ lock.cardId # None THEN "scout"
  ELSE IF lock.phase = "organic_reply" /\ lock.cardId # None THEN "suggestion"
  ELSE IF lock.phase \in {"scout_reply", "done_for_now"} THEN "collecting"
  ELSE "other"

\* named: whether the writer has the suggestion row at hand to describe it.
StateFor(lock, detected, named, post) ==
  [view |-> ViewOf(lock), detected |-> detected,
   suggestion |-> IF ViewOf(lock) = "suggestion" /\ named THEN lock.cardId ELSE None,
   post |-> post]

IsOriginalCard(lock) ==
  /\ lock.phase = "organic_reply" /\ lock.cardId # None
  /\ Kind[lock.cardId] = "post"

-----------------------------------------------------------------------------
(* Writers of the task row and the ledger.                                    *)

\* setApproachTask: a write that changes nothing keeps the row's instant.
SetTask(lock, owner) ==
  task' = IF task # None /\ task.lock = lock /\ task.owner = owner
          THEN task ELSE [lock |-> lock, owner |-> owner, since |-> posts]

\* The desk publishes the lock the server moved it to.
AcknowledgesServerLock(lock) ==
  task # None /\ task.owner = "server" /\ task.lock = lock

\* A desk that moves its own card on releases the card it left.
LeftByDesk(lock) ==
  IF task # None /\ task.owner = "desk" /\ task.lock.cardId \notin {None, lock.cardId}
  THEN {task.lock.cardId} ELSE {}

WriteDeskLock(lock) ==
  IF AcknowledgesServerLock(lock) THEN UNCHANGED <<task, released>>
  ELSE /\ released' = released \cup LeftByDesk(lock)
       /\ SetTask(lock, "desk")

\* An undetected publish of a described original keeps the detection stored for it.
KeepDetectedOriginal(stored, incoming) ==
  IF /\ ~incoming.detected /\ incoming.suggestion # None
     /\ Kind[incoming.suggestion] = "post"
     /\ stored # None /\ stored.view = "suggestion" /\ stored.detected
     /\ stored.suggestion = incoming.suggestion
  THEN [incoming EXCEPT !.detected = TRUE, !.post = stored.post]
  ELSE incoming

\* The desk's own detection, from the replies and posts it has seen.  On an
\* original it waits from the moment the card came up on it, so the first
\* publish of a new card never carries a post made before it.
DeskDetected(lock, named, post) ==
  \/ ReplyThread(lock) \in replied /\ post = NoPost
  \/ /\ IsOriginalCard(lock) /\ named /\ post \in originals
     /\ task # None /\ task.lock = lock /\ post > task.since
  \/ IsForYouTask(lock) /\ posts > 0 /\ post = NoPost

\* A desk names a next card only where a remote Next can act, and never the
\* card it is on.
DeskPreview(lock, preview) ==
  \/ preview = None
  \/ /\ RemoteNextCanApply(lock) /\ preview \in Preview
     /\ preview.card \in Scouts \cup {None}
     /\ preview.card = None \/ preview.card # lock.cardId

\* What a desk can publish.  Without the suggestion row at hand it publishes
\* neither its thread nor its description (named = FALSE).
DeskCanPublish(lock, detected, named, post, preview) ==
  /\ detected => DeskDetected(lock, named, post)
  /\ ~detected => post = NoPost
  /\ named \/ ViewOf(lock) = "suggestion"
  /\ DeskPreview(lock, preview)

\* PUT /api/scout-approach-lock: one step from body to the last row write.
PutLock(lock, detected, named, post, preview) ==
  /\ WriteDeskLock(lock)
  /\ card' = IF named THEN ReplyThread(lock) ELSE None
  /\ upNext' = preview
  /\ state' = KeepDetectedOriginal(state, StateFor(lock, detected, named, post))
  /\ UNCHANGED <<requests, world>>

\* GET on the same path describes a suggestion the stored state only names.
GetLock ==
  /\ task # None /\ task.lock.phase = "organic_reply" /\ task.lock.cardId # None
  /\ state # None /\ state.view = "suggestion" /\ state.suggestion = None
  /\ state' = [state EXCEPT !.suggestion = task.lock.cardId]
  /\ UNCHANGED <<task, released, card, upNext, requests, world>>

-----------------------------------------------------------------------------
(* A press in the panel: POST /api/desk/approach/next.                        *)

\* The request names the card the panel shows, or For You, for which only Next
\* exists.
ServerNextApplies(lock, event) ==
  IF IsForYouTask(lock) THEN event = "next"
  ELSE /\ lock.phase \in {"scout_reply", "organic_reply"} /\ lock.cardId # None
       /\ event \in {"next", "skip", "dismiss", "posted"}

\* I posted on X, on a reply card, is the desk's Next.
ServerNextEvent(lock, event) ==
  IF event = "posted" /\ lock.cardId \in Suggestions /\ ReplyThread(lock) # None
  THEN "next" ELSE event

\* The task is read, and the handler waits for tank, replies, history, snapshot
\* and missions.
NextBegin(r, event) ==
  /\ requests[r] = None
  /\ task # None /\ ServerNextApplies(task.lock, event)
  /\ requests' = [requests EXCEPT
       ![r] = [lock |-> task.lock, event |-> ServerNextEvent(task.lock, event)]]
  /\ UNCHANGED <<rows, world>>

\* Mutant: a next card is named whatever the lock.
FollowingAnyLock(stock, ledger, lock) ==
  LET next == NextApproachStep(stock, ledger, lock, "next")
  IN  IF next # lock /\ next.phase # "organic_reply"
      THEN [card |-> ReplyThread(next)] ELSE None

\* The card to name after the one just locked; suggestions are not named.
Following(stock, ledger, lock) ==
  LET next == NextApproachStep(stock, ledger, lock, "next")
  IN  IF RemoteNextCanApply(lock) /\ next # lock /\ next.phase # "organic_reply"
      THEN [card |-> ReplyThread(next)] ELSE None

\* The ledger a press leaves: releasing the card the press was made on.
ReleasedBy(from, to) ==
  released \cup (IF from.cardId \notin {None, to.cardId} THEN {from.cardId} ELSE {})

\* For You detection is left to the panel: no state row.
PublishedState(lock) ==
  IF IsForYouTask(lock) THEN None ELSE StateFor(lock, FALSE, TRUE, NoPost)

\* The waiting is over: the ledger and suggestions are read, and the step from
\* the task read before the wait is written over whatever the rows hold now.
NextFinish(r, stock) ==
  /\ requests[r] # None
  /\ LET from == requests[r].lock
         to == NextApproachStep(stock, released, from, requests[r].event)
     IN  IF to = from THEN UNCHANGED rows
         ELSE /\ released' = ReleasedBy(from, to)
              /\ SetTask(to, "server")
              /\ card' = ReplyThread(to)
              /\ upNext' = Following(stock, ReleasedBy(from, to), to)
              /\ state' = PublishedState(to)
  /\ requests' = [requests EXCEPT ![r] = None]
  /\ UNCHANGED world

\* Loading the stock throws: the press is dropped.
NextFail(r) ==
  /\ requests[r] # None
  /\ requests' = [requests EXCEPT ![r] = None]
  /\ UNCHANGED <<rows, world>>

\* The process restarts: every press it was handling is dropped.
ServerStops ==
  /\ \E r \in Requests : requests[r] # None
  /\ requests' = [r \in Requests |-> None]
  /\ UNCHANGED <<rows, world>>

-----------------------------------------------------------------------------
(* The operator on X, and the wake calls that tell the server of it.          *)

PostOriginal ==
  /\ posts < MaxPosts
  /\ posts' = posts + 1 /\ originals' = originals \cup {posts + 1}
  /\ UNCHANGED <<rows, requests, replied>>

PostReply(t) ==
  /\ posts < MaxPosts
  /\ posts' = posts + 1 /\ replied' = replied \cup {t}
  /\ UNCHANGED <<rows, requests, originals>>

DetectForYou(p) ==
  /\ task # None /\ IsForYouTask(task.lock) /\ p > task.since
  /\ ~(state # None /\ state.view = "for_you" /\ state.detected)
  /\ state' = StateFor(task.lock, TRUE, FALSE, NoPost)

DetectOriginal(p) ==
  /\ task # None /\ IsOriginalCard(task.lock) /\ p \in originals /\ p > task.since
  /\ ~(state # None /\ state.view = "suggestion" /\ state.detected
       /\ state.suggestion = task.lock.cardId)
  /\ state' = StateFor(task.lock, TRUE, TRUE, p)

\* detectOwnPostForApproach: told of post p, early, late or again.
SeeOwnPost(p) ==
  /\ DetectForYou(p) \/ DetectOriginal(p)
  /\ UNCHANGED <<task, released, card, upNext, requests, world>>

\* Mutant: any reply marks the card.
SeeAnyReply(t) ==
  /\ t \in replied /\ card # None
  /\ state # None /\ ~state.detected /\ state.view \in {"scout", "suggestion"}
  /\ state.suggestion # None => Kind[state.suggestion] # "post"
  /\ state' = [state EXCEPT !.detected = TRUE]
  /\ UNCHANGED <<task, released, card, upNext, requests, world>>

\* detectReplyForApproach: told of a reply to thread t.
SeeReply(t) ==
  /\ t \in replied /\ card = t
  /\ state # None /\ ~state.detected /\ state.view \in {"scout", "suggestion"}
  /\ state.suggestion # None => Kind[state.suggestion] # "post"
  /\ state' = [state EXCEPT !.detected = TRUE]
  /\ UNCHANGED <<task, released, card, upNext, requests, world>>

\* Rows are forgotten 24 hours after they were written.  Card and preview are
\* written together, the state with them or after them.
ExpireRelease(c) ==
  /\ c \in released /\ released' = released \ {c}
  /\ UNCHANGED <<task, card, upNext, state, requests, world>>

ExpireCard ==
  /\ card # None \/ upNext # None
  /\ card' = None /\ upNext' = None
  /\ UNCHANGED <<task, released, state, requests, world>>

ExpireState ==
  /\ state # None /\ card = None /\ upNext = None
  /\ state' = None
  /\ UNCHANGED <<task, released, card, upNext, requests, world>>

-----------------------------------------------------------------------------

\* The locks a desk can be on.
DeskLocks ==
  {ScoutLock(c) : c \in Scouts \cup {None}} \cup {OrganicLock(s) : s \in Suggestions}
  \cup {ForYouLock, HoldLock, DoneLock} \cup {SurfaceLock(g) : g \in Gates}

DeskPublishes ==
  \E lock \in DeskLocks, detected, named \in BOOLEAN, post \in 0..posts,
     preview \in Preview \cup {None} :
       /\ DeskCanPublish(lock, detected, named, post, preview)
       /\ PutLock(lock, detected, named, post, preview)

PanelPresses == \E r \in Requests :
  \/ \E event \in Events : NextBegin(r, event)
  \/ \E stock \in Stocks : NextFinish(r, stock)
  \/ NextFail(r)

OperatorPosts == PostOriginal \/ \E t \in Threads : PostReply(t)

ServerHears == (\E p \in 1..posts : SeeOwnPost(p)) \/ (\E t \in Threads : SeeReply(t))

RowsExpire == (\E c \in Cards : ExpireRelease(c)) \/ ExpireCard \/ ExpireState

Next == DeskPublishes \/ GetLock \/ PanelPresses \/ ServerStops \/ OperatorPosts
        \/ ServerHears \/ RowsExpire

Spec == Init /\ [][Next]_vars

-----------------------------------------------------------------------------

(* The panel's rows speak of the card the task is on, whichever of a desk, a  *)
(* panel press, a detection or a heal wrote them last.                        *)
RowsFollowTask ==
  /\ card # None => task # None /\ card = ReplyThread(task.lock)
  /\ state # None =>
       /\ task # None /\ state.view = ViewOf(task.lock)
       /\ state.suggestion # None => state.suggestion = task.lock.cardId

(* A reply card marked detected really was replied to, although the reply is  *)
(* matched against the card row and shown on the task's card.                 *)
DetectedReplyWasSent ==
  state # None /\ state.detected /\ ReplyThread(task.lock) # None
    => ReplyThread(task.lock) \in replied

(* A post shown on an original card is an original the operator made after    *)
(* that card came up, never one made for an earlier card.                     *)
DetectedOriginalIsNewer ==
  state # None /\ state.post # NoPost =>
    state.post \in originals /\ state.post > task.since

(* While the server owns the task, its card is not in the ledger of released  *)
(* cards: the server never puts a released card up again, also when presses   *)
(* overlap or were read from a task that has moved on.                        *)
ServedCardIsNotReleased ==
  task # None /\ task.owner = "server" => task.lock.cardId \notin released

(* The next card is named only where a Next from the panel can act, and is    *)
(* never the card already up.                                                 *)
PreviewFollowsTask ==
  upNext # None =>
    /\ task # None /\ RemoteNextCanApply(task.lock)
    /\ upNext.card # None => upNext.card # card

(* What the panel shows is one story: its rows and the name of the next card  *)
(* are always about the lock of the task, whoever wrote them last.            *)
PanelInStep == RowsFollowTask /\ PreviewFollowsTask

(* What is marked detected was really sent: the reply to a reply card, a      *)
(* newer original to an original card (approachOriginalDetect.ts:31, 74).     *)
DetectionsHold == DetectedReplyWasSent /\ DetectedOriginalIsNewer

(* A press moves the task only while the task is on the card the press names  *)
(* (approachServerNext.test.ts: refuses a Skip or Not interested for a card   *)
(* the lock is not on).                                                       *)
PressMovesItsOwnCard ==
  [][ \A r \in Requests :
        requests[r] # None /\ requests'[r] = None /\ task' # task
          => requests[r].lock.cardId = task.lock.cardId ]_vars

=============================================================================
