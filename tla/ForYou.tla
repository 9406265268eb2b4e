-------------------------------- MODULE ForYou --------------------------------
(***************************************************************************)
(* The For You inbox of one user: the daily pass of the stats worker, the  *)
(* mail it sends, and the cards the operator settles in the server         *)
(* (server/src/for-you/*, desk/deskBeats.ts).  The two processes share the *)
(* tables and interleave between statements; within one, only an await     *)
(* lets another tick or request in.                                        *)
(*                                                                         *)
(* Time is the UTC day.  The user has samples enough for a digest and an   *)
(* agenda, and every skip is younger than the fortnight it counts for.     *)
(***************************************************************************)
EXTENDS Integers, FiniteSets, DeskBeats

CONSTANTS
  Ideas,       \* what a card may propose: a kind, a target, an angle
  Kind,        \* the kind of each
  Alike,       \* the ideas of the same theme as each (sameSuggestionTheme)
  Picks,       \* the sets of ideas the model may answer a pass with
  Ticks,       \* ticks of the stats worker that can overlap
  Requests,    \* requests the server can be handling at once
  MaxBatches,  \* bound: insertions of cards
  MaxRefills,  \* refills allowed: a rate an hour in the code
  MaxDay,      \* bound: days
  MaxMoves,    \* bound: what the operator does
  MaxFaults,   \* bound: calls that fail and deaths of a process
  None         \* no card

Kinds == {"post", "reply", "quote"}   \* a repost goes the way of a quote

ASSUME ForYouAssumption ==
  /\ Kind \in [Ideas -> Kinds]
  /\ Alike \in [Ideas -> SUBSET Ideas]
  /\ \A i, j \in Ideas : i \in Alike[j] => j \in Alike[i]
  /\ \A p \in Picks : p \subseteq Ideas /\ IsFiniteSet(p)
  /\ MaxBatches \in Nat /\ MaxRefills \in Nat /\ MaxDay \in Nat \ {0}
  /\ MaxMoves \in Nat /\ MaxFaults \in Nat
  /\ NoChoice \notin Forks

TTL == 2   \* days, SUGGESTION_TTL_MS

Batches == 1 .. MaxBatches
Ids == Batches \X Ideas
Days == 1 .. MaxDay
Verbs == {"done", "skipped", "dismissed"}
Card == [status : Verbs \cup {"suggested"}, expires : Int, acted : 0 .. MaxDay]

ASSUME NoCardAssumption == None \notin Card \cup Ids

VARIABLES
  today,     \* the UTC day
  cards,     \* for_you_suggestions
  runs,      \* for_you_runs: the days of the passes
  tick,      \* each tick of the worker, at this user
  optIn,     \* users.digest_email_opt_in
  sentAt,    \* users.digest_email_sent_at
  keys,      \* the idempotency keys Resend has seen
  mails,     \* mails delivered for each day
  request,   \* each request in the server
  refills,   \* refills granted
  beats,     \* desk_beats
  faults,    \* faults so far
  moves,     \* what the operator did so far
  batches,   \* insertions so far
  daily,     \* history: the batches of passes
  vetoed,    \* history: ideas skipped by the operator and suppressed
  slipped,   \* history: cards inserted by a pass that had read the skips before
  moved,     \* history: moves made since the fork of each day was chosen
  unbeaten   \* history: cards done whose beat was lost

vars == <<today, cards, runs, tick, optIn, sentAt, keys, mails, request, refills,
          beats, faults, moves, batches, daily, vetoed, slipped, moved, unbeaten>>
inbox == <<cards, batches, daily, slipped>>
mail == <<optIn, sentAt, keys, mails>>
server == <<request, refills, vetoed, unbeaten>>
ladder == <<beats, moved, moves>>

Idle == [step |-> "idle", at |-> 0, skips |-> {}, picks |-> {}]
Waiting == [step |-> "idle", card |-> None, verb |-> "done"]

Exists(c) == cards[c] # None
Open(c) == Exists(c) /\ cards[c].status = "suggested" /\ cards[c].expires > today

(* listRecentSkippedSuggestions *)
SkippedIn(rows) == {i \in Ideas : \E b \in Batches :
                      rows[<<b, i>>] # None /\ rows[<<b, i>>].status = "skipped"}

(* withoutSkippedThemes *)
Without(ideas, skips) == {i \in ideas : Alike[i] \cap skips = {}}

(* listActiveSuggestions, of which only the skipped themes are left out    *)
(* here and not the marked threads and own posts.                          *)
ListedIn(rows) ==
  {c \in Ids : /\ rows[c] # None /\ rows[c].status = "suggested"
               /\ rows[c].expires > today
               /\ c[2] \in Without(Ideas, SkippedIn(rows))}

(* One process runs one thread: nobody else of it is between two awaits. *)
WorkerFree ==
  \A k \in Ticks : tick[k].step \notin {"read", "inserted"}
ServerFree == \A r \in Requests : request[r].step \notin {"suppress", "beat"}

Init ==
  /\ today = 1
  /\ cards = [c \in Ids |-> None]
  /\ runs = {}
  /\ tick = [k \in Ticks |-> Idle]
  /\ optIn = FALSE /\ sentAt = 0 /\ keys = {}
  /\ mails = [d \in Days |-> 0]
  /\ request = [r \in Requests |-> Waiting]
  /\ refills = 0
  /\ beats = [d \in Days |-> emptyDeskBeats]
  /\ faults = 0 /\ moves = 0 /\ batches = 0 /\ daily = {} /\ vetoed = {} /\ slipped = {}
  /\ moved = [d \in Days |-> {}] /\ unbeaten = {}

NextDay ==
  /\ today < MaxDay
  /\ today' = today + 1
  /\ UNCHANGED <<inbox, runs, tick, mail, server, ladder, faults>>

(***************************************************************************)
(* The stats worker (runForYouDigestForUser).                              *)
(***************************************************************************)
RanToday == \E d \in runs : d >= today

(* The digest is built with the skips of now, and the model is asked. *)
Begin(k) ==
  /\ tick[k].step = "idle" /\ WorkerFree
  /\ ~RanToday
  /\ tick' = [tick EXCEPT ![k] = [step |-> "asked", at |-> today, picks |-> {},
                                  skips |-> SkippedIn(cards)]]
  /\ UNCHANGED <<today, inbox, runs, mail, server, ladder, faults>>

(* The model fails: the next tick tries again. *)
ChatFails(k) ==
  /\ faults < MaxFaults
  /\ faults' = faults + 1
  /\ tick[k].step = "asked" /\ WorkerFree
  /\ tick' = [tick EXCEPT ![k] = Idle]
  /\ UNCHANGED <<today, inbox, runs, mail, server, ladder>>

(* It answers, twice, with too little: the day is over. *)
ChatThin(k) ==
  /\ tick[k].step = "asked" /\ WorkerFree
  /\ runs' = runs \cup {tick[k].at}
  /\ tick' = [tick EXCEPT ![k] = Idle]
  /\ UNCHANGED <<today, inbox, mail, server, ladder, faults>>

(* What could go wrong: the set of the day before stays open. *)
ChatPicksMore(k, p) ==
  LET picks == Without(p, tick[k].skips) IN
  /\ tick[k].step = "asked" /\ WorkerFree
  /\ Cardinality(picks) >= 2 /\ \E i \in picks : Kind[i] = "post"
  /\ tick' = [tick EXCEPT ![k].step = "read", ![k].picks = picks,
                          ![k].skips = SkippedIn(cards)]
  /\ UNCHANGED <<today, inbox, runs, mail, server, ladder, faults>>

(* It answers with a set that leaves the skips of the digest out.  The     *)
(* open cards are closed as of the instant the pass began                  *)
(* (expireOpenSuggestions), and the skips are read again.                  *)
ChatPicks(k, p) ==
  LET picks == Without(p, tick[k].skips)
      at == tick[k].at
  IN
  /\ tick[k].step = "asked" /\ WorkerFree
  /\ Cardinality(picks) >= 2 /\ \E i \in picks : Kind[i] = "post"
  /\ cards' = [c \in Ids |->
       IF Exists(c) /\ cards[c].status = "suggested" /\ cards[c].expires > at
       THEN [cards[c] EXCEPT !.expires = at] ELSE cards[c]]
  /\ tick' = [tick EXCEPT ![k].step = "read", ![k].picks = picks,
                          ![k].skips = SkippedIn(cards)]
  /\ UNCHANGED <<today, runs, batches, daily, slipped, mail, server, ladder, faults>>

Suggested(at) == [status |-> "suggested", expires |-> at + TTL, acted |-> 0]

(* The rows of a batch go in at once. *)
Inserted(ideas, at) ==
  /\ batches < MaxBatches
  /\ batches' = batches + 1
  /\ cards' = [c \in Ids |-> IF c[1] = batches' /\ c[2] \in ideas
                             THEN Suggested(at) ELSE cards[c]]

(* What could go wrong: the digest was built without the skipped themes,   *)
(* so they are not looked at again.                                        *)
InsertUnfiltered(k) ==
  LET t == tick[k] IN
  /\ t.step = "read"
  /\ Inserted(t.picks, t.at)
  /\ daily' = daily \cup {batches'}
  /\ slipped' = slipped \cup
       {c \in Ids : c[1] = batches' /\ Alike[c[2]] \cap (vetoed \ t.skips) # {}}
  /\ tick' = [tick EXCEPT ![k].step = "inserted", ![k].skips = {}]
  /\ UNCHANGED <<today, runs, mail, server, ladder, faults>>

(* The rows of other themes are inserted.  A skip that came since they     *)
(* were read is not seen.                                                  *)
InsertSet(k) ==
  LET t == tick[k]
      rows == Without(t.picks, t.skips)
  IN
  /\ t.step = "read"
  /\ Inserted(rows, t.at)
  /\ daily' = daily \cup {batches'}
  /\ slipped' = slipped \cup
       {c \in Ids : c[1] = batches' /\ Alike[c[2]] \cap (vetoed \ t.skips) # {}}
  /\ tick' = [tick EXCEPT ![k].step = "inserted", ![k].picks = rows, ![k].skips = {}]
  /\ UNCHANGED <<today, runs, mail, server, ladder, faults>>

(* recordForYouRun, of the instant the pass began; then the mail           *)
(* (sendApproachDigestEmail) of a set that is not empty, to an operator    *)
(* who opted in, for a day that has had none.                              *)
RecordRun(k) ==
  LET t == tick[k] IN
  /\ t.step = "inserted"
  /\ runs' = runs \cup {t.at}
  /\ tick' = [tick EXCEPT ![k] = IF t.picks # {} /\ optIn /\ sentAt < t.at
                                 THEN [t EXCEPT !.step = "mailing", !.picks = {}] ELSE Idle]
  /\ UNCHANGED <<today, inbox, mail, server, ladder, faults>>

(* Idempotency-Key: approach/<user>/<day> *)
Key(k) == tick[k].at

(* Resend takes the request, and delivers a key once. *)
Deliver(k) ==
  /\ tick[k].step = "mailing"
  /\ keys' = keys \cup {Key(k)}
  /\ mails' = IF Key(k) \in keys THEN mails ELSE [mails EXCEPT ![tick[k].at] = @ + 1]
  /\ tick' = [tick EXCEPT ![k].step = "accepted"]
  /\ UNCHANGED <<today, inbox, runs, optIn, sentAt, server, ladder, faults>>

(* Its answer: markDigestEmailSent. *)
MailAnswered(k) ==
  /\ tick[k].step = "accepted" /\ WorkerFree
  /\ sentAt' = IF optIn THEN tick[k].at ELSE sentAt
  /\ tick' = [tick EXCEPT ![k] = Idle]
  /\ UNCHANGED <<today, inbox, runs, optIn, keys, mails, server, ladder, faults>>

(* Refused, or no answer in time: the mail may be out all the same. *)
MailFails(k) ==
  /\ faults < MaxFaults
  /\ faults' = faults + 1
  /\ tick[k].step \in {"mailing", "accepted"} /\ WorkerFree
  /\ tick' = [tick EXCEPT ![k] = Idle]
  /\ UNCHANGED <<today, inbox, runs, mail, server, ladder>>

(* Between two statements; dying in an await is like a call that fails. *)
WorkerDies ==
  /\ faults < MaxFaults
  /\ ~WorkerFree
  /\ faults' = faults + 1
  /\ tick' = [k \in Ticks |-> Idle]
  /\ UNCHANGED <<today, inbox, runs, mail, server, ladder>>

(* setDigestEmailOptIn: the preference, or the link in the mail. *)
Prefer ==
  /\ moves < MaxMoves
  /\ moves' = moves + 1
  /\ optIn' = ~optIn
  /\ UNCHANGED <<today, inbox, runs, tick, sentAt, keys, mails, server, beats, moved,
                 faults>>

(***************************************************************************)
(* The server (tryHandleForYou).                                           *)
(***************************************************************************)
(* What could go wrong: the card was open when it was read. *)
SettlesAny(c) == TRUE

(* markSuggestion: UPDATE ... WHERE status = 'suggested'. *)
Settles(c) == cards[c].status = "suggested"

(* The row is settled, and what follows is still owed; a row that is gone  *)
(* or settled answers 404.                                                 *)
Settle(r, c, v) ==
  IF Settles(c)
  THEN /\ cards' = [cards EXCEPT ![c].status = v,
                               ![c].acted = IF v = "done" THEN today ELSE 0]
       /\ request' = [request EXCEPT ![r] =
            IF v = "dismissed" THEN Waiting
            ELSE [step |-> IF v = "done" THEN "beat" ELSE "suppress",
                  card |-> c, verb |-> v]]
  ELSE /\ request' = [request EXCEPT ![r] = Waiting]
       /\ UNCHANGED cards

(* Done, Skip or Not interested.  Evidence for a reply that is turned down *)
(* is awaited before the row is written.                                   *)
Press(r, c, v) ==
  /\ request[r].step = "idle" /\ ServerFree
  /\ moves < MaxMoves
  /\ Exists(c)
  /\ moves' = moves + 1
  /\ IF cards[c].status = "suggested" /\ v # "done" /\ Kind[c[2]] = "reply"
     THEN /\ request' = [request EXCEPT ![r] = [step |-> "evidence", card |-> c, verb |-> v]]
          /\ UNCHANGED cards
     ELSE Settle(r, c, v)
  /\ UNCHANGED <<today, runs, tick, batches, daily, slipped, mail, refills, vetoed,
                 unbeaten, beats, moved, faults>>

EvidenceRead(r) ==
  /\ request[r].step = "evidence" /\ ServerFree
  /\ Settle(r, request[r].card, request[r].verb)
  /\ UNCHANGED <<today, runs, tick, batches, daily, slipped, mail, refills, vetoed,
                 unbeaten, ladder, faults>>

(* suppressMatchingSuggestions, and whether an original is to be refilled: *)
(* none is listed and the rate allows one.                                 *)
Suppress(r) ==
  LET c == request[r].card
      rows == [d \in Ids |-> IF Open(d) /\ d[2] \in Alike[c[2]]
                             THEN [cards[d] EXCEPT !.status = "skipped"]
                             ELSE cards[d]]
      lacking == \A d \in ListedIn(rows) : Kind[d[2]] # "post"
  IN
  /\ request[r].step = "suppress"
  /\ cards' = rows
  /\ vetoed' = vetoed \cup {c[2]}
  /\ IF lacking /\ refills < MaxRefills
     THEN /\ refills' = refills + 1
          /\ request' = [request EXCEPT ![r] = [Waiting EXCEPT !.step = "refill"]]
     ELSE /\ request' = [request EXCEPT ![r] = Waiting]
          /\ UNCHANGED refills
  /\ UNCHANGED <<today, runs, tick, batches, daily, slipped, mail, unbeaten, ladder,
                 faults>>

(* refillScoutOriginal: an original the model names, unless it is of a     *)
(* skipped theme.                                                          *)
Refill(r, i) ==
  /\ request[r].step = "refill" /\ ServerFree
  /\ Kind[i] = "post"
  /\ IF i \in Without(Ideas, SkippedIn(cards))
     THEN Inserted({i}, today)
     ELSE UNCHANGED <<cards, batches>>
  /\ request' = [request EXCEPT ![r] = Waiting]
  /\ UNCHANGED <<today, runs, tick, daily, slipped, mail, refills, vetoed, unbeaten,
                 ladder, faults>>

RefillFails(r) ==
  /\ faults < MaxFaults
  /\ faults' = faults + 1
  /\ request[r].step = "refill" /\ ServerFree
  /\ request' = [request EXCEPT ![r] = Waiting]
  /\ UNCHANGED <<today, runs, tick, inbox, mail, refills, vetoed, unbeaten, ladder>>

Moved(d, move) == IF beats[d].choice = NoChoice THEN moved
                  ELSE [moved EXCEPT ![d] = @ \cup {move}]

(* The beats of a card that is done, of the day it was done. *)
BeatCard(r) ==
  LET c == request[r].card
      d == cards[c].acted
      kind == Kind[c[2]]
  IN
  /\ request[r].step = "beat"
  /\ beats' = [beats EXCEPT ![d] = onCardDone(@, kind)]
  /\ moved' = CASE kind = "reply" -> Moved(d, "reply")
                [] kind = "post" -> Moved(d, "original")
                [] kind = "quote" -> moved
  /\ request' = [request EXCEPT ![r] = Waiting]
  /\ UNCHANGED <<today, runs, tick, inbox, mail, refills, vetoed, unbeaten, moves,
                 faults>>

(* The write fails and the answer is still 200. *)
BeatFails(r) ==
  /\ faults < MaxFaults
  /\ faults' = faults + 1
  /\ request[r].step = "beat"
  /\ unbeaten' = unbeaten \cup {request[r].card}
  /\ request' = [request EXCEPT ![r] = Waiting]
  /\ UNCHANGED <<today, runs, tick, inbox, mail, refills, vetoed, ladder>>

(* Between two statements; one that only awaits is asked again, or not. *)
ServerDies ==
  /\ faults < MaxFaults
  /\ ~ServerFree
  /\ faults' = faults + 1
  /\ unbeaten' = unbeaten \cup
       {request[r].card : r \in {q \in Requests : request[q].step = "beat"}}
  /\ request' = [r \in Requests |-> Waiting]
  /\ UNCHANGED <<today, runs, tick, inbox, mail, refills, vetoed, ladder>>

(***************************************************************************)
(* The rest of the desk.                                                   *)
(***************************************************************************)
(* POST /api/desk/beats *)
ChooseFork(x) ==
  /\ moves < MaxMoves
  /\ moves' = moves + 1
  /\ beats' = [beats EXCEPT ![today] = setForkChoice(@, x)]
  /\ UNCHANGED <<today, inbox, runs, tick, mail, server, moved, faults>>

PostOriginal ==
  /\ moves < MaxMoves
  /\ moves' = moves + 1
  /\ beats' = [beats EXCEPT ![today] = onOriginalPosted(@)]
  /\ moved' = Moved(today, "original")
  /\ UNCHANGED <<today, inbox, runs, tick, mail, server, faults>>

(* A reply is marked by the desk, the webhook or reply discovery, each     *)
(* with the day of its mark.                                               *)
MarkReply(d, source) ==
  /\ moves < MaxMoves
  /\ moves' = moves + 1
  /\ beats' = [beats EXCEPT ![d] = onReplyMarked(@, source)]
  /\ moved' = Moved(d, "reply")
  /\ UNCHANGED <<today, inbox, runs, tick, mail, server, faults>>

WorkerNext ==
  \/ \E k \in Ticks :
       \/ Begin(k) \/ ChatFails(k) \/ ChatThin(k) \/ \E p \in Picks : ChatPicks(k, p)
       \/ InsertSet(k) \/ RecordRun(k)
       \/ Deliver(k) \/ MailAnswered(k) \/ MailFails(k)
  \/ WorkerDies

ServerNext ==
  \/ \E r \in Requests :
       \/ \E c \in Ids, v \in Verbs : Press(r, c, v)
       \/ EvidenceRead(r) \/ Suppress(r)
       \/ RefillFails(r) \/ \E i \in Ideas : Refill(r, i)
       \/ BeatCard(r) \/ BeatFails(r)
  \/ ServerDies

DeskNext ==
  \/ Prefer
  \/ \E x \in Forks : ChooseFork(x)
  \/ PostOriginal
  \/ \E d \in 1 .. today, s \in Sources : MarkReply(d, s)

Next == NextDay \/ WorkerNext \/ ServerNext \/ DeskNext

Spec == Init /\ [][Next]_vars
-------------------------------------------------------------------------------
(***************************************************************************)
(* Properties.                                                             *)
(***************************************************************************)
Tick == [step : {"idle", "asked", "read", "inserted", "mailing", "accepted"},
         at : 0 .. MaxDay, skips : SUBSET Ideas, picks : SUBSET Ideas]
Request == [step : {"idle", "evidence", "suppress", "refill", "beat"},
            card : Ids \cup {None}, verb : Verbs]

(* Types, and that whoever is at work has a day, or a card that is there. *)
ForYouTypeOK ==
  /\ today \in Days
  /\ cards \in [Ids -> Card \cup {None}]
  /\ \A c \in Ids : Exists(c) /\ cards[c].status = "done" => cards[c].acted \in Days
  /\ runs \subseteq Days
  /\ tick \in [Ticks -> Tick]
  /\ \A k \in Ticks : tick[k].step # "idle" => tick[k].at \in 1 .. today
  /\ optIn \in BOOLEAN /\ sentAt \in 0 .. MaxDay /\ keys \subseteq Days
  /\ mails \in [Days -> Nat]
  /\ request \in [Requests -> Request]
  /\ \A r \in Requests :
       request[r].step \notin {"idle", "refill"} =>
         request[r].card \in Ids /\ Exists(request[r].card)
  /\ refills \in Nat
  /\ beats \in [Days -> Beats]
  /\ faults \in Nat /\ moves \in Nat
  /\ batches \in 0 .. MaxBatches /\ daily \subseteq 1 .. batches
  /\ vetoed \subseteq Ideas /\ slipped \subseteq Ids /\ unbeaten \subseteq Ids
  /\ moved \in [Days -> SUBSET Forks]

OneSetOpen ==
  \A c, d \in Ids : Open(c) /\ Open(d) /\ {c[1], d[1]} \subseteq daily => c[1] = d[1]

MailedOnceADay == \A d \in Days : mails[d] <= 1

(* There is one digest: the sets of two days, of two overlapping ticks, or *)
(* of a pass that died and its repetition are never open together, beside  *)
(* what the skips refilled (forYouStore.ts:241), and a day has one mail,   *)
(* though ticks overlap and answers are lost (mail.ts:149).                *)
OneDigest == OneSetOpen /\ MailedOnceADay

(* What the operator skipped does not come back as another card of the     *)
(* same theme, though the model was asked before the skip: but for one     *)
(* that lands between the two statements of an insertion in the other      *)
(* process, which the list then hides (forYouStore.ts:175).                *)
VetoKept ==
  /\ \A c \in Ids \ slipped : Open(c) => Alike[c[2]] \cap vetoed = {}
  /\ \A c \in ListedIn(cards) : Alike[c[2]] \cap vetoed = {}

(* A card is settled once: of two requests, one of which awaited its       *)
(* evidence, the later finds it gone (forYouStore.ts:366).                 *)
SettledOnce ==
  [][\A c \in Ids : Exists(c) /\ cards[c].status # "suggested" => cards'[c] = cards[c]]_vars

(* The ladder of a day is true: its fork is taken by a move of its own     *)
(* kind made after the choice, and a card that is done has counted as an   *)
(* organic reply, unless its beat was lost (forYouHttp.ts:130).            *)
LadderIsTrue ==
  /\ \A d \in Days : beats[d].done => beats[d].choice \in moved[d]
  /\ \A c \in Ids :
       Exists(c) /\ cards[c].status = "done" =>
         \/ beats[cards[c].acted].organic
         \/ c \in unbeaten
         \/ \E r \in Requests : request[r].step = "beat" /\ request[r].card = c
===============================================================================
