----------------------------- MODULE ForYouProofs -----------------------------
(***************************************************************************)
(* Proofs about ForYou, for any number of ideas, ticks, requests, days and *)
(* faults: one set is open and one mail sent a day, a veto is kept, a card *)
(* is settled once, and the ladder of the day is true.                     *)
(***************************************************************************)
EXTENDS ForYou, TLAPS

-----------------------------------------------------------------------------
(* The invariant, in parts.                                                  *)

(* The rows: those of batches to come are not there. *)
CardsOK ==
  /\ today \in Days
  /\ cards \in [Ids -> Card \cup {None}]
  /\ batches \in 0 .. MaxBatches /\ daily \subseteq 1 .. batches
  /\ \A c \in Ids : c[1] > batches => cards[c] = None
  /\ \A c \in Ids : Exists(c) /\ cards[c].status = "done" => cards[c].acted \in Days

(* The worker: one tick at most is between two awaits. *)
Busy(k) == tick[k].step \in {"read", "inserted"}

TicksOK ==
  /\ runs \subseteq Days
  /\ tick \in [Ticks -> Tick]
  /\ \A k \in Ticks : tick[k].step # "idle" => tick[k].at \in 1 .. today
  /\ \A k, l \in Ticks : Busy(k) /\ Busy(l) => k = l

(* The mail: a day whose key Resend has not seen has had none. *)
MailOK ==
  /\ optIn \in BOOLEAN /\ sentAt \in 0 .. MaxDay /\ keys \subseteq Days
  /\ mails \in [Days -> {0, 1}]
  /\ \A d \in Days : d \notin keys => mails[d] = 0

(* A request holds a card that it has settled, once it has settled one. *)
RequestOK(q) ==
  /\ q \in Request
  /\ q.step \notin {"idle", "refill"} => q.card \in Ids /\ Exists(q.card)
  /\ q.step = "suppress" => cards[q.card].status = "skipped"
  /\ q.step = "beat" => cards[q.card].status = "done"

RequestsOK ==
  /\ request \in [Requests -> Request]
  /\ \A r \in Requests : RequestOK(request[r])

(* A fork is chosen after an organic reply, and taken by its own move. *)
DayOK(b, m) ==
  /\ b \in Beats /\ m \in SUBSET Forks
  /\ b.choice # NoChoice => b.organic
  /\ b.done => b.choice \in m

LadderOK ==
  /\ beats \in [Days -> Beats] /\ moved \in [Days -> SUBSET Forks]
  /\ \A d \in Days : DayOK(beats[d], moved[d])

(* Counters and histories; what was vetoed is skipped in the rows. *)
HistoryOK ==
  /\ refills \in Nat /\ faults \in Nat /\ moves \in Nat
  /\ slipped \subseteq Ids /\ unbeaten \subseteq Ids
  /\ vetoed \subseteq SkippedIn(cards)

(* A tick about to insert has closed the sets before. *)
SetsOK ==
  /\ OneSetOpen
  /\ \A k \in Ticks : tick[k].step = "read" =>
       \A c \in Ids : c[1] \in daily => ~Open(c)

OpenOK == \A c \in Ids \ slipped : Open(c) => Alike[c[2]] \cap vetoed = {}

DoneOK ==
  \A c \in Ids :
    Exists(c) /\ cards[c].status = "done" =>
      \/ beats[cards[c].acted].organic
      \/ c \in unbeaten
      \/ \E r \in Requests : request[r].step = "beat" /\ request[r].card = c

TypeInv == CardsOK /\ TicksOK /\ MailOK /\ RequestsOK /\ LadderOK /\ HistoryOK
IInv == TypeInv /\ SetsOK /\ OpenOK /\ DoneOK

-----------------------------------------------------------------------------
(* Data.                                                                     *)

\* No row is None, and neither is an id.
LEMMA NoneIsNoCard == None \notin Card /\ None \notin Ids
BY NoCardAssumption

\* A reply leaves a day in order: when the fork is chosen it is a move.
LEMMA ReplyKeepsDay ==
  ASSUME NEW b, NEW m, DayOK(b, m), NEW source \in Sources
  PROVE  /\ DayOK(onReplyMarked(b, source),
                  IF b.choice = NoChoice THEN m ELSE m \cup {"reply"})
         /\ b.organic => onReplyMarked(b, source).organic
BY ForYouAssumption DEF DayOK, Beats, onReplyMarked, Forks, Sources

\* So does an original.
LEMMA OriginalKeepsDay ==
  ASSUME NEW b, NEW m, DayOK(b, m)
  PROVE  /\ DayOK(onOriginalPosted(b),
                  IF b.choice = NoChoice THEN m ELSE m \cup {"original"})
         /\ b.organic => onOriginalPosted(b).organic
BY ForYouAssumption DEF DayOK, Beats, onOriginalPosted, Forks

\* The fork is chosen on a day that has not taken it.
LEMMA ChoiceKeepsDay ==
  ASSUME NEW b, NEW m, DayOK(b, m), NEW x \in Forks
  PROVE  /\ DayOK(setForkChoice(b, x), m)
         /\ b.organic => setForkChoice(b, x).organic
BY ForYouAssumption DEF DayOK, Beats, setForkChoice, Forks

\* The moves a card that is done stands for.
CardMoves(b, m, kind) ==
  IF b.choice = NoChoice \/ kind = "quote" THEN m
  ELSE m \cup {IF kind = "reply" THEN "reply" ELSE "original"}

\* A card that is done leaves the day in order, and its organic reply made.
LEMMA CardKeepsDay ==
  ASSUME NEW b, NEW m, DayOK(b, m), NEW kind \in Kinds
  PROVE  /\ DayOK(onCardDone(b, kind), CardMoves(b, m, kind))
         /\ onCardDone(b, kind).organic
<1>1. b \in Beats /\ b.choice \in {"original", "reply", NoChoice}
  BY DEF DayOK, Beats, Forks
<1>2. CASE kind = "reply"
  BY <1>1, <1>2, ForYouAssumption
  DEF DayOK, Beats, onCardDone, CardMoves, onReplyMarked, Forks
<1>3. CASE kind = "quote"
  BY <1>1, <1>3, ForYouAssumption
  DEF DayOK, Beats, onCardDone, CardMoves, onReplyMarked, Forks
<1>4. CASE kind = "post"
  BY <1>1, <1>4, ForYouAssumption
  DEF DayOK, Beats, onCardDone, CardMoves, onReplyMarked, onOriginalPosted, Forks
<1> QED BY <1>2, <1>3, <1>4 DEF Kinds

\* A new row is a card.
LEMMA SuggestedIsCard ==
  ASSUME NEW at \in Days
  PROVE  Suggested(at) \in Card /\ Suggested(at).status = "suggested"
BY ForYouAssumption DEF Suggested, Card, Days, TTL

-----------------------------------------------------------------------------
(* What each process leaves alone.                                           *)

\* The desk leaves the worker, the rows and the requests alone.
LEMMA DeskFrame ==
  ASSUME DeskNext
  PROVE  UNCHANGED <<today, cards, batches, daily, slipped, runs, tick, sentAt, keys,
                     mails, request, refills, vetoed, unbeaten, faults>>
BY DEF DeskNext, Prefer, ChooseFork, PostOriginal, MarkReply, inbox, mail, server, ladder

\* The server leaves the worker and the mail alone.
LEMMA ServerFrame ==
  ASSUME ServerNext
  PROVE  UNCHANGED <<today, daily, slipped, runs, tick, optIn, sentAt, keys, mails>>
BY DEF ServerNext, Press, EvidenceRead, Suppress, RefillFails, Refill, BeatCard,
       BeatFails, ServerDies, inbox, mail, server, ladder

\* The worker leaves the requests and the ladder alone.
LEMMA WorkerFrame ==
  ASSUME WorkerNext
  PROVE  UNCHANGED <<today, optIn, request, refills, vetoed, unbeaten, beats, moved,
                     moves>>
BY DEF WorkerNext, Begin, ChatFails, ChatThin, ChatPicks, InsertSet, RecordRun, Deliver,
       MailAnswered, MailFails, WorkerDies, inbox, mail, server, ladder

\* A day passes, and nothing else happens.
LEMMA DayFrame ==
  ASSUME NextDay, TypeInv
  PROVE  /\ today' \in Days /\ today' = today + 1
         /\ UNCHANGED <<cards, batches, daily, slipped, runs, tick, optIn, sentAt, keys,
                        mails, request, refills, vetoed, unbeaten, beats, moved, moves,
                        faults>>
BY ForYouAssumption
DEF NextDay, TypeInv, CardsOK, Days, inbox, mail, server, ladder

-----------------------------------------------------------------------------
(* The rows: a row that is settled stays, an open one may close, and a new   *)
(* one is of the batch that is new.                                          *)
RowStep(c) ==
  \/ cards'[c] = cards[c]
  \/ /\ cards[c] = None /\ c[1] = batches' /\ batches' = batches + 1
     /\ \E at \in 1 .. today : cards'[c] = Suggested(at)
  \/ /\ Exists(c) /\ cards[c].status = "suggested"
     /\ cards'[c] \in Card /\ cards'[c].expires <= cards[c].expires
     /\ cards'[c].status = "done" => cards'[c].acted = today

RowsMove ==
  /\ cards' \in [Ids -> Card \cup {None}]
  /\ batches' \in {batches, batches + 1} /\ batches' \in 0 .. MaxBatches
  /\ \A c \in Ids : RowStep(c)

\* Rows that do not change.
LEMMA StillRows ==
  ASSUME CardsOK, UNCHANGED <<cards, batches>> PROVE RowsMove
BY DEF CardsOK, RowsMove, RowStep

\* A batch is inserted.
LEMMA InsertedRows ==
  ASSUME CardsOK, NEW ideas, NEW at \in 1 .. today, Inserted(ideas, at)
  PROVE  RowsMove
<1>1. at \in Days /\ today \in Nat
  BY ForYouAssumption DEF CardsOK, Days
<1>2. Suggested(at) \in Card
  BY <1>1, SuggestedIsCard
<1>3. batches' = batches + 1 /\ batches' \in 0 .. MaxBatches
  BY ForYouAssumption DEF Inserted, CardsOK
<1>4. cards' \in [Ids -> Card \cup {None}]
  BY <1>2 DEF Inserted, CardsOK
<1>5. ASSUME NEW c \in Ids PROVE RowStep(c)
  <2>1. CASE c[1] = batches' /\ c[2] \in ideas
    <3>1. cards[c] = None
      BY <1>3, <2>1 DEF CardsOK
    <3> QED BY <1>3, <2>1, <3>1 DEF Inserted, RowStep
  <2>2. CASE ~(c[1] = batches' /\ c[2] \in ideas)
    BY <2>2 DEF Inserted, RowStep
  <2> QED BY <2>1, <2>2
<1> QED BY <1>3, <1>4, <1>5 DEF RowsMove

\* A card is settled, or found settled.
LEMMA SettledRows ==
  ASSUME CardsOK, NEW r, NEW c \in Ids, NEW v \in Verbs, Exists(c),
         Settle(r, c, v), UNCHANGED batches
  PROVE  RowsMove
<1>1. CASE Settles(c)
  <2>1. cards' = [cards EXCEPT ![c].status = v,
                               ![c].acted = IF v = "done" THEN today ELSE 0]
    BY <1>1 DEF Settle
  <2>2. cards[c] \in Card
    BY DEF CardsOK, Exists
  <2>3. /\ cards'[c] = [cards[c] EXCEPT !.status = v,
                                        !.acted = IF v = "done" THEN today ELSE 0]
        /\ \A d \in Ids : d # c => cards'[d] = cards[d]
        /\ DOMAIN cards' = Ids
    BY <2>1 DEF CardsOK
  <2>4. /\ cards'[c] \in Card /\ cards'[c].expires = cards[c].expires
        /\ cards'[c].status = "done" => cards'[c].acted = today
    <3>1. today \in 0 .. MaxDay /\ 0 \in 0 .. MaxDay
      BY ForYouAssumption DEF CardsOK, Days
    <3> QED BY <2>2, <2>3, <3>1 DEF Card, Verbs
  <2>5. cards' \in [Ids -> Card \cup {None}]
    BY <2>1, <2>3, <2>4 DEF CardsOK
  <2>6. cards[c].expires \in Int
    BY <2>2 DEF Card
  <2>7. RowStep(c)
    BY <1>1, <2>4, <2>6 DEF RowStep, Settles
  <2>8. \A d \in Ids : RowStep(d)
    BY <2>3, <2>7 DEF RowStep
  <2>9. batches' \in {batches, batches + 1} /\ batches' \in 0 .. MaxBatches
    BY DEF CardsOK
  <2> QED BY <2>5, <2>8, <2>9 DEF RowsMove
<1>2. CASE ~Settles(c)
  BY <1>2, StillRows DEF Settle
<1> QED BY <1>1, <1>2

\* A pass closes the open cards.
LEMMA ClosedRows ==
  ASSUME CardsOK, NEW at \in 1 .. today, UNCHANGED batches,
         cards' = [c \in Ids |->
           IF Exists(c) /\ cards[c].status = "suggested" /\ cards[c].expires > at
           THEN [cards[c] EXCEPT !.expires = at] ELSE cards[c]]
  PROVE  RowsMove
<1>1. ASSUME NEW c \in Ids, Exists(c), cards[c].status = "suggested",
             cards[c].expires > at
      PROVE  /\ [cards[c] EXCEPT !.expires = at] \in Card
             /\ [cards[c] EXCEPT !.expires = at].expires <= cards[c].expires
             /\ [cards[c] EXCEPT !.expires = at].status # "done"
  <2>1. cards[c] \in Card /\ cards[c].expires \in Int /\ at \in Int
    BY <1>1 DEF CardsOK, Exists, Card
  <2> QED BY <1>1, <2>1 DEF Card
<1> QED BY <1>1 DEF CardsOK, RowsMove, RowStep

\* The open cards of a theme are skipped.
LEMMA SuppressedRows ==
  ASSUME CardsOK, NEW theme, UNCHANGED batches,
         cards' = [d \in Ids |-> IF Open(d) /\ d[2] \in theme
                                 THEN [cards[d] EXCEPT !.status = "skipped"]
                                 ELSE cards[d]]
  PROVE  RowsMove
<1>1. ASSUME NEW c \in Ids, Open(c)
      PROVE  /\ [cards[c] EXCEPT !.status = "skipped"] \in Card
             /\ [cards[c] EXCEPT !.status = "skipped"].expires <= cards[c].expires
             /\ [cards[c] EXCEPT !.status = "skipped"].status # "done"
             /\ Exists(c) /\ cards[c].status = "suggested"
  <2>1. cards[c] \in Card /\ cards[c].expires \in Int
    BY <1>1 DEF CardsOK, Open, Exists, Card
  <2> QED BY <1>1, <2>1 DEF Card, Verbs, Open
<1> QED BY <1>1 DEF CardsOK, RowsMove, RowStep

\* Every step moves the rows so.
LEMMA AllRows ==
  ASSUME TypeInv, [Next]_vars PROVE RowsMove
<1>0. CardsOK
  BY DEF TypeInv
<1>1. CASE UNCHANGED vars
  BY <1>0, <1>1, StillRows DEF vars
<1>2. CASE NextDay
  BY <1>0, <1>2, DayFrame, StillRows
<1>3. CASE DeskNext
  BY <1>0, <1>3, DeskFrame, StillRows
<1>4. CASE WorkerNext
  <2>1. ASSUME NEW k \in Ticks, NEW p \in Picks, ChatPicks(k, p) PROVE RowsMove
    <3>1. tick[k].at \in 1 .. today
      BY <2>1 DEF ChatPicks, TypeInv, TicksOK
    <3>2. UNCHANGED batches
      BY <2>1 DEF ChatPicks
    <3>3. cards' = [c \in Ids |->
             IF Exists(c) /\ cards[c].status = "suggested" /\ cards[c].expires > tick[k].at
             THEN [cards[c] EXCEPT !.expires = tick[k].at] ELSE cards[c]]
      BY <2>1 DEF ChatPicks
    <3> QED BY <1>0, <3>1, <3>2, <3>3, ClosedRows
  <2>2. ASSUME NEW k \in Ticks, InsertSet(k) PROVE RowsMove
    <3>1. tick[k].at \in 1 .. today
      BY <2>2 DEF InsertSet, TypeInv, TicksOK
    <3>2. Inserted(Without(tick[k].picks, tick[k].skips), tick[k].at)
      BY <2>2 DEF InsertSet
    <3> QED BY <1>0, <3>1, <3>2, InsertedRows
  <2>3. ASSUME NEW k \in Ticks,
               Begin(k) \/ ChatFails(k) \/ ChatThin(k) \/ RecordRun(k) \/ Deliver(k)
                 \/ MailAnswered(k) \/ MailFails(k)
        PROVE  UNCHANGED <<cards, batches>>
    BY <2>3 DEF Begin, ChatFails, ChatThin, RecordRun, Deliver, MailAnswered, MailFails, inbox
  <2>4. CASE WorkerDies
    BY <1>0, <2>4, StillRows DEF WorkerDies, inbox
  <2> QED BY <1>0, <1>4, <2>1, <2>2, <2>3, <2>4, StillRows DEF WorkerNext
<1>5. CASE ServerNext
  <2>1. ASSUME NEW r \in Requests, NEW c \in Ids, NEW v \in Verbs, Press(r, c, v)
        PROVE  RowsMove
    <3>1. Exists(c) /\ UNCHANGED batches
      BY <2>1 DEF Press
    <3>2. UNCHANGED cards \/ Settle(r, c, v)
      BY <2>1 DEF Press
    <3> QED BY <1>0, <3>1, <3>2, SettledRows, StillRows
  <2>2. ASSUME NEW r \in Requests, EvidenceRead(r) PROVE RowsMove
    <3>1. /\ request[r].card \in Ids /\ Exists(request[r].card)
          /\ request[r].verb \in Verbs
      BY <2>2 DEF EvidenceRead, TypeInv, RequestsOK, RequestOK, Request
    <3>2. UNCHANGED batches /\ Settle(r, request[r].card, request[r].verb)
      BY <2>2 DEF EvidenceRead
    <3> QED BY <1>0, <3>1, <3>2, SettledRows
  <2>3. ASSUME NEW r \in Requests, Suppress(r) PROVE RowsMove
    BY <1>0, <2>3, SuppressedRows DEF Suppress
  <2>4. ASSUME NEW r \in Requests, NEW i \in Ideas, Refill(r, i) PROVE RowsMove
    <3>1. today \in 1 .. today
      BY <1>0, ForYouAssumption DEF CardsOK, Days
    <3>2. Inserted({i}, today) \/ UNCHANGED <<cards, batches>>
      BY <2>4 DEF Refill
    <3> QED BY <1>0, <3>1, <3>2, InsertedRows, StillRows
  <2>5. ASSUME NEW r \in Requests, RefillFails(r) \/ BeatCard(r) \/ BeatFails(r)
        PROVE  UNCHANGED <<cards, batches>>
    BY <2>5 DEF RefillFails, BeatCard, BeatFails, inbox
  <2>6. CASE ServerDies
    BY <1>0, <2>6, StillRows DEF ServerDies, inbox
  <2> QED BY <1>0, <1>5, <2>1, <2>2, <2>3, <2>4, <2>5, <2>6, StillRows DEF ServerNext
<1> QED BY <1>1, <1>2, <1>3, <1>4, <1>5 DEF Next

\* A row that is settled stays as it is, and no row goes away.
LEMMA SettledStays ==
  ASSUME RowsMove, NEW c \in Ids, Exists(c)
  PROVE  /\ Exists(c)'
         /\ cards[c].status # "suggested" => cards'[c] = cards[c]
BY NoneIsNoCard DEF RowsMove, RowStep, Exists

\* The batches of passes: those there were, and the new one of a pass.
LEMMA DailyStep ==
  ASSUME TypeInv, [Next]_vars
  PROVE  \/ UNCHANGED daily
         \/ \E k \in Ticks : InsertSet(k) /\ daily' = daily \cup {batches'}
                               /\ batches' = batches + 1
<1>1. CASE UNCHANGED vars
  BY <1>1 DEF vars
<1>2. CASE WorkerNext
  BY <1>2 DEF WorkerNext, Begin, ChatFails, ChatThin, ChatPicks, InsertSet, Inserted,
     RecordRun, Deliver, MailAnswered, MailFails, WorkerDies, inbox
<1> QED BY <1>1, <1>2, DayFrame, DeskFrame, ServerFrame DEF Next

\* The day never goes back.
LEMMA DayStep ==
  ASSUME TypeInv, [Next]_vars
  PROVE  today' \in Days /\ today' \in {today, today + 1}
<1>1. today \in Days
  BY DEF TypeInv, CardsOK
<1>2. CASE UNCHANGED vars
  BY <1>1, <1>2 DEF vars
<1> QED BY <1>1, <1>2, DayFrame, DeskFrame, ServerFrame, WorkerFrame DEF Next

\* The rows keep their form.
LEMMA CardsKept ==
  ASSUME TypeInv, [Next]_vars PROVE CardsOK'
<1>0. CardsOK /\ RowsMove /\ today' \in Days
  BY AllRows, DayStep DEF TypeInv
<1>1. batches \in Nat /\ batches' \in Nat /\ batches' >= batches
  BY <1>0, ForYouAssumption DEF CardsOK, RowsMove
<1>2. daily' \subseteq 1 .. batches'
  <2>1. daily \subseteq 1 .. batches
    BY <1>0 DEF CardsOK
  <2>2. CASE UNCHANGED daily
    BY <1>1, <2>1, <2>2
  <2>3. CASE daily' = daily \cup {batches'} /\ batches' = batches + 1
    BY <1>1, <2>1, <2>3
  <2> QED BY <2>2, <2>3, DailyStep
<1>3. ASSUME NEW c \in Ids, c[1] > batches' PROVE cards'[c] = None
  <2>1. c[1] \in Int /\ cards[c] = None
    BY <1>0, <1>1, <1>3 DEF CardsOK, Ids, Batches
  <2> QED BY <1>0, <1>1, <1>3, <2>1 DEF RowsMove, RowStep, Exists
<1>4. ASSUME NEW c \in Ids, cards'[c] # None, cards'[c].status = "done"
      PROVE  cards'[c].acted \in Days
  <2>1. CASE cards'[c] = cards[c]
    BY <1>0, <1>4, <2>1 DEF CardsOK, Exists
  <2>2. CASE \E at \in 1 .. today : cards'[c] = Suggested(at)
    BY <1>4, <2>2 DEF Suggested
  <2>3. CASE cards'[c].acted = today
    BY <1>0, <2>3 DEF CardsOK
  <2> QED BY <1>0, <1>4, <2>1, <2>2, <2>3 DEF RowsMove, RowStep
<1> QED BY <1>0, <1>2, <1>3, <1>4 DEF CardsOK, RowsMove, Exists

-----------------------------------------------------------------------------
(* The worker and its mail.                                                  *)

\* Only the worker moves its ticks.
LEMMA OthersTicks ==
  ASSUME [Next]_vars, TypeInv, ~WorkerNext
  PROVE  UNCHANGED <<runs, tick, sentAt, keys, mails>>
<1>1. CASE UNCHANGED vars
  BY <1>1 DEF vars
<1> QED BY <1>1, DayFrame, DeskFrame, ServerFrame DEF Next

\* One tick of a record of ticks is put to another step.
LEMMA OneTickMoves ==
  ASSUME TicksOK, NEW k \in Ticks, NEW t, tick' = [tick EXCEPT ![k] = t],
         t \in Tick, t.step # "idle" => t.at \in 1 .. today,
         t.step \in {"read", "inserted"} => WorkerFree \/ Busy(k),
         runs' \subseteq Days, UNCHANGED today
  PROVE  TicksOK'
<1>1. tick' \in [Ticks -> Tick]
  BY DEF TicksOK
<1>2. \A l \in Ticks : tick'[l].step # "idle" => tick'[l].at \in 1 .. today'
  BY DEF TicksOK
<1>3. ASSUME NEW l \in Ticks, NEW m \in Ticks,
             tick'[l].step \in {"read", "inserted"}, tick'[m].step \in {"read", "inserted"}
      PROVE  l = m
  BY <1>3 DEF TicksOK, Busy, WorkerFree
<1> QED BY <1>1, <1>2, <1>3 DEF TicksOK, Busy

\* The worker keeps its ticks in order.
LEMMA TicksKept ==
  ASSUME TypeInv, [Next]_vars PROVE TicksOK'
<1>0. TicksOK /\ today \in Days /\ today' \in Days /\ today' \in {today, today + 1}
  BY DayStep DEF TypeInv, CardsOK
<1>1. CASE ~WorkerNext
  <2>1. UNCHANGED <<runs, tick>>
    BY <1>1, OthersTicks
  <2>2. ASSUME NEW k \in Ticks, tick[k].step # "idle" PROVE tick[k].at \in 1 .. today'
    <3>1. tick[k].at \in 1 .. today
      BY <1>0, <2>2 DEF TicksOK
    <3> QED BY <1>0, <3>1 DEF Days
  <2> QED BY <1>0, <2>1, <2>2 DEF TicksOK, Busy
<1>2. ASSUME WorkerNext PROVE TicksOK'
  <2>0. UNCHANGED today
    BY <1>2, WorkerFrame
  <2>1. Idle \in Tick /\ Idle.step = "idle"
    BY ForYouAssumption DEF Idle, Tick
  <2>2. \A k \in Ticks : /\ tick[k] \in Tick
                         /\ tick[k].step # "idle" => /\ tick[k].at \in 1 .. today
                                                     /\ tick[k].at \in Days
    <3>1. today \in 1 .. MaxDay /\ MaxDay \in Nat
      BY <1>0, ForYouAssumption DEF Days
    <3>2. ASSUME NEW at \in 1 .. today PROVE at \in Days
      BY <3>1 DEF Days
    <3> QED BY <1>0, <3>2 DEF TicksOK
  <2>3. ASSUME NEW k \in Ticks, Begin(k) PROVE TicksOK'
    <3> DEFINE t == [step |-> "asked", at |-> today, picks |-> {}, skips |-> SkippedIn(cards)]
    <3>0. today \in 0 .. MaxDay /\ today \in 1 .. today /\ SkippedIn(cards) \subseteq Ideas
      BY <1>0, ForYouAssumption DEF Days, SkippedIn
    <3>1. t \in Tick /\ t.step = "asked" /\ t.at \in 1 .. today
      BY <3>0 DEF Tick
    <3>2. tick' = [tick EXCEPT ![k] = t] /\ runs' = runs
      BY <2>3 DEF Begin
    <3> HIDE DEF t
    <3> QED BY <1>0, <2>0, <3>1, <3>2, OneTickMoves DEF TicksOK
  <2>4. ASSUME NEW k \in Ticks, ChatFails(k) \/ MailAnswered(k) \/ MailFails(k) PROVE TicksOK'
    <3>1. tick' = [tick EXCEPT ![k] = Idle] /\ runs' = runs
      BY <2>4 DEF ChatFails, MailAnswered, MailFails
    <3> HIDE DEF Idle
    <3> QED BY <1>0, <2>0, <2>1, <3>1, OneTickMoves DEF TicksOK
  <2>5. ASSUME NEW k \in Ticks, ChatThin(k) PROVE TicksOK'
    <3>1. tick' = [tick EXCEPT ![k] = Idle] /\ runs' = runs \cup {tick[k].at}
          /\ tick[k].at \in Days
      BY <2>2, <2>5 DEF ChatThin
    <3>2. runs' \subseteq Days
      BY <1>0, <3>1 DEF TicksOK
    <3> HIDE DEF Idle
    <3> QED BY <1>0, <2>0, <2>1, <3>1, <3>2, OneTickMoves
  <2>6. ASSUME NEW k \in Ticks, NEW p \in Picks, ChatPicks(k, p) PROVE TicksOK'
    <3> DEFINE picks == Without(p, tick[k].skips)
               t == [tick[k] EXCEPT !.step = "read", !.picks = picks,
                                    !.skips = SkippedIn(cards)]
    <3>1. picks \subseteq Ideas /\ SkippedIn(cards) \subseteq Ideas
      BY ForYouAssumption DEF Without, SkippedIn
    <3>2. t \in Tick /\ t.at = tick[k].at
      BY <2>2, <3>1 DEF Tick
    <3>3. tick' = [tick EXCEPT ![k] = t] /\ runs' = runs /\ WorkerFree
          /\ tick[k].at \in 1 .. today
      BY <1>0, <2>2, <2>6 DEF ChatPicks, TicksOK
    <3> HIDE DEF t
    <3> QED BY <1>0, <2>0, <3>2, <3>3, OneTickMoves DEF TicksOK
  <2>7. ASSUME NEW k \in Ticks, InsertSet(k) PROVE TicksOK'
    <3> DEFINE rows == Without(tick[k].picks, tick[k].skips)
               t == [tick[k] EXCEPT !.step = "inserted", !.picks = rows, !.skips = {}]
    <3>1. rows \subseteq Ideas
      BY <2>2 DEF Without, Tick
    <3>2. t \in Tick /\ t.at = tick[k].at
      BY <2>2, <3>1 DEF Tick
    <3>3. tick' = [tick EXCEPT ![k] = t] /\ runs' = runs /\ Busy(k)
          /\ tick[k].at \in 1 .. today
      BY <1>0, <2>2, <2>7 DEF InsertSet, TicksOK, Busy
    <3> HIDE DEF t
    <3> QED BY <1>0, <2>0, <3>2, <3>3, OneTickMoves DEF TicksOK
  <2>8. ASSUME NEW k \in Ticks, RecordRun(k) PROVE TicksOK'
    <3> DEFINE t == [tick[k] EXCEPT !.step = "mailing", !.picks = {}]
    <3>1. t \in Tick /\ t.at = tick[k].at /\ t.step = "mailing"
      BY <2>2 DEF Tick
    <3>2. \/ tick' = [tick EXCEPT ![k] = t]
          \/ tick' = [tick EXCEPT ![k] = Idle]
      BY <2>8 DEF RecordRun
    <3>3. runs' \subseteq Days /\ tick[k].at \in 1 .. today
      BY <1>0, <2>2, <2>8 DEF RecordRun, TicksOK
    <3> HIDE DEF t, Idle
    <3> QED BY <1>0, <2>0, <2>1, <3>1, <3>2, <3>3, OneTickMoves
  <2>9. ASSUME NEW k \in Ticks, Deliver(k) PROVE TicksOK'
    <3> DEFINE t == [tick[k] EXCEPT !.step = "accepted"]
    <3>1. t \in Tick /\ t.at = tick[k].at /\ t.step = "accepted"
      BY <2>2 DEF Tick
    <3>2. tick' = [tick EXCEPT ![k] = t] /\ runs' = runs /\ tick[k].at \in 1 .. today
      BY <1>0, <2>2, <2>9 DEF Deliver, TicksOK
    <3> HIDE DEF t
    <3> QED BY <1>0, <2>0, <3>1, <3>2, OneTickMoves DEF TicksOK
  <2>10. ASSUME WorkerDies PROVE TicksOK'
    <3>1. tick' = [k \in Ticks |-> Idle] /\ runs' = runs
      BY <2>10 DEF WorkerDies
    <3> HIDE DEF Idle
    <3> QED BY <1>0, <2>1, <3>1 DEF TicksOK, Busy
  <2> QED BY <1>2, <2>3, <2>4, <2>5, <2>6, <2>7, <2>8, <2>9, <2>10 DEF WorkerNext
<1> QED BY <1>1, <1>2

\* A day has one mail: its key is seen when it is sent.
LEMMA MailKept ==
  ASSUME TypeInv, [Next]_vars PROVE MailOK'
<1>0. MailOK /\ TicksOK
  BY DEF TypeInv
<1>1. optIn' \in BOOLEAN
  <2>1. CASE UNCHANGED vars
    BY <1>0, <2>1 DEF vars, MailOK
  <2>2. CASE DeskNext
    BY <1>0, <2>2 DEF MailOK, DeskNext, Prefer, ChooseFork, PostOriginal, MarkReply, mail
  <2>3. CASE NextDay \/ ServerNext \/ WorkerNext
    BY <1>0, <2>3, DayFrame, ServerFrame, WorkerFrame DEF MailOK
  <2> QED BY <2>1, <2>2, <2>3 DEF Next
<1>2. CASE ~WorkerNext
  BY <1>0, <1>1, <1>2, OthersTicks DEF MailOK
<1>3. CASE WorkerNext
  <2>1. ASSUME NEW k \in Ticks, Deliver(k)
        PROVE  UNCHANGED sentAt /\ keys' \subseteq Days /\ mails' \in [Days -> {0, 1}]
               /\ \A d \in Days : d \notin keys' => mails'[d] = 0
    <3>1. tick[k].at \in Days
      BY <1>0, <2>1 DEF Deliver, TicksOK, Tick, Days
    <3>2. UNCHANGED sentAt /\ keys' = keys \cup {tick[k].at}
          /\ mails' = IF tick[k].at \in keys THEN mails
                      ELSE [mails EXCEPT ![tick[k].at] = @ + 1]
      BY <2>1 DEF Deliver, Key
    <3> QED BY <1>0, <3>1, <3>2 DEF MailOK
  <2>2. ASSUME NEW k \in Ticks, MailAnswered(k)
        PROVE  UNCHANGED <<keys, mails>> /\ sentAt' \in 0 .. MaxDay
    <3>1. tick[k].at \in 0 .. MaxDay
      BY <1>0 DEF TicksOK, Tick
    <3> QED BY <1>0, <2>2, <3>1 DEF MailAnswered, MailOK
  <2>3. ASSUME ~\E k \in Ticks : Deliver(k) \/ MailAnswered(k)
        PROVE  UNCHANGED <<sentAt, keys, mails>>
    BY <1>3, <2>3 DEF WorkerNext, Begin, ChatFails, ChatThin, ChatPicks, InsertSet,
       RecordRun, MailFails, WorkerDies, mail
  <2> QED BY <1>0, <1>1, <2>1, <2>2, <2>3 DEF MailOK
<1> QED BY <1>2, <1>3

-----------------------------------------------------------------------------
(* The requests.                                                             *)

\* Rows move under a request, and it stays in order.
LEMMA RequestStays ==
  ASSUME RowsMove, NEW q, RequestOK(q) PROVE RequestOK(q)'
<1>1. ASSUME q.step \notin {"idle", "refill"}
      PROVE  /\ q.card \in Ids /\ Exists(q.card) /\ Exists(q.card)'
             /\ cards[q.card].status # "suggested" => cards'[q.card] = cards[q.card]
  BY <1>1, SettledStays DEF RequestOK
<1> QED BY <1>1 DEF RequestOK

\* One request moves on, the others stay.
LEMMA OneRequestMoves ==
  ASSUME RequestsOK, RowsMove, NEW r \in Requests, NEW q \in Request, RequestOK(q)',
         request' = [request EXCEPT ![r] = q]
  PROVE  RequestsOK'
<1>1. request' \in [Requests -> Request]
  BY DEF RequestsOK
<1>2. ASSUME NEW s \in Requests PROVE RequestOK(request[s])'
  <2>1. CASE s = r
    <3>1. request'[s] = q
      BY <2>1 DEF RequestsOK
    <3> QED BY <3>1 DEF RequestOK, Exists
  <2>2. CASE s # r
    <3>1. PICK p : p = request[s]
      OBVIOUS
    <3>2. RequestOK(p) /\ request'[s] = p
      BY <2>2, <3>1 DEF RequestsOK
    <3>3. RequestOK(p)'
      BY <3>2, RequestStays
    <3> QED BY <3>2, <3>3 DEF RequestOK, Exists
  <2> QED BY <2>1, <2>2
<1> QED BY <1>1, <1>2 DEF RequestsOK, RequestOK

\* A request at rest is in order.
LEMMA WaitingIsOK ==
  /\ Waiting \in Request /\ RequestOK(Waiting)'
  /\ [Waiting EXCEPT !.step = "refill"] \in Request
  /\ RequestOK([Waiting EXCEPT !.step = "refill"])'
BY DEF Waiting, Request, RequestOK, Verbs

\* The answer to a press leaves the request in order.
LEMMA SettledRequest ==
  ASSUME CardsOK, RequestsOK, NEW r \in Requests, NEW c \in Ids, NEW v \in Verbs,
         Exists(c), Settle(r, c, v), UNCHANGED batches
  PROVE  RequestsOK'
<1>1. RowsMove
  BY SettledRows
<1>2. CASE Settles(c) /\ v # "dismissed"
  <2> DEFINE q == [step |-> IF v = "done" THEN "beat" ELSE "suppress",
                   card |-> c, verb |-> v]
  <2>1. request' = [request EXCEPT ![r] = q]
    BY <1>2 DEF Settle
  <2>2. q \in Request
    BY <1>2 DEF Request, Verbs
  <2>3. Exists(c)' /\ cards'[c].status = v
    <3>1. cards[c] \in Card /\ Exists(c)'
      BY <1>1, SettledStays DEF CardsOK, Exists
    <3>2. cards'[c] = [cards[c] EXCEPT !.status = v,
                                      !.acted = IF v = "done" THEN today ELSE 0]
      BY <1>2 DEF Settle, CardsOK
    <3> QED BY <3>1, <3>2 DEF Card
  <2>4. RequestOK(q)'
    <3>1. v \in {"done", "skipped"}
      BY <1>2 DEF Verbs
    <3>2. /\ q.card = c
          /\ q.step = "suppress" <=> v = "skipped"
          /\ q.step = "beat" <=> v = "done"
      BY <3>1
    <3> HIDE DEF q
    <3> QED BY <2>2, <2>3, <3>2 DEF RequestOK, Exists
  <2> HIDE DEF q
  <2> QED BY <1>1, <2>1, <2>2, <2>4, OneRequestMoves DEF RequestOK
<1>3. CASE ~(Settles(c) /\ v # "dismissed")
  <2>1. request' = [request EXCEPT ![r] = Waiting]
    BY <1>3 DEF Settle
  <2> HIDE DEF Waiting
  <2> QED BY <1>1, <2>1, WaitingIsOK, OneRequestMoves
<1> QED BY <1>2, <1>3

\* The requests stay in order.
LEMMA RequestsKept ==
  ASSUME TypeInv, [Next]_vars PROVE RequestsOK'
<1>0. CardsOK /\ RequestsOK /\ RowsMove
  BY AllRows DEF TypeInv
<1>1. ASSUME UNCHANGED request PROVE RequestsOK'
  <2>1. ASSUME NEW s \in Requests PROVE RequestOK(request[s])'
    <3>1. PICK p : p = request[s]
      OBVIOUS
    <3>2. RequestOK(p)'
      BY <1>0, <3>1, RequestStays DEF RequestsOK
    <3> QED BY <1>1, <3>1, <3>2 DEF RequestOK, Exists
  <2> QED BY <1>0, <1>1, <2>1 DEF RequestsOK
<1>2. ASSUME UNCHANGED vars \/ NextDay \/ DeskNext \/ WorkerNext PROVE UNCHANGED request
  BY <1>2, DayFrame, DeskFrame, WorkerFrame DEF vars
<1>3. ASSUME ServerNext PROVE RequestsOK'
  <2>1. ASSUME NEW r \in Requests, NEW c \in Ids, NEW v \in Verbs, Press(r, c, v)
        PROVE  RequestsOK'
    <3>1. Exists(c) /\ UNCHANGED batches
      BY <2>1 DEF Press
    <3>2. CASE Settle(r, c, v)
      BY <1>0, <3>1, <3>2, SettledRequest
    <3>3. CASE ~Settle(r, c, v)
      <4> DEFINE q == [step |-> "evidence", card |-> c, verb |-> v]
      <4>1. request' = [request EXCEPT ![r] = q]
        BY <2>1, <3>3 DEF Press
      <4>2. q \in Request /\ RequestOK(q)'
        BY <1>0, <3>1, SettledStays DEF Request, RequestOK
      <4> HIDE DEF q
      <4> QED BY <1>0, <4>1, <4>2, OneRequestMoves
    <3> QED BY <3>2, <3>3
  <2>2. ASSUME NEW r \in Requests, EvidenceRead(r) PROVE RequestsOK'
    <3>1. /\ request[r].card \in Ids /\ Exists(request[r].card)
          /\ request[r].verb \in Verbs
      BY <1>0, <2>2 DEF EvidenceRead, RequestsOK, RequestOK, Request
    <3>2. UNCHANGED batches /\ Settle(r, request[r].card, request[r].verb)
      BY <2>2 DEF EvidenceRead
    <3> QED BY <1>0, <3>1, <3>2, SettledRequest
  <2>3. ASSUME NEW r \in Requests, Suppress(r) PROVE RequestsOK'
    <3>1. \/ request' = [request EXCEPT ![r] = Waiting]
          \/ request' = [request EXCEPT ![r] = [Waiting EXCEPT !.step = "refill"]]
      BY <2>3 DEF Suppress
    <3> DEFINE q == [Waiting EXCEPT !.step = "refill"]
    <3>2. q \in Request /\ RequestOK(q)' /\ Waiting \in Request /\ RequestOK(Waiting)'
      BY WaitingIsOK
    <3>3. CASE request' = [request EXCEPT ![r] = Waiting]
      <4> HIDE DEF Waiting
      <4> QED BY <1>0, <3>2, <3>3, OneRequestMoves
    <3>4. CASE request' = [request EXCEPT ![r] = q]
      <4> HIDE DEF q
      <4> QED BY <1>0, <3>2, <3>4, OneRequestMoves
    <3> QED BY <3>1, <3>3, <3>4
  <2>4. ASSUME NEW r \in Requests,
               RefillFails(r) \/ BeatCard(r) \/ BeatFails(r) \/ \E i \in Ideas : Refill(r, i)
        PROVE  RequestsOK'
    <3>1. request' = [request EXCEPT ![r] = Waiting]
      BY <2>4 DEF RefillFails, BeatCard, BeatFails, Refill
    <3> HIDE DEF Waiting
    <3> QED BY <1>0, <3>1, WaitingIsOK, OneRequestMoves
  <2>5. ASSUME ServerDies PROVE RequestsOK'
    BY <2>5, WaitingIsOK DEF ServerDies, RequestsOK, RequestOK
  <2> QED BY <1>3, <2>1, <2>2, <2>3, <2>4, <2>5 DEF ServerNext
<1> QED BY <1>1, <1>2, <1>3 DEF Next

-----------------------------------------------------------------------------
(* The ladder.                                                               *)

\* One day is moved, in order, the others stay.
LEMMA OneDayMoves ==
  ASSUME LadderOK, NEW d \in Days, NEW b, NEW m, DayOK(b, m),
         beats[d].organic => b.organic,
         beats' = [beats EXCEPT ![d] = b], moved' = [moved EXCEPT ![d] = m]
  PROVE  LadderOK' /\ \A x \in Days : beats[x].organic => beats'[x].organic
<1>1. b \in Beats /\ m \in SUBSET Forks
  BY DEF DayOK
<1>2. /\ beats' \in [Days -> Beats] /\ moved' \in [Days -> SUBSET Forks]
      /\ \A x \in Days : x # d => beats'[x] = beats[x] /\ moved'[x] = moved[x]
      /\ beats'[d] = b /\ moved'[d] = m
  BY <1>1 DEF LadderOK
<1>3. \A x \in Days : DayOK(beats'[x], moved'[x])
  BY <1>2 DEF LadderOK
<1> QED BY <1>2, <1>3 DEF LadderOK

\* The ladder stays in order, and an organic reply is not taken back.
LEMMA LadderKept ==
  ASSUME TypeInv, [Next]_vars
  PROVE  LadderOK' /\ \A d \in Days : beats[d].organic => beats'[d].organic
<1> DEFINE Goal == LadderOK' /\ \A d \in Days : beats[d].organic => beats'[d].organic
<1>0. /\ LadderOK /\ today \in Days /\ \A d \in 1 .. today : d \in Days
      /\ \A d \in Days : DayOK(beats[d], moved[d]) /\ moved = [moved EXCEPT ![d] = moved[d]]
  BY ForYouAssumption DEF TypeInv, LadderOK, CardsOK, Days
<1>1. ASSUME UNCHANGED <<beats, moved>> PROVE Goal
  BY <1>0, <1>1 DEF LadderOK
<1>2. ASSUME UNCHANGED vars \/ NextDay \/ WorkerNext PROVE UNCHANGED <<beats, moved>>
  BY <1>2, DayFrame, WorkerFrame DEF vars
<1>3. ASSUME NEW x \in Forks, ChooseFork(x) PROVE Goal
  <2> DEFINE b == setForkChoice(beats[today], x)
             m == moved[today]
  <2>1. beats' = [beats EXCEPT ![today] = b] /\ moved' = [moved EXCEPT ![today] = m]
    BY <1>0, <1>3 DEF ChooseFork
  <2>2. DayOK(b, m) /\ (beats[today].organic => b.organic)
    BY <1>0, ChoiceKeepsDay
  <2> HIDE DEF b, m
  <2> QED BY <1>0, <2>1, <2>2, OneDayMoves
<1>4. ASSUME PostOriginal PROVE Goal
  <2> DEFINE b == onOriginalPosted(beats[today])
             m == IF beats[today].choice = NoChoice THEN moved[today]
                  ELSE moved[today] \cup {"original"}
  <2>1. beats' = [beats EXCEPT ![today] = b] /\ moved' = [moved EXCEPT ![today] = m]
    BY <1>0, <1>4 DEF PostOriginal, Moved
  <2>2. DayOK(b, m) /\ (beats[today].organic => b.organic)
    BY <1>0, OriginalKeepsDay
  <2> HIDE DEF b, m
  <2> QED BY <1>0, <2>1, <2>2, OneDayMoves
<1>5. ASSUME NEW d \in 1 .. today, NEW source \in Sources, MarkReply(d, source) PROVE Goal
  <2> DEFINE b == onReplyMarked(beats[d], source)
             m == IF beats[d].choice = NoChoice THEN moved[d] ELSE moved[d] \cup {"reply"}
  <2>1. beats' = [beats EXCEPT ![d] = b] /\ moved' = [moved EXCEPT ![d] = m]
    BY <1>0, <1>5 DEF MarkReply, Moved
  <2>2. DayOK(b, m) /\ (beats[d].organic => b.organic)
    BY <1>0, ReplyKeepsDay
  <2> HIDE DEF b, m
  <2> QED BY <1>0, <2>1, <2>2, OneDayMoves
<1>6. ASSUME NEW r \in Requests, BeatCard(r) PROVE Goal
  <2>1. PICK c \in Ids : c = request[r].card /\ Exists(c) /\ cards[c].status = "done"
    BY <1>6 DEF BeatCard, TypeInv, RequestsOK, RequestOK
  <2>2. PICK d \in Days : d = cards[c].acted
    BY <2>1 DEF TypeInv, CardsOK
  <2>3. PICK kind \in Kinds : kind = Kind[c[2]]
    BY ForYouAssumption DEF Ids
  <2> DEFINE b == onCardDone(beats[d], kind)
             m == CardMoves(beats[d], moved[d], kind)
  <2>4. beats' = [beats EXCEPT ![d] = b]
    BY <1>6, <2>1, <2>2, <2>3 DEF BeatCard
  <2>5. moved' = CASE kind = "reply" -> Moved(d, "reply")
                   [] kind = "post" -> Moved(d, "original")
                   [] kind = "quote" -> moved
    BY <1>6, <2>1, <2>2, <2>3 DEF BeatCard
  <2>6. moved' = [moved EXCEPT ![d] = m]
    BY <1>0, <2>3, <2>5 DEF CardMoves, Moved, Kinds
  <2>7. DayOK(b, m) /\ b.organic
    BY <1>0, CardKeepsDay
  <2> HIDE DEF b, m
  <2> QED BY <1>0, <2>4, <2>6, <2>7, OneDayMoves
<1>7. ASSUME Prefer PROVE UNCHANGED <<beats, moved>>
  BY <1>7 DEF Prefer
<1>8. ASSUME ServerNext, ~\E r \in Requests : BeatCard(r) PROVE UNCHANGED <<beats, moved>>
  BY <1>8 DEF ServerNext, Press, EvidenceRead, Suppress, RefillFails, Refill, BeatFails,
     ServerDies, ladder
<1> HIDE DEF Goal
<1>9. Goal
  BY <1>1, <1>2, <1>3, <1>4, <1>5, <1>6, <1>7, <1>8 DEF Next, DeskNext
<1> QED BY <1>9 DEF Goal

-----------------------------------------------------------------------------
(* The histories.                                                            *)

\* What is skipped in the rows stays skipped.
LEMMA SkipsStay ==
  ASSUME TypeInv, [Next]_vars PROVE SkippedIn(cards) \subseteq SkippedIn(cards')
<1>1. ASSUME NEW i \in Ideas, NEW b \in Batches, cards[<<b, i>>] # None,
             cards[<<b, i>>].status = "skipped"
      PROVE  cards'[<<b, i>>] = cards[<<b, i>>]
  <2>1. <<b, i>> \in Ids
    BY DEF Ids
  <2> QED BY <1>1, <2>1, AllRows, SettledStays DEF Exists
<1> QED BY <1>1 DEF SkippedIn

\* What is vetoed is skipped in the rows.
LEMMA VetoStep ==
  ASSUME TypeInv, [Next]_vars
  PROVE  vetoed' \subseteq SkippedIn(cards')
<1>0. vetoed \subseteq SkippedIn(cards) /\ SkippedIn(cards) \subseteq SkippedIn(cards')
  BY SkipsStay DEF TypeInv, HistoryOK
<1>1. ASSUME NEW r \in Requests, Suppress(r) PROVE vetoed' \subseteq SkippedIn(cards')
  <2>1. PICK c \in Ids : c = request[r].card /\ Exists(c) /\ cards[c].status = "skipped"
    BY <1>1 DEF Suppress, TypeInv, RequestsOK, RequestOK
  <2>2. c[1] \in Batches /\ c[2] \in Ideas /\ c = <<c[1], c[2]>>
    BY DEF Ids
  <2>3. c[2] \in SkippedIn(cards)
    BY <2>1, <2>2 DEF SkippedIn, Exists
  <2>4. vetoed' = vetoed \cup {c[2]}
    BY <1>1, <2>1 DEF Suppress
  <2> QED BY <1>0, <2>3, <2>4
<1>2. ASSUME ServerNext, ~\E r \in Requests : Suppress(r) PROVE UNCHANGED vetoed
  BY <1>2 DEF ServerNext, Press, EvidenceRead, RefillFails, Refill, BeatCard, BeatFails,
     ServerDies, server
<1>3. ASSUME UNCHANGED vars \/ NextDay \/ DeskNext \/ WorkerNext PROVE UNCHANGED vetoed
  BY <1>3, DayFrame, DeskFrame, WorkerFrame DEF vars
<1> QED BY <1>0, <1>1, <1>2, <1>3 DEF Next

\* The counters and the histories keep their types.
LEMMA HistoryKept ==
  ASSUME TypeInv, [Next]_vars PROVE HistoryOK'
<1>0. HistoryOK /\ RequestsOK
  BY DEF TypeInv
<1>1. refills' \in Nat /\ faults' \in Nat
  <2>1. CASE UNCHANGED vars
    BY <1>0, <2>1 DEF HistoryOK, vars
  <2>2. CASE NextDay \/ DeskNext
    BY <1>0, <2>2, DayFrame, DeskFrame DEF HistoryOK
  <2>3. CASE WorkerNext
    <3>1. UNCHANGED refills
      BY <2>3, WorkerFrame
    <3>2. faults' \in {faults, faults + 1}
      BY <2>3 DEF WorkerNext, Begin, ChatFails, ChatThin, ChatPicks, InsertSet, RecordRun,
         Deliver, MailAnswered, MailFails, WorkerDies
    <3> QED BY <1>0, <3>1, <3>2 DEF HistoryOK
  <2>4. CASE ServerNext
    <3>1. refills' \in {refills, refills + 1} /\ faults' \in {faults, faults + 1}
      BY <2>4 DEF ServerNext, Press, EvidenceRead, Suppress, RefillFails, Refill, BeatCard,
         BeatFails, ServerDies, server
    <3> QED BY <1>0, <3>1 DEF HistoryOK
  <2> QED BY <2>1, <2>2, <2>3, <2>4 DEF Next
<1>2. moves' \in Nat
  <2>1. CASE UNCHANGED vars
    BY <1>0, <2>1 DEF HistoryOK, vars
  <2>2. CASE NextDay \/ WorkerNext
    BY <1>0, <2>2, DayFrame, WorkerFrame DEF HistoryOK
  <2>3. CASE DeskNext \/ ServerNext
    <3>1. moves' \in {moves, moves + 1}
      BY <2>3 DEF DeskNext, Prefer, ChooseFork, PostOriginal, MarkReply, ServerNext, Press,
         EvidenceRead, Suppress, RefillFails, Refill, BeatCard, BeatFails, ServerDies, ladder
    <3> QED BY <1>0, <3>1 DEF HistoryOK
  <2> QED BY <2>1, <2>2, <2>3 DEF Next
<1>3. slipped' \subseteq Ids
  <2>1. CASE UNCHANGED vars \/ NextDay \/ DeskNext \/ ServerNext
    BY <1>0, <2>1, DayFrame, DeskFrame, ServerFrame DEF HistoryOK, vars
  <2>2. CASE WorkerNext
    BY <1>0, <2>2 DEF HistoryOK, WorkerNext, Begin, ChatFails, ChatThin, ChatPicks, InsertSet,
       RecordRun, Deliver, MailAnswered, MailFails, WorkerDies, inbox
  <2> QED BY <2>1, <2>2 DEF Next
<1>4. unbeaten' \subseteq Ids
  <2>1. CASE UNCHANGED vars \/ NextDay \/ DeskNext \/ WorkerNext
    BY <1>0, <2>1, DayFrame, DeskFrame, WorkerFrame DEF HistoryOK, vars
  <2>2. ASSUME NEW r \in Requests, request[r].step = "beat" PROVE request[r].card \in Ids
    BY <1>0, <2>2 DEF RequestsOK, RequestOK
  <2>3. ASSUME NEW r \in Requests, BeatFails(r) PROVE unbeaten' \subseteq Ids
    BY <1>0, <2>2, <2>3 DEF HistoryOK, BeatFails
  <2>4. ASSUME ServerDies PROVE unbeaten' \subseteq Ids
    BY <1>0, <2>2, <2>4 DEF HistoryOK, ServerDies
  <2>5. ASSUME ServerNext, ~ServerDies, ~\E r \in Requests : BeatFails(r)
        PROVE  UNCHANGED unbeaten
    BY <2>5 DEF ServerNext, Press, EvidenceRead, Suppress, RefillFails, Refill, BeatCard, server
  <2> QED BY <1>0, <2>1, <2>3, <2>4, <2>5 DEF Next, HistoryOK
<1> QED BY <1>1, <1>2, <1>3, <1>4, VetoStep DEF HistoryOK

\* The types, together.
LEMMA TypesKept ==
  ASSUME TypeInv, [Next]_vars PROVE TypeInv'
BY CardsKept, TicksKept, MailKept, RequestsKept, LadderKept, HistoryKept DEF TypeInv

-----------------------------------------------------------------------------
(* The sets of passes.                                                       *)

\* A card that is open was so, or is of the new batch.
LEMMA OpenStep ==
  ASSUME TypeInv, [Next]_vars, NEW c \in Ids, Open(c)'
  PROVE  \/ Open(c)
         \/ cards[c] = None /\ c[1] = batches' /\ batches' = batches + 1
<1>1. /\ RowsMove /\ today \in Int /\ today' \in {today, today + 1}
      /\ Exists(c) => cards[c] \in Card
  BY AllRows, DayStep DEF TypeInv, CardsOK, Days, Exists
<1>2. cards'[c] # None /\ cards'[c].status = "suggested" /\ cards'[c].expires > today'
  BY DEF Open, Exists
<1>3. CASE cards'[c] = cards[c]
  <2>1. cards[c].expires \in Int
    BY <1>1, <1>2, <1>3 DEF Card, Exists
  <2> QED BY <1>1, <1>2, <1>3, <2>1 DEF Open, Exists
<1>4. CASE Exists(c) /\ cards[c].status = "suggested" /\ cards'[c] \in Card
           /\ cards'[c].expires <= cards[c].expires
  <2>1. cards[c].expires \in Int /\ cards'[c].expires \in Int
    BY <1>1, <1>4 DEF Card
  <2> QED BY <1>1, <1>2, <1>4, <2>1 DEF Open
<1> QED BY <1>1, <1>3, <1>4 DEF RowsMove, RowStep

\* What a pass closes is not open.
LEMMA ClosedIsNotOpen ==
  ASSUME TypeInv, NEW k \in Ticks, NEW p \in Picks, ChatPicks(k, p), NEW c \in Ids
  PROVE  ~Open(c)'
<1>1. today \in Int /\ tick[k].at \in Int /\ tick[k].at <= today /\ UNCHANGED today
  BY DEF ChatPicks, TypeInv, CardsOK, TicksOK, Days
<1>2. cards'[c] = IF Exists(c) /\ cards[c].status = "suggested" /\ cards[c].expires > tick[k].at
                  THEN [cards[c] EXCEPT !.expires = tick[k].at] ELSE cards[c]
  BY DEF ChatPicks
<1>3. CASE cards[c] \in Card
  <2>1. cards[c].expires \in Int
    BY <1>3 DEF Card
  <2>2. CASE cards[c].status = "suggested" /\ cards[c].expires > tick[k].at /\ Exists(c)
    BY <1>1, <1>2, <1>3, <2>2 DEF Open, Card
  <2>3. CASE ~(cards[c].status = "suggested" /\ cards[c].expires > tick[k].at /\ Exists(c))
    BY <1>1, <1>2, <2>1, <2>3 DEF Open, Exists
  <2> QED BY <2>2, <2>3
<1>4. CASE cards[c] = None
  BY <1>2, <1>4 DEF Open, Exists
<1> QED BY <1>3, <1>4 DEF TypeInv, CardsOK

\* One set is open.
LEMMA SetsKept ==
  ASSUME TypeInv, SetsOK, [Next]_vars PROVE SetsOK'
<1>0. /\ batches \in Int /\ daily \subseteq 1 .. batches
      /\ \A k, l \in Ticks : Busy(k) /\ Busy(l) => k = l
  BY DEF TypeInv, CardsOK, TicksOK
<1>1. CASE UNCHANGED daily
  <2>1. ASSUME NEW c \in Ids, Open(c)', c[1] \in daily PROVE Open(c)
    <3>1. c[1] # batches + 1
      BY <1>0, <2>1
    <3> QED BY <2>1, <3>1, OpenStep
  <2>2. OneSetOpen'
    BY <1>1, <2>1 DEF SetsOK, OneSetOpen
  <2>3. ASSUME NEW k \in Ticks, tick'[k].step = "read", NEW c \in Ids, c[1] \in daily
        PROVE  ~Open(c)'
    <3>1. CASE \E l \in Ticks, p \in Picks : ChatPicks(l, p)
      BY <3>1, ClosedIsNotOpen
    <3>2. CASE ~\E l \in Ticks, p \in Picks : ChatPicks(l, p)
      <4>1. tick[k].step = "read"
        <5>1. CASE UNCHANGED tick
          BY <2>3, <5>1
        <5>2. CASE WorkerNext
          <6>0. tick \in [Ticks -> Tick]
            BY DEF TypeInv, TicksOK
          <6>1. ASSUME NEW l \in Ticks,
                       Begin(l) \/ ChatFails(l) \/ ChatThin(l) \/ MailAnswered(l)
                         \/ MailFails(l)
                PROVE  tick'[l].step # "read" /\ \A m \in Ticks \ {l} : tick'[m] = tick[m]
            BY <6>0, <6>1 DEF Begin, ChatFails, ChatThin, MailAnswered, MailFails, Idle
          <6>2. ASSUME NEW l \in Ticks, InsertSet(l) \/ RecordRun(l) \/ Deliver(l)
                PROVE  tick'[l].step # "read" /\ \A m \in Ticks \ {l} : tick'[m] = tick[m]
            <7>1. tick[l] \in Tick
              BY <6>0
            <7>2. CASE InsertSet(l)
              BY <6>0, <7>1, <7>2 DEF InsertSet, Tick
            <7>3. CASE RecordRun(l)
              <8>1. [tick[l] EXCEPT !.step = "mailing", !.picks = {}].step = "mailing"
                BY <7>1 DEF Tick
              <8> QED BY <6>0, <7>3, <8>1 DEF RecordRun, Idle
            <7>4. CASE Deliver(l)
              BY <6>0, <7>1, <7>4 DEF Deliver, Tick
            <7> QED BY <6>2, <7>2, <7>3, <7>4
          <6>3. ASSUME WorkerDies PROVE tick'[k].step # "read"
            BY <6>3 DEF WorkerDies, Idle
          <6> QED BY <2>3, <3>2, <5>2, <6>1, <6>2, <6>3 DEF WorkerNext
        <5> QED BY <5>1, <5>2, DayFrame, DeskFrame, ServerFrame DEF Next, vars
      <4> QED BY <2>1, <2>3, <4>1 DEF SetsOK
    <3> QED BY <3>1, <3>2
  <2> QED BY <1>1, <2>2, <2>3 DEF SetsOK
<1>2. ASSUME NEW k \in Ticks, InsertSet(k), daily' = daily \cup {batches'},
             batches' = batches + 1
      PROVE  SetsOK'
  <2>1. tick[k].step = "read" /\ tick'[k].step = "inserted"
    BY <1>2 DEF InsertSet, TypeInv, TicksOK, Tick
  <2>2. ASSUME NEW c \in Ids, Open(c)', c[1] \in daily' PROVE c[1] = batches'
    <3>1. c[1] \in daily => ~Open(c)
      BY <2>1 DEF SetsOK
    <3> QED BY <1>2, <2>2, <3>1, OpenStep
  <2>3. \A l \in Ticks : tick'[l].step # "read"
    <3>1. ASSUME NEW l \in Ticks, l # k PROVE tick'[l] = tick[l] /\ ~Busy(l)
      BY <1>0, <1>2, <2>1, <3>1 DEF InsertSet, TypeInv, TicksOK, Busy
    <3> QED BY <2>1, <3>1 DEF Busy
  <2> QED BY <2>2, <2>3 DEF SetsOK, OneSetOpen
<1> QED BY <1>1, <1>2, DailyStep

-----------------------------------------------------------------------------
(* The veto.                                                                 *)

\* No open card is of a vetoed theme, but for what slipped.
LEMMA OpenKept ==
  ASSUME TypeInv, OpenOK, [Next]_vars PROVE OpenOK'
<1>0. vetoed \subseteq SkippedIn(cards) /\ slipped \subseteq Ids
  BY DEF TypeInv, HistoryOK
<1>1. ASSUME NEW r \in Requests, Suppress(r) PROVE OpenOK'
  <2>1. PICK x \in Ids : x = request[r].card
    BY <1>1 DEF Suppress, TypeInv, RequestsOK, RequestOK
  <2>2. /\ vetoed' = vetoed \cup {x[2]}
        /\ cards' = [d \in Ids |-> IF Open(d) /\ d[2] \in Alike[x[2]]
                                   THEN [cards[d] EXCEPT !.status = "skipped"]
                                   ELSE cards[d]]
        /\ UNCHANGED <<slipped, today, batches>>
    BY <1>1, <2>1 DEF Suppress
  <2>3. ASSUME NEW c \in Ids \ slipped, Open(c)' PROVE Alike[c[2]] \cap vetoed' = {}
    <3>1. Open(c) /\ ~(c[2] \in Alike[x[2]])
      <4>1. CASE Open(c) /\ c[2] \in Alike[x[2]]
        <5>1. cards[c] \in Card
          BY <4>1 DEF TypeInv, CardsOK, Open, Exists
        <5>2. cards'[c].status = "skipped"
          BY <2>2, <4>1, <5>1 DEF Card
        <5> QED BY <2>3, <5>2 DEF Open
      <4>2. CASE ~(Open(c) /\ c[2] \in Alike[x[2]])
        BY <2>2, <2>3, <4>2 DEF Open, Exists
      <4> QED BY <4>1, <4>2
    <3>2. x[2] \notin Alike[c[2]]
      BY <3>1, ForYouAssumption DEF Ids
    <3> QED BY <2>2, <3>1, <3>2 DEF OpenOK
  <2> QED BY <2>2, <2>3 DEF OpenOK
<1>2. ASSUME NEW k \in Ticks, InsertSet(k) PROVE OpenOK'
  <2>1. /\ UNCHANGED vetoed
        /\ slipped' = slipped \cup {c \in Ids : c[1] = batches' /\
                                      Alike[c[2]] \cap (vetoed \ tick[k].skips) # {}}
        /\ cards' = [c \in Ids |->
             IF c[1] = batches' /\ c[2] \in Without(tick[k].picks, tick[k].skips)
             THEN Suggested(tick[k].at) ELSE cards[c]]
    BY <1>2 DEF InsertSet, Inserted, server
  <2>2. ASSUME NEW c \in Ids \ slipped', Open(c)' PROVE Alike[c[2]] \cap vetoed = {}
    <3>1. CASE Open(c)
      BY <2>1, <2>2, <3>1 DEF OpenOK
    <3>2. CASE cards[c] = None /\ c[1] = batches'
      <4>1. c[2] \in Without(tick[k].picks, tick[k].skips)
        BY <2>1, <2>2, <3>2 DEF Open, Exists
      <4>2. Alike[c[2]] \cap tick[k].skips = {}
        BY <4>1 DEF Without
      <4>3. Alike[c[2]] \cap (vetoed \ tick[k].skips) = {}
        BY <2>1, <2>2, <3>2
      <4> QED BY <4>2, <4>3
    <3> QED BY <2>2, <3>1, <3>2, OpenStep
  <2> QED BY <2>1, <2>2 DEF OpenOK
<1>3. ASSUME NEW r \in Requests, NEW i \in Ideas, Refill(r, i) PROVE OpenOK'
  <2>1. UNCHANGED <<vetoed, slipped>>
    BY <1>3 DEF Refill
  <2>2. ASSUME NEW c \in Ids \ slipped, Open(c)' PROVE Alike[c[2]] \cap vetoed = {}
    <3>1. CASE Open(c)
      BY <2>2, <3>1 DEF OpenOK
    <3>2. CASE cards[c] = None /\ c[1] = batches' /\ batches' = batches + 1
      <4>0. cards'[c] # None
        BY <2>2 DEF Open, Exists
      <4>1. i \in Without(Ideas, SkippedIn(cards)) /\ Inserted({i}, today)
        BY <1>3, <3>2, <4>0 DEF Refill
      <4>2. c[2] = i
        BY <3>2, <4>0, <4>1 DEF Inserted
      <4> QED BY <1>0, <4>1, <4>2 DEF Without
    <3> QED BY <2>2, <3>1, <3>2, OpenStep
  <2> QED BY <2>1, <2>2 DEF OpenOK
<1>4. ASSUME UNCHANGED <<vetoed, slipped, batches>> PROVE OpenOK'
  <2>1. ASSUME NEW c \in Ids, Open(c)' PROVE Open(c)
    <3>1. batches \in Int
      BY DEF TypeInv, CardsOK
    <3> QED BY <1>4, <2>1, <3>1, OpenStep
  <2> QED BY <1>4, <2>1 DEF OpenOK
<1>5. ASSUME WorkerNext, ~\E k \in Ticks : InsertSet(k)
      PROVE  UNCHANGED <<vetoed, slipped, batches>>
  BY <1>5 DEF WorkerNext, Begin, ChatFails, ChatThin, ChatPicks, RecordRun, Deliver,
     MailAnswered, MailFails, WorkerDies, inbox, server
<1>6. ASSUME ServerNext, ~\E r \in Requests : Suppress(r) \/ \E i \in Ideas : Refill(r, i)
      PROVE  UNCHANGED <<vetoed, slipped, batches>>
  BY <1>6 DEF ServerNext, Press, EvidenceRead, RefillFails, BeatCard, BeatFails, ServerDies,
     inbox, server
<1>7. ASSUME UNCHANGED vars \/ NextDay \/ DeskNext
      PROVE  UNCHANGED <<vetoed, slipped, batches>>
  BY <1>7, DayFrame, DeskFrame DEF vars
<1> QED BY <1>1, <1>2, <1>3, <1>4, <1>5, <1>6, <1>7 DEF Next

-----------------------------------------------------------------------------
(* The cards that are done.                                                  *)

\* A card of those is accounted for.
Accounted(c) ==
  \/ beats[cards[c].acted].organic
  \/ c \in unbeaten
  \/ \E r \in Requests : request[r].step = "beat" /\ request[r].card = c

\* A card that is done has counted, or its beat is owed or lost.
LEMMA DoneKept ==
  ASSUME TypeInv, DoneOK, [Next]_vars PROVE DoneOK'
<1>0. /\ RowsMove
      /\ \A d \in Days : beats[d].organic => beats'[d].organic
      /\ \A c \in Ids : Exists(c) /\ cards[c].status = "done" => cards[c].acted \in Days
      /\ request \in [Requests -> Request]
  BY AllRows, LadderKept DEF TypeInv, CardsOK, RequestsOK
<1>1. ASSUME NEW c \in Ids, Exists(c), cards[c].status = "done" PROVE Accounted(c)'
  <2>0. cards'[c] = cards[c] /\ cards[c].acted \in Days
    BY <1>0, <1>1, SettledStays
  <2>1. CASE beats[cards[c].acted].organic
    BY <1>0, <2>0, <2>1 DEF Accounted
  <2>2. CASE c \in unbeaten
    <3>1. unbeaten \subseteq unbeaten'
      <4>1. CASE ServerNext
        BY <4>1 DEF ServerNext, Press, EvidenceRead, Suppress, RefillFails, Refill, BeatCard,
           BeatFails, ServerDies, server
      <4> QED BY <4>1, DayFrame, DeskFrame, WorkerFrame DEF Next, vars
    <3> QED BY <2>2, <3>1 DEF Accounted
  <2>3. ASSUME NEW r \in Requests, request[r].step = "beat", request[r].card = c
        PROVE  Accounted(c)'
    <3>1. CASE UNCHANGED request
      BY <2>3, <3>1 DEF Accounted
    <3>2. ASSUME BeatCard(r) PROVE Accounted(c)'
      <4>1. PICK d \in Days : d = cards[c].acted
        BY <2>0
      <4>2. Kind[c[2]] \in Kinds
        BY ForYouAssumption DEF Ids
      <4>3. DayOK(beats[d], moved[d]) /\ beats \in [Days -> Beats]
        BY DEF TypeInv, LadderOK
      <4>4. onCardDone(beats[d], Kind[c[2]]).organic
        BY <4>2, <4>3, CardKeepsDay
      <4>5. beats' = [beats EXCEPT ![d] = onCardDone(beats[d], Kind[c[2]])]
        BY <2>3, <3>2, <4>1 DEF BeatCard
      <4>6. beats'[d] = onCardDone(beats[d], Kind[c[2]])
        BY <4>3, <4>5
      <4> QED BY <2>0, <4>1, <4>4, <4>6 DEF Accounted
    <3>3. ASSUME BeatFails(r) PROVE Accounted(c)'
      BY <2>3, <3>3 DEF BeatFails, Accounted
    <3>4. ASSUME ServerDies PROVE Accounted(c)'
      BY <2>3, <3>4 DEF ServerDies, Accounted
    <3>5. ASSUME ServerNext, ~BeatCard(r), ~BeatFails(r), ~ServerDies
          PROVE  request'[r] = request[r]
      <4>1. ASSUME NEW q \in Requests, NEW y, q # r, request' = [request EXCEPT ![q] = y]
            PROVE  request'[r] = request[r]
        BY <1>0, <4>1
      <4>2. ASSUME NEW q \in Requests, NEW x \in Ids, NEW v \in Verbs, Press(q, x, v)
            PROVE  request'[r] = request[r]
        <5>1. q # r
          BY <2>3, <4>2 DEF Press
        <5> QED BY <1>0, <4>2, <5>1 DEF Press, Settle
      <4>3. ASSUME NEW q \in Requests, EvidenceRead(q) PROVE request'[r] = request[r]
        <5>1. q # r
          BY <2>3, <4>3 DEF EvidenceRead
        <5> QED BY <1>0, <4>3, <5>1 DEF EvidenceRead, Settle
      <4>4. ASSUME NEW q \in Requests, Suppress(q) PROVE request'[r] = request[r]
        <5>1. q # r
          BY <2>3, <4>4 DEF Suppress
        <5> QED BY <1>0, <4>4, <5>1 DEF Suppress
      <4>5. ASSUME NEW q \in Requests, RefillFails(q) \/ \E i \in Ideas : Refill(q, i)
            PROVE  request'[r] = request[r]
        BY <1>0, <2>3, <4>5 DEF RefillFails, Refill
      <4>6. ASSUME NEW q \in Requests, q # r, BeatCard(q) \/ BeatFails(q)
            PROVE  request'[r] = request[r]
        BY <1>0, <4>6 DEF BeatCard, BeatFails
      <4> QED BY <3>5, <4>2, <4>3, <4>4, <4>5, <4>6 DEF ServerNext
    <3>6. ASSUME request'[r] = request[r] PROVE Accounted(c)'
      BY <2>3, <3>6 DEF Accounted
    <3> QED BY <3>1, <3>2, <3>3, <3>4, <3>5, <3>6, DayFrame, DeskFrame, WorkerFrame
        DEF Next, vars
  <2> QED BY <1>1, <2>1, <2>2, <2>3 DEF DoneOK
<1>2. ASSUME NEW c \in Ids, Exists(c)', cards'[c].status = "done",
             ~(Exists(c) /\ cards[c].status = "done")
      PROVE  Accounted(c)'
  <2>1. /\ cards'[c] # cards[c] /\ Exists(c) /\ cards[c].status = "suggested"
        /\ cards[c] \in Card
    <3>1. ASSUME NEW at \in 1 .. today, cards'[c] = Suggested(at) PROVE FALSE
      BY <1>2, <3>1 DEF Suggested
    <3> QED BY <1>0, <1>2, <3>1 DEF RowsMove, RowStep, Exists, TypeInv, CardsOK
  <2>2. ASSUME NEW r \in Requests, NEW x \in Ids, NEW v \in Verbs, Settle(r, x, v)
        PROVE  Accounted(c)'
    <3>1. cards' = [cards EXCEPT ![x].status = v,
                                 ![x].acted = IF v = "done" THEN today ELSE 0]
      BY <2>1, <2>2 DEF Settle
    <3>2. x = c
      BY <2>1, <3>1 DEF TypeInv, CardsOK
    <3>3. v = "done"
      <4>1. cards'[c] = [cards[c] EXCEPT !.status = v,
                                         !.acted = IF v = "done" THEN today ELSE 0]
        BY <3>1, <3>2 DEF TypeInv, CardsOK
      <4> QED BY <1>2, <2>1, <4>1 DEF Card
    <3>4. Settles(c)
      BY <2>1 DEF Settles
    <3>5. request'[r].step = "beat" /\ request'[r].card = c
      BY <1>0, <2>2, <3>2, <3>3, <3>4 DEF Settle
    <3> QED BY <3>5 DEF Accounted
  <2>3. ASSUME NEW r \in Requests, NEW x \in Ids, NEW v \in Verbs, Press(r, x, v)
        PROVE  Settle(r, x, v)
    BY <2>1, <2>3 DEF Press
  <2>4. ASSUME NEW r \in Requests, EvidenceRead(r)
        PROVE  /\ Settle(r, request[r].card, request[r].verb)
               /\ request[r].card \in Ids /\ request[r].verb \in Verbs
    BY <2>4 DEF EvidenceRead, TypeInv, RequestsOK, RequestOK, Request
  <2>5. ASSUME NEW r \in Requests, Suppress(r) PROVE FALSE
    <3>1. \/ cards'[c] = cards[c]
          \/ cards'[c] = [cards[c] EXCEPT !.status = "skipped"]
      BY <2>5 DEF Suppress
    <3> QED BY <1>2, <2>1, <3>1 DEF Card
  <2>6. ASSUME NEW k \in Ticks, NEW p \in Picks, ChatPicks(k, p) PROVE FALSE
    <3>1. \/ cards'[c] = cards[c]
          \/ cards'[c] = [cards[c] EXCEPT !.expires = tick[k].at]
      BY <2>6 DEF ChatPicks
    <3> QED BY <1>2, <2>1, <3>1 DEF Card
  <2>7. ASSUME NEW ideas, NEW at, Inserted(ideas, at) PROVE FALSE
    <3>1. cards'[c] = Suggested(at)
      BY <2>1, <2>7 DEF Inserted
    <3> QED BY <1>2, <3>1 DEF Suggested
  <2>8. ASSUME WorkerNext PROVE FALSE
    BY <2>1, <2>6, <2>7, <2>8 DEF WorkerNext, Begin, ChatFails, ChatThin, InsertSet, RecordRun,
       Deliver, MailAnswered, MailFails, WorkerDies, inbox
  <2>9. ASSUME ServerNext PROVE Accounted(c)'
    <3>1. ASSUME NEW r \in Requests, NEW i \in Ideas, Refill(r, i) PROVE FALSE
      BY <2>1, <2>7, <3>1 DEF Refill
    <3>2. ASSUME NEW r \in Requests, RefillFails(r) \/ BeatCard(r) \/ BeatFails(r) PROVE FALSE
      BY <2>1, <3>2 DEF RefillFails, BeatCard, BeatFails, inbox
    <3>3. ASSUME ServerDies PROVE FALSE
      BY <2>1, <3>3 DEF ServerDies, inbox
    <3> QED BY <2>2, <2>3, <2>4, <2>5, <2>9, <3>1, <3>2, <3>3 DEF ServerNext
  <2> QED BY <2>1, <2>8, <2>9, DayFrame, DeskFrame DEF Next, vars
<1> QED BY <1>1, <1>2 DEF DoneOK, Accounted

-----------------------------------------------------------------------------
(* The theorems.                                                             *)

\* The first day: no row, nobody at work.
LEMMA InitHolds == Init => IInv
<1> SUFFICES ASSUME Init PROVE IInv
  OBVIOUS
<1>1. /\ today = 1 /\ cards = [c \in Ids |-> None] /\ batches = 0 /\ daily = {}
      /\ \A c \in Ids : ~Exists(c) /\ ~Open(c)
  BY DEF Init, Exists, Open
<1>2. CardsOK
  BY <1>1, ForYouAssumption DEF CardsOK, Days
<1>3. TicksOK
  <2>1. Idle \in Tick /\ Idle.step = "idle"
    BY ForYouAssumption DEF Idle, Tick
  <2> QED BY <2>1 DEF Init, TicksOK, Busy
<1>4. MailOK
  <2>1. mails = [d \in Days |-> 0] /\ keys = {} /\ optIn = FALSE /\ sentAt = 0
    BY DEF Init
  <2>2. 0 \in 0 .. MaxDay
    BY ForYouAssumption
  <2>3. mails \in [Days -> {0, 1}]
    BY <2>1
  <2> QED BY <2>1, <2>2, <2>3 DEF MailOK
<1>5. RequestsOK
  BY DEF Init, RequestsOK, RequestOK, Waiting, Request, Verbs
<1>6. LadderOK
  BY DEF Init, LadderOK, DayOK, Beats, emptyDeskBeats, Forks
<1>7. HistoryOK
  BY DEF Init, HistoryOK
<1>8. SetsOK /\ OpenOK /\ DoneOK
  BY <1>1 DEF SetsOK, OneSetOpen, OpenOK, DoneOK
<1> QED BY <1>2, <1>3, <1>4, <1>5, <1>6, <1>7, <1>8 DEF IInv, TypeInv

\* Every step keeps the invariant.
LEMMA NextKeeps == IInv /\ [Next]_vars => IInv'
BY TypesKept, SetsKept, OpenKept, DoneKept DEF IInv

\* The invariant holds in every behaviour.
THEOREM AlwaysInOrder == Spec => []IInv
BY InitHolds, NextKeeps, PTL DEF Spec

\* Types, and that whoever is at work has a day, or a card that is there.
THEOREM ForYouTypesCorrect == Spec => []ForYouTypeOK
<1>1. IInv => ForYouTypeOK
  <2> SUFFICES ASSUME IInv PROVE ForYouTypeOK
    OBVIOUS
  <2>1. CardsOK /\ TicksOK /\ MailOK /\ RequestsOK /\ LadderOK /\ HistoryOK
    BY DEF IInv, TypeInv
  <2>2. vetoed \subseteq Ideas
    BY <2>1 DEF HistoryOK, SkippedIn
  <2>3. mails \in [Days -> Nat]
    BY <2>1 DEF MailOK
  <2> QED BY <2>1, <2>2, <2>3 DEF ForYouTypeOK, CardsOK, TicksOK, MailOK, RequestsOK,
      RequestOK, LadderOK, HistoryOK
<1> QED BY <1>1, AlwaysInOrder, PTL

\* One set of a pass is open, and a day has one mail.
THEOREM DigestIsOne == Spec => []OneDigest
<1>1. IInv => OneDigest
  BY DEF IInv, TypeInv, SetsOK, MailOK, OneDigest, MailedOnceADay
<1> QED BY <1>1, AlwaysInOrder, PTL

\* What was skipped does not come back, and what slipped is not listed.
THEOREM VetoIsKept == Spec => []VetoKept
<1>1. IInv => VetoKept
  <2> SUFFICES ASSUME IInv PROVE VetoKept
    OBVIOUS
  <2>1. vetoed \subseteq SkippedIn(cards)
    BY DEF IInv, TypeInv, HistoryOK
  <2>2. \A c \in ListedIn(cards) : Alike[c[2]] \cap vetoed = {}
    BY <2>1 DEF ListedIn, Without
  <2> QED BY <2>2 DEF IInv, OpenOK, VetoKept
<1> QED BY <1>1, AlwaysInOrder, PTL

\* A card is settled once, whatever else is under way.
THEOREM CardsSettleOnce == Spec => SettledOnce
<1>1. IInv /\ [Next]_vars =>
        [\A c \in Ids : Exists(c) /\ cards[c].status # "suggested" => cards'[c] = cards[c]]_vars
  BY AllRows, SettledStays DEF IInv
<1> QED BY <1>1, AlwaysInOrder, PTL DEF Spec, SettledOnce

\* The ladder of each day is true to what was moved and done.
THEOREM LadderStaysTrue == Spec => []LadderIsTrue
<1>1. IInv => LadderIsTrue
  BY DEF IInv, TypeInv, LadderOK, DayOK, DoneOK, LadderIsTrue
<1> QED BY <1>1, AlwaysInOrder, PTL
===============================================================================
