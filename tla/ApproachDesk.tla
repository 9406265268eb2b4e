----------------------------- MODULE ApproachDesk -----------------------------
(* Desk tabs at work against the Approach server.  A tab shows a lock of its  *)
(* own (useApproachTask's stateRef), publishes it with PUTs, and takes the    *)
(* server's lock with GETs it makes when it boots, when its event stream      *)
(* opens and when the stream tells it that a panel press moved the task.      *)
(* Every call is a message: a request and an answer can be delayed past later *)
(* ones, and the operator, the panel and the stream go on meanwhile.          *)
(*                                                                            *)
(* The server half is ApproachServer, whose actions are used as they are; its *)
(* free desk is replaced by these tabs.  Nobody posts here, so nothing is     *)
(* detected: posts, originals and replied keep their initial values.          *)
EXTENDS ApproachServer, Sequences

CONSTANTS
  Desks,      \* open tabs of one browser
  Reliable,   \* no call is lost, and PUTs reach the server in order
  MaxMoves,   \* bound: presses, reloads, stream drops and republishes
  MaxPuts,    \* bound: publishes of one tab under way
  MaxReads    \* bound: reads of one tab under way besides the one at boot

ASSUME DeskAssumption ==
  Reliable \in BOOLEAN /\ MaxMoves \in Nat /\ MaxPuts \in Nat /\ MaxReads \in Nat

\* Null is no lock.
ASSUME NoLockAssumption == None \notin Lock

VARIABLES
  shown,      \* the lock a tab shows, None until it has restored one
  gone,       \* cards a tab will not offer again (releasedIdsRef)
  stored,     \* the lock in localStorage, shared by the tabs
  checked,    \* whether a tab may publish (serverTaskChecked)
  published,  \* the lock a tab's publishing effect last ran for
  pressing,   \* a button whose write is under way: [lock, event], or None
  puts,       \* publishes under way, oldest first
  reads,      \* reads under way, by slot
  wire,       \* stream frames under way, oldest first
  open,       \* whether a tab's event stream is open
  announce,   \* advances written whose notice is still to be published
  moves       \* how many moves the environment has made

tab == <<shown, gone, stored, pressing>>
net == <<puts, reads, wire, open, announce>>
page == <<checked, published>>
server == <<rows, requests, world>>
deskVars == <<server, tab, net, page, moves>>

BootRead == 0
Slots == BootRead..MaxReads
Put == [lock : Lock, named : BOOLEAN, preview : Preview \cup {None}]
Notice == [kind : {"task", "next"}, from : Cards \cup {None}, event : Events]
Read == [status : {"idle", "asked", "answered"}, lock : Lock \cup {None},
         released : SUBSET Cards]

Idle == [status |-> "idle", lock |-> None, released |-> {}]
Asked == [status |-> "asked", lock |-> None, released |-> {}]
NoReads == [i \in Slots |-> Idle]
BootReads == [i \in Slots |-> IF i = BootRead THEN Asked ELSE Idle]
TaskNotice == [kind |-> "task", from |-> None, event |-> "next"]
NextNotice(from, event) == [kind |-> "next", from |-> from, event |-> event]

DeskTypeOK ==
  /\ TypeOK
  /\ shown \in [Desks -> Lock \cup {None}] /\ stored \in Lock \cup {None}
  /\ gone \in [Desks -> SUBSET Cards]
  /\ checked \in [Desks -> BOOLEAN] /\ open \in [Desks -> BOOLEAN]
  /\ published \in [Desks -> Lock \cup {None}]
  /\ pressing \in [Desks -> Press \cup {None}]
  /\ puts \in [Desks -> Seq(Put)] /\ wire \in [Desks -> Seq(Notice)]
  /\ reads \in [Desks -> [Slots -> Read]]
  /\ announce \in Nat /\ moves \in 0..MaxMoves

DeskInit ==
  /\ Init
  /\ shown = [d \in Desks |-> None] /\ gone = [d \in Desks |-> {}] /\ stored = None
  /\ checked = [d \in Desks |-> FALSE] /\ published = [d \in Desks |-> None]
  /\ pressing = [d \in Desks |-> None] /\ puts = [d \in Desks |-> <<>>]
  /\ reads = [d \in Desks |-> BootReads] /\ wire = [d \in Desks |-> <<>>]
  /\ open = [d \in Desks |-> FALSE] /\ announce = 0 /\ moves = 0

\* The environment acts, which it does a bounded number of times.
Move == moves < MaxMoves /\ moves' = moves + 1

\* React renders, and runs the publishing effect, between two events of a tab.
Rendered(d) == shown[d] # None /\ checked[d] => shown[d] = published[d]

-----------------------------------------------------------------------------
(* The tab's own decisions.                                                   *)

\* What a tab would offer on any lock (normalizeRef).
DeskOffer(d, stock) == Inventory(stock, gone[d], None, FALSE)

HasCard(lock) == lock.phase \in {"scout_reply", "organic_reply"} /\ lock.cardId # None

\* A lock from storage or from the server is kept if it is a live task, and
\* otherwise brought in line with the gate and the stock.
NormalizeLock(lock, offer) ==
  IF HasCard(lock) THEN lock
  ELSE IF lock.phase = "scout_reply" /\ offer.scoutId # None THEN ScoutLock(offer.scoutId)
  ELSE IF lock.phase = "scout_reply" /\ offer.gate = None THEN lock
  ELSE IF offer.gate # None THEN SurfaceLock(offer.gate)
  ELSE IF lock.phase = "done_for_now" THEN AdvanceDone(lock, offer)
  ELSE IF IsForYouTask(lock) THEN lock
  ELSE NextInventoryCard(offer, None, None, FALSE)

\* First paint with nothing stored.
InitialLock(offer) ==
  IF offer.gate # None THEN SurfaceLock(offer.gate)
  ELSE IF offer.scoutId # None THEN ScoutLock(offer.scoutId) ELSE ForYouLock

Show(d, next) == shown' = [shown EXCEPT ![d] = next] /\ stored' = next

\* Leaving a card for another keeps it from being offered again.
Left(d, next) == {shown[d].cardId} \ {None, next.cardId}

\* A card button, from the tab or relayed from the panel.
AdvanceCard(d, stock, event) ==
  LET next == NextApproachStep(stock, gone[d], shown[d], event)
  IN  IF next = shown[d] THEN UNCHANGED <<shown, gone, stored>>
      ELSE /\ Show(d, next)
           /\ gone' = [gone EXCEPT ![d] = @ \cup Left(d, next)]

Restore(d, stock) ==
  /\ shown[d] = None
  /\ Show(d, IF stored = None THEN InitialLock(DeskOffer(d, stock))
             ELSE NormalizeLock(stored, DeskOffer(d, stock)))
  /\ UNCHANGED <<server, gone, pressing, net, page, moves>>

\* The first scout to arrive is locked onto an empty Collecting card.
AdoptEmptyScoutCollecting(d, stock) ==
  /\ Rendered(d)
  /\ shown[d] # None /\ ~HasCard(shown[d])
  /\ shown[d].phase \in {"done_for_now", "scout_reply"}
  /\ DeskOffer(d, stock).scoutId # None
  /\ Show(d, ScoutLock(DeskOffer(d, stock).scoutId))
  /\ UNCHANGED <<server, gone, pressing, net, page, moves>>

\* A prerequisite went missing or was met.
ReconcileGate(d, stock) ==
  /\ Move
  /\ Rendered(d)
  /\ shown[d] # None
  /\ NormalizeLock(shown[d], DeskOffer(d, stock)) # shown[d]
  /\ Show(d, NormalizeLock(shown[d], DeskOffer(d, stock)))
  /\ UNCHANGED <<server, gone, pressing, net, page>>

\* Next acts at once.
PressNext(d, stock) ==
  /\ Move
  /\ Rendered(d)
  /\ shown[d] # None
  /\ AdvanceCard(d, stock, "next")
  /\ UNCHANGED <<server, pressing, net, page>>

\* Skip, Not interested and I posted on X are first written to the server.
PressWrite(d, event) ==
  /\ Move
  /\ Rendered(d)
  /\ shown[d] # None /\ HasCard(shown[d]) /\ pressing[d] = None
  /\ event = "posted" => shown[d].phase = "organic_reply"
  /\ pressing' = [pressing EXCEPT ![d] = [lock |-> shown[d], event |-> event]]
  /\ UNCHANGED <<server, shown, gone, stored, net, page>>

\* The write is acknowledged, and the tab moves the card it is on by then.
PressWritten(d, stock) ==
  /\ Rendered(d)
  /\ pressing[d] # None /\ shown[d] # None
  /\ AdvanceCard(d, stock, pressing[d].event)
  /\ pressing' = [pressing EXCEPT ![d] = None]
  /\ UNCHANGED <<server, net, page, moves>>

PressRefused(d) ==
  /\ pressing[d] # None
  /\ pressing' = [pressing EXCEPT ![d] = None]
  /\ UNCHANGED <<server, shown, gone, stored, net, page, moves>>

-----------------------------------------------------------------------------
(* Publishing.                                                                *)

\* The effect runs for a new lock, and again when the state or the next card
\* it names changes.
Publish(d) ==
  /\ shown[d] # None /\ checked[d] /\ Len(puts[d]) < MaxPuts
  /\ IF shown[d] = published[d] THEN Move ELSE UNCHANGED moves
  /\ \E named \in BOOLEAN, stock \in Stocks :
       \E preview \in {None, Following(stock, gone[d], shown[d])} :
         /\ named \/ ViewOf(shown[d]) = "suggestion"
         /\ puts' = [puts EXCEPT ![d] =
              Append(@, [lock |-> shown[d], named |-> named, preview |-> preview])]
  /\ published' = [published EXCEPT ![d] = shown[d]]
  /\ UNCHANGED <<server, tab, reads, wire, open, announce, checked>>

Without(s, i) == [j \in 1..(Len(s) - 1) |-> IF j < i THEN s[j] ELSE s[j + 1]]

\* Separate fetches: unless the network is reliable, any of them may arrive next.
ServerTakesPut(d, i) ==
  /\ i \in 1..Len(puts[d])
  /\ Reliable => i = 1
  /\ PutLock(puts[d][i].lock, FALSE, puts[d][i].named, NoPost, puts[d][i].preview)
  /\ puts' = [puts EXCEPT ![d] = Without(@, i)]
  /\ UNCHANGED <<tab, reads, wire, open, announce, page, moves>>

\* A failed PUT is swallowed: .catch(() => {}).
LosePut(d) ==
  /\ ~Reliable /\ puts[d] # <<>>
  /\ puts' = [puts EXCEPT ![d] = Tail(@)]
  /\ UNCHANGED <<server, tab, reads, wire, open, announce, page, moves>>

-----------------------------------------------------------------------------
(* Taking the server's lock.                                                  *)

SetRead(d, i, read) == reads' = [reads EXCEPT ![d][i] = read]

\* Only a lock the server moved to is worth taking.
ServerOwnedLock == IF task # None /\ task.owner = "server" THEN task.lock ELSE None

ServerAnswers(d, i) ==
  /\ reads[d][i].status = "asked"
  /\ GetLock \/ UNCHANGED server
  /\ SetRead(d, i, [status |-> "answered", lock |-> ServerOwnedLock,
                    released |-> released])
  /\ UNCHANGED <<tab, puts, wire, open, announce, page, moves>>

\* The answer arrives.  The server's lock goes to storage, and to the screen if
\* a tab shows another one; the card left is not offered again.
TakeAnswer(d, i, stock) ==
  LET answer == reads[d][i]
      next == NormalizeLock(answer.lock, DeskOffer(d, stock))
      known == gone[d] \cup answer.released
  IN  /\ Rendered(d)
      /\ answer.status = "answered"
      /\ SetRead(d, i, Idle)
      /\ checked' = [checked EXCEPT ![d] = @ \/ i = BootRead]
      /\ IF answer.lock = None
         THEN gone' = [gone EXCEPT ![d] = known] /\ UNCHANGED <<shown, stored>>
         ELSE IF shown[d] \in {None, answer.lock}
         THEN /\ gone' = [gone EXCEPT ![d] = known]
              /\ stored' = answer.lock /\ UNCHANGED shown
         ELSE /\ gone' = [gone EXCEPT ![d] = known \cup Left(d, answer.lock)]
              /\ Show(d, next)
      /\ UNCHANGED <<server, pressing, puts, wire, open, announce, published, moves>>

\* A read fails and is swallowed; a failed boot read opens publishing.
LoseRead(d, i) ==
  /\ ~Reliable /\ reads[d][i].status # "idle"
  /\ SetRead(d, i, Idle)
  /\ checked' = [checked EXCEPT ![d] = @ \/ i = BootRead]
  /\ UNCHANGED <<server, tab, puts, wire, open, announce, published, moves>>

\* The boot read is given up after four seconds, and may still be answered.
GiveUp(d) ==
  /\ ~checked[d]
  /\ checked' = [checked EXCEPT ![d] = TRUE]
  /\ UNCHANGED <<server, tab, net, published, moves>>

-----------------------------------------------------------------------------
(* The event stream, and the panel presses it tells of.                       *)

Tell(notice) == wire' = [d \in Desks |-> IF open[d] THEN Append(wire[d], notice) ELSE wire[d]]

\* approach_task and ready make a tab read; approach_next presses its button,
\* if it is on the card the panel named.
DeskHears(d, stock) ==
  LET notice == Head(wire[d])
  IN  /\ Rendered(d)
      /\ wire[d] # <<>>
      /\ wire' = [wire EXCEPT ![d] = Tail(@)]
      /\ IF notice.kind = "task"
         THEN /\ \E i \in Slots \ {BootRead} :
                   reads[d][i] = Idle /\ SetRead(d, i, Asked)
              /\ UNCHANGED <<shown, gone, stored>>
         ELSE /\ IF /\ shown[d] # None
                    /\ IF notice.from = None THEN IsForYouTask(shown[d])
                       ELSE shown[d].cardId = notice.from
                 THEN AdvanceCard(d, stock, ServerNextEvent(shown[d], notice.event))
                 ELSE UNCHANGED <<shown, gone, stored>>
              /\ UNCHANGED reads
      /\ UNCHANGED <<server, pressing, puts, open, announce, page, moves>>

\* Mutant: a stream that opens does not make the tab read.
StreamReadySilent(d) ==
  /\ ~open[d]
  /\ open' = [open EXCEPT ![d] = TRUE]
  /\ UNCHANGED <<server, tab, puts, reads, wire, announce, page, moves>>

StreamReady(d) ==
  /\ ~open[d]
  /\ open' = [open EXCEPT ![d] = TRUE]
  /\ wire' = [wire EXCEPT ![d] = <<TaskNotice>>]
  /\ UNCHANGED <<server, tab, puts, reads, announce, page, moves>>

StreamDrop(d) ==
  /\ Move
  /\ open[d]
  /\ open' = [open EXCEPT ![d] = FALSE]
  /\ wire' = [wire EXCEPT ![d] = <<>>]
  /\ UNCHANGED <<server, tab, puts, reads, announce, page>>

PanelEvents == {"next", "skip", "dismiss", "posted"}

PanelPress(r, event) ==
  /\ Move /\ NextBegin(r, event) /\ UNCHANGED <<tab, net, page>>

\* A press for a card the task is not on is handed to the tabs.
PanelPressRefused(from, event) ==
  /\ Move
  /\ task # None
  /\ IF from = None THEN event = "next" /\ ~IsForYouTask(task.lock)
     ELSE task.lock.cardId # from
  /\ Tell(NextNotice(from, event))
  /\ UNCHANGED <<server, tab, puts, reads, open, announce, page>>

\* The rows are written; the notice follows after one more await.
PanelPressDone(r) ==
  /\ requests[r] # None
  /\ \E stock \in Stocks :
       /\ NextFinish(r, stock)
       /\ IF NextApproachStep(stock, released, requests[r].lock, requests[r].event)
             = requests[r].lock
          THEN /\ Tell(NextNotice(requests[r].lock.cardId, requests[r].event))
               /\ UNCHANGED announce
          ELSE announce' = announce + 1 /\ UNCHANGED wire
  /\ UNCHANGED <<tab, puts, reads, open, page, moves>>

PanelPressFails(r) ==
  /\ NextFail(r)
  /\ Tell(NextNotice(requests[r].lock.cardId, requests[r].event))
  /\ UNCHANGED <<tab, puts, reads, open, announce, page, moves>>

\* Mutant: an advance is not announced to the tabs.
AnnounceNobody ==
  /\ announce > 0 /\ announce' = announce - 1
  /\ UNCHANGED <<server, tab, puts, reads, wire, open, page, moves>>

Announce ==
  /\ announce > 0 /\ announce' = announce - 1
  /\ Tell(TaskNotice)
  /\ UNCHANGED <<server, tab, puts, reads, open, page, moves>>

-----------------------------------------------------------------------------
(* Pages and processes come and go.                                           *)

\* A reload forgets everything but storage; publishes already sent still land.
Reload(d) ==
  /\ Move
  /\ shown' = [shown EXCEPT ![d] = None] /\ gone' = [gone EXCEPT ![d] = {}]
  /\ pressing' = [pressing EXCEPT ![d] = None]
  /\ checked' = [checked EXCEPT ![d] = FALSE]
  /\ published' = [published EXCEPT ![d] = None]
  /\ reads' = [reads EXCEPT ![d] = BootReads]
  /\ wire' = [wire EXCEPT ![d] = <<>>] /\ open' = [open EXCEPT ![d] = FALSE]
  /\ UNCHANGED <<server, stored, puts, announce>>

\* The server restarts: its rows stay, everything under way is lost.
ServerRestart ==
  /\ Move
  /\ ~Reliable
  /\ requests' = [r \in Requests |-> None]
  /\ puts' = [d \in Desks |-> <<>>] /\ announce' = 0
  /\ wire' = [d \in Desks |-> <<>>] /\ open' = [d \in Desks |-> FALSE]
  /\ UNCHANGED <<rows, world, tab, reads, page>>

\* The panel reads, or a day passes.
ServerAlone ==
  /\ \/ GetLock /\ UNCHANGED moves
     \/ RowsExpire /\ Move
  /\ UNCHANGED <<tab, net, page>>

-----------------------------------------------------------------------------

DeskDecides(d) ==
  \/ \E stock \in Stocks :
       \/ Restore(d, stock) \/ AdoptEmptyScoutCollecting(d, stock)
       \/ ReconcileGate(d, stock) \/ PressNext(d, stock) \/ PressWritten(d, stock)
  \/ \E event \in {"skip", "dismiss", "posted"} : PressWrite(d, event)
  \/ PressRefused(d)

DeskCalls(d) ==
  \/ Publish(d) \/ LosePut(d) \/ GiveUp(d)
  \/ \E i \in 1..MaxPuts : ServerTakesPut(d, i)
  \/ \E i \in Slots : \/ ServerAnswers(d, i) \/ LoseRead(d, i)
                      \/ \E stock \in Stocks : TakeAnswer(d, i, stock)

DeskStream(d) == StreamReady(d) \/ StreamDrop(d) \/ \E stock \in Stocks : DeskHears(d, stock)

Panel ==
  \/ \E r \in Requests : \/ \E event \in PanelEvents : PanelPress(r, event)
                         \/ PanelPressDone(r) \/ PanelPressFails(r)
  \/ \E from \in Cards \cup {None}, event \in PanelEvents :
       PanelPressRefused(from, event)
  \/ Announce

DeskNext ==
  \/ \E d \in Desks : DeskDecides(d) \/ DeskCalls(d) \/ DeskStream(d) \/ Reload(d)
  \/ Panel \/ ServerAlone \/ ServerRestart

\* Every call is answered in the end, a written press settles, effects run
\* after a render, and a dropped stream reconnects.
DeskFairness ==
  /\ \A d \in Desks :
       /\ WF_deskVars(\E stock \in Stocks : Restore(d, stock))
       /\ WF_deskVars((\E stock \in Stocks : PressWritten(d, stock)) \/ PressRefused(d))
       /\ WF_deskVars(Publish(d) /\ shown[d] # published[d])
       /\ WF_deskVars(ServerTakesPut(d, 1))
       /\ WF_deskVars(GiveUp(d))
       /\ WF_deskVars(StreamReady(d))
       /\ WF_deskVars(\E stock \in Stocks : DeskHears(d, stock))
       /\ \A i \in Slots :
            /\ WF_deskVars(ServerAnswers(d, i))
            /\ WF_deskVars(\E stock \in Stocks : TakeAnswer(d, i, stock))
  /\ \A r \in Requests : WF_deskVars(PanelPressDone(r) \/ PanelPressFails(r))
  /\ WF_deskVars(Announce)

DeskSafety == DeskInit /\ [][DeskNext]_deskVars
DeskSpec == DeskSafety /\ DeskFairness

-----------------------------------------------------------------------------

(* The tabs are the desk ApproachServer expects: whatever they publish, in    *)
(* whatever order it arrives, the server's rows move as that specification    *)
(* says.                                                                      *)
ServerSpec == Spec

(* Nothing is under way between a tab and the server.                         *)
Quiet(d) ==
  /\ shown[d] # None /\ shown[d] = published[d] /\ puts[d] = <<>>
  /\ reads[d] = NoReads /\ wire[d] = <<>> /\ open[d] /\ announce = 0

(* A tab and the server never settle on different cards: once nothing is      *)
(* under way between them and the server has a card or For You up, the tab    *)
(* shows that very lock.                                                      *)
CardAgreement ==
  \A d \in Desks :
    Quiet(d) /\ task # None /\ (HasCard(task.lock) \/ IsForYouTask(task.lock))
      => shown[d] = task.lock

(* The same for every lock, Collecting included (deskEvents.test.ts: moves    *)
(* the card on the server first, even with a desk open, and tells the desk to *)
(* take it).                                                                  *)
QuietAgreement == \A d \in Desks : Quiet(d) /\ task # None => shown[d] = task.lock

(* When presses, reloads and stream drops stop, tab and server come to show   *)
(* the same lock and keep it.                                                 *)
Convergence ==
  <>[](/\ task # None
       /\ HasCard(task.lock) \/ IsForYouTask(task.lock) =>
            \A d \in Desks : shown[d] = task.lock)

(* A button leaves only the card it was pressed on (deskPhase.ts: the chosen  *)
(* result is locked until another legal card button is pressed).              *)
LockedUntilPressed ==
  [][ \A d \in Desks :
        pressing[d] # None /\ pressing'[d] = None /\ shown[d] # None
        /\ shown'[d] \notin {None, shown[d]}
          => shown[d].cardId = pressing[d].lock.cardId ]_deskVars

(* A publish sent before a panel press does not put the task back on the card *)
(* the press released (deskEvents.test.ts: moves the card on the server       *)
(* first, even with a desk open, and tells the desk to take it).              *)
AdvanceStands ==
  [][ task # None /\ task.owner = "server" /\ task' # task /\ task'.owner = "desk"
        => task'.lock.cardId \notin released ]_deskVars

=============================================================================
