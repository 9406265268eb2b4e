----------------------------- MODULE ScoutFlight -----------------------------
(* A Scout flight of one user (server/src/scout): the gate that keeps flights *)
(* apart, the takeoffs and credits they use, the collect loop, the tank they  *)
(* fill, and what the rest of the desk does to the tank meanwhile.            *)
(*                                                                            *)
(* A flight is started by the operator's request, which the browser may drop, *)
(* or in the background by a read that finds at most one card to serve.  The  *)
(* actions are the stretches of its code between two awaits on the network.   *)
(* Every card has an author of its own.                                       *)
EXTENDS Integers, FiniteSets

CONSTANTS
  Cards,           \* posts a search can find
  Conversations,   \* the conversations they belong to
  ConversationOf,  \* the conversation of a card
  Flights,         \* runs of the collect loop
  DailyLimit,      \* PLAN_DAILY_SORTIES of the user's plan
  Pool,            \* credits of the month
  BucketSize, TargetCool,
  MaxSearches,     \* MAX_SEARCH_CALLS
  MaxAttempts,     \* MAX_BUCKET_ATTEMPTS
  MaxReads,        \* bound: posts one search or one hydration charges
  MaxDays,         \* bound: UTC days
  MaxCrashes       \* bound: server restarts

ASSUME FlightAssumption ==
  /\ ConversationOf \in [Cards -> Conversations]
  /\ IsFiniteSet(Cards) /\ IsFiniteSet(Flights)
  /\ DailyLimit \in Nat \ {0} /\ Pool \in Nat \ {0} /\ MaxReads \in Nat
  /\ BucketSize \in Nat \ {0} /\ TargetCool \in Nat \ {0}
  /\ MaxSearches \in Nat /\ MaxAttempts \in Nat
  /\ MaxDays \in Nat \ {0} /\ MaxCrashes \in Nat

VARIABLES
  gate,      \* the user's gate: "free", "busy", or "cooling" after a flight
  flight,    \* the runs
  sorties,   \* rows of scout_sorties
  spent,     \* posts charged this month
  tank,      \* cards of the saved snapshot
  consumed,  \* conversations with an interaction, dismissal or skip row
  pruning,   \* of those, the ones whose handler has not pruned the tank yet
  expired,   \* cards with an expiry row
  day, crashes

ledgers == <<consumed, pruning, expired>>
flightVars == <<gate, flight, sorties, spent, tank, ledgers, day, crashes>>

-----------------------------------------------------------------------------

Stages == {"waiting", "index", "planning", "filling", "searching", "hydrating",
           "triaging", "landing", "failing", "over", "lost"}

Sortie == [flight : Flights, day : 1..MaxDays, delivered : BOOLEAN]

Flight ==
  [stage : Stages,
   background : BOOLEAN,            \* not started by a request the browser can drop
   aborted : BOOLEAN,
   blocked : SUBSET Conversations,  \* conversations consumed when the run read the ledgers
   seen : SUBSET Cards,             \* seenIds
   bucket : SUBSET Cards,           \* candidates to hydrate and triage next
   reserve : SUBSET Cards,          \* candidates kept for later buckets
   bait : SUBSET Conversations,     \* baitConversationIds
   cool : SUBSET Cards,             \* qualified so far
   reported : Nat,                  \* the handler's coolCount
   searches : Nat, attempts : Nat]

FlightTypeOK ==
  /\ gate \in {"free", "busy", "cooling"}
  /\ flight \in [Flights -> Flight]
  /\ \A f \in Flights :
       /\ flight[f].searches <= MaxSearches /\ flight[f].attempts <= MaxAttempts
       /\ Cardinality(flight[f].bucket) <= BucketSize
  /\ sorties \subseteq Sortie
  /\ spent \in Nat
  /\ tank \subseteq Cards /\ consumed \subseteq Conversations /\ expired \subseteq Cards
  /\ pruning \subseteq consumed
  /\ day \in 1..MaxDays /\ crashes \in 0..MaxCrashes

Waiting ==
  [stage |-> "waiting", background |-> FALSE, aborted |-> FALSE, blocked |-> {}, seen |-> {}, bucket |-> {},
   reserve |-> {}, bait |-> {}, cool |-> {}, reported |-> 0,
   searches |-> 0, attempts |-> 0]

InProgress(f) == flight[f].stage \notin {"waiting", "over", "lost"}

FlightInit ==
  /\ gate = "free" /\ flight = [f \in Flights |-> Waiting]
  /\ sorties = {} /\ spent = 0 /\ tank = {}
  /\ consumed = {} /\ pruning = {} /\ expired = {} /\ day = 1 /\ crashes = 0

-----------------------------------------------------------------------------

InConversation(conversations) == {c \in Cards : ConversationOf[c] \in conversations}

\* Mutant: the merge with the old snapshot forgets the ledgers.
SavedTankUnfiltered(cool) == tank \cup cool

\* saveScoutCache: what was there and what is new, without what was consumed.
SavedTank(cool) == (tank \cup cool) \ InConversation(consumed)

Served == (tank \ expired) \ InConversation(consumed)

Larger(m, n) == IF m > n THEN m ELSE n

SortiesOf(d) == {s \in sorties : s.day = d}

QuotaLeft == spent < Pool /\ Cardinality(SortiesOf(day)) < DailyLimit

\* Some Min(free, all) of the candidates fit in the bucket.
Admitted(bucket, candidates) ==
  {fit \in SUBSET candidates :
     \/ fit = candidates /\ Cardinality(bucket \cup fit) <= BucketSize
     \/ Cardinality(bucket \cup fit) = BucketSize}

\* What is left of a run's state once its loop has ended.
Ends(f, stage) ==
  [Waiting EXCEPT !.stage = stage, !.cool = flight[f].cool, !.reported = flight[f].reported]

Full(bucket) == Cardinality(bucket) >= BucketSize

-----------------------------------------------------------------------------

(* Starting a flight.                                                         *)

\* Mutant: only the cooldown is checked.
TryBeginBusy(f, background) ==
  /\ flight[f].stage = "waiting" /\ QuotaLeft /\ gate # "cooling"
  /\ gate' = "busy"
  /\ flight' = [flight EXCEPT ![f].stage = "index", ![f].background = background]
  /\ UNCHANGED <<sorties, spent, tank, ledgers, day, crashes>>

\* Checks and gate are one synchronous stretch, in the request's handler and in
\* the background start.
TryBegin(f, background) ==
  /\ flight[f].stage = "waiting" /\ QuotaLeft /\ gate = "free"
  /\ gate' = "busy"
  /\ flight' = [flight EXCEPT ![f].stage = "index", ![f].background = background]
  /\ UNCHANGED <<sorties, spent, tank, ledgers, day, crashes>>

TakeOff(f) == TryBegin(f, FALSE)

StartEmptyTank(f) == Cardinality(Served) <= 1 /\ TryBegin(f, TRUE)

RecordSortie(f) ==
  /\ flight[f].stage = "index"
  /\ sorties' = SortiesOf(day) \cup {[flight |-> f, day |-> day, delivered |-> FALSE]}
  /\ flight' = [flight EXCEPT ![f].stage = "planning"]
  /\ UNCHANGED <<gate, spent, tank, ledgers, day, crashes>>

\* A run that planned nothing, or was dropped while it planned, found nothing.
Planned(f) ==
  /\ flight[f].stage = "planning"
  /\ \/ flight' = [flight EXCEPT ![f].stage = "filling", ![f].blocked = consumed]
     \/ flight' = [flight EXCEPT ![f] = Ends(f, "failing")]
  /\ UNCHANGED <<gate, sorties, spent, tank, ledgers, day, crashes>>

\* The browser closes the request.
Abort(f) ==
  /\ InProgress(f) /\ flight[f].stage \notin {"landing", "failing"}
  /\ ~flight[f].background /\ ~flight[f].aborted
  /\ flight' = [flight EXCEPT ![f].aborted = TRUE]
  /\ UNCHANGED <<gate, sorties, spent, tank, ledgers, day, crashes>>

-----------------------------------------------------------------------------

(* The collect loop.  Candidates left in the reserve fill the bucket before a *)
(* search is paid for; a bucket that does not fill up is triaged once.        *)

LoopEnds(f) ==
  \/ flight[f].aborted
  \/ Cardinality(flight[f].cool) >= TargetCool
  \/ flight[f].attempts >= MaxAttempts

LeaveLoop(f) ==
  /\ flight[f].stage = "filling" /\ LoopEnds(f)
  /\ flight' = [flight EXCEPT ![f] = Ends(f, "landing")]
  /\ UNCHANGED <<gate, sorties, spent, tank, ledgers, day, crashes>>

DrainReserve(f) ==
  /\ flight[f].stage = "filling" /\ ~LoopEnds(f)
  /\ flight[f].reserve # {} /\ ~Full(flight[f].bucket)
  /\ \E fit \in Admitted(flight[f].bucket, flight[f].reserve) :
       flight' = [flight EXCEPT ![f].bucket = @ \cup fit, ![f].reserve = @ \ fit]
  /\ UNCHANGED <<gate, sorties, spent, tank, ledgers, day, crashes>>

\* Mutant: only searches that bring candidates count.
SearchUncounted(f) ==
  /\ flight[f].stage = "filling" /\ ~LoopEnds(f)
  /\ flight[f].reserve = {} /\ ~Full(flight[f].bucket)
  /\ flight[f].searches < MaxSearches
  /\ flight' = IF spent < Pool
               THEN [flight EXCEPT ![f].stage = "searching"]
               ELSE [flight EXCEPT ![f] = Ends(f, "landing")]
  /\ UNCHANGED <<gate, sorties, spent, tank, ledgers, day, crashes>>

\* The creditGate is asked before every search.
Search(f) ==
  /\ flight[f].stage = "filling" /\ ~LoopEnds(f)
  /\ flight[f].reserve = {} /\ ~Full(flight[f].bucket)
  /\ flight[f].searches < MaxSearches
  /\ flight' = IF spent < Pool
               THEN [flight EXCEPT ![f].stage = "searching", ![f].searches = @ + 1]
               ELSE [flight EXCEPT ![f] = Ends(f, "landing")]
  /\ UNCHANGED <<gate, sorties, spent, tank, ledgers, day, crashes>>

SearchAnswers(f) ==
  /\ flight[f].stage = "searching"
  /\ \E n \in 0..MaxReads : spent' = spent + n
  /\ \/ flight[f].aborted /\ flight' = [flight EXCEPT ![f] = Ends(f, "landing")]
     \/ /\ ~flight[f].aborted
        /\ \E found \in SUBSET ((Cards \ flight[f].seen) \ InConversation(flight[f].blocked)) :
             \E fit \in Admitted(flight[f].bucket, found) :
               flight' = [flight EXCEPT ![f].stage = "filling", ![f].seen = @ \cup found,
                                        ![f].bucket = @ \cup fit,
                                        ![f].reserve = @ \cup (found \ fit)]
  /\ UNCHANGED <<gate, sorties, tank, ledgers, day, crashes>>

SearchFails(f) ==
  /\ flight[f].stage = "searching"
  /\ flight' = [flight EXCEPT ![f] = IF flight[f].aborted THEN Ends(f, "landing")
                                    ELSE [@ EXCEPT !.stage = "filling"]]
  /\ UNCHANGED <<gate, sorties, spent, tank, ledgers, day, crashes>>

\* The bucket is full, or the searches have no more to give.
Score(f) ==
  /\ flight[f].stage = "filling" /\ ~LoopEnds(f)
  /\ Full(flight[f].bucket) \/ flight[f].reserve = {}
  /\ flight' = IF flight[f].bucket = {}
               THEN [flight EXCEPT ![f] = Ends(f, "landing")]
               ELSE [flight EXCEPT ![f].stage = "hydrating", ![f].attempts = @ + 1]
  /\ UNCHANGED <<gate, sorties, spent, tank, ledgers, day, crashes>>

\* Parents are read, and charged, without asking the creditGate.
Hydrated(f) ==
  /\ flight[f].stage = "hydrating"
  /\ \E n \in 0..MaxReads : spent' = spent + n
  /\ \/ flight[f].aborted /\ flight' = [flight EXCEPT ![f] = Ends(f, "landing")]
     \/ /\ ~flight[f].aborted
        /\ \/ flight' = [flight EXCEPT ![f].stage = "triaging"]
           \* The filters emptied the bucket.
           \/ flight' = [flight EXCEPT ![f].stage = "filling", ![f].bucket = {}]
           \/ flight' = [flight EXCEPT ![f] = Ends(f, "landing")]
  /\ UNCHANGED <<gate, sorties, tank, ledgers, day, crashes>>

\* What triage makes of the bucket: more bait, and cards that qualify.
Verdict(f) ==
  {v \in [bait : SUBSET {ConversationOf[c] : c \in flight[f].bucket},
          newly : SUBSET (flight[f].bucket \ InConversation(flight[f].blocked))] :
     v.newly \cap InConversation(flight[f].bait \cup v.bait) = {}}

CoolAfter(f, v) ==
  (flight[f].cool \ InConversation(flight[f].bait \cup v.bait)) \cup v.newly

ReportedAfter(f, v) ==
  IF v.newly = {} THEN flight[f].reported
  ELSE Larger(flight[f].reported, Cardinality(CoolAfter(f, v)))

\* Mutant: cools are saved when the run lands.
TriagedUnsaved(f) ==
  /\ flight[f].stage = "triaging"
  /\ \E v \in Verdict(f) :
       /\ flight' = [flight EXCEPT ![f] =
            IF Cardinality(CoolAfter(f, v)) >= TargetCool \/ ~Full(flight[f].bucket)
            THEN [Ends(f, "landing") EXCEPT !.cool = CoolAfter(f, v),
                                            !.reported = ReportedAfter(f, v)]
            ELSE [flight[f] EXCEPT !.stage = "filling", !.bucket = {}, !.bait = @ \cup v.bait,
                                   !.cool = CoolAfter(f, v),
                                   !.reported = ReportedAfter(f, v)]]
  /\ UNCHANGED <<gate, sorties, spent, tank, ledgers, day, crashes>>

\* Cools are saved as they qualify.
Triaged(f) ==
  /\ flight[f].stage = "triaging"
  /\ \E v \in Verdict(f) :
       /\ flight' = [flight EXCEPT ![f] =
            IF Cardinality(CoolAfter(f, v)) >= TargetCool \/ ~Full(flight[f].bucket)
            THEN [Ends(f, "landing") EXCEPT !.cool = CoolAfter(f, v),
                                            !.reported = ReportedAfter(f, v)]
            ELSE [flight[f] EXCEPT !.stage = "filling", !.bucket = {}, !.bait = @ \cup v.bait,
                                   !.cool = CoolAfter(f, v),
                                   !.reported = ReportedAfter(f, v)]]
       /\ tank' = IF v.newly = {} THEN tank ELSE SavedTank(CoolAfter(f, v))
  /\ UNCHANGED <<gate, sorties, spent, ledgers, day, crashes>>

\* A call of the loop throws: runScoutCollect answers collect_failed.
CollectFails(f) ==
  /\ flight[f].stage \in {"searching", "hydrating", "triaging"}
  /\ flight' = [flight EXCEPT ![f] = Ends(f, "failing")]
  /\ UNCHANGED <<gate, sorties, spent, tank, ledgers, day, crashes>>

-----------------------------------------------------------------------------

(* The end of a flight.                                                       *)

\* A takeoff is kept when the run delivered a card, and deleted otherwise.
Settled(f, coolCount) ==
  {s \in sorties : s.flight # f}
  \cup IF coolCount < 1 THEN {}
       ELSE {[s EXCEPT !.delivered = TRUE] : s \in {s \in sorties : s.flight = f}}

\* The run's last save and event, and the handler's account of them.
Land(f) ==
  /\ flight[f].stage = "landing"
  /\ tank' = SavedTank(flight[f].cool)
  /\ sorties' = Settled(f, Cardinality(flight[f].cool))
  /\ flight' = [flight EXCEPT ![f] = Ends(f, "over")] /\ gate' = "cooling"
  /\ UNCHANGED <<spent, ledgers, day, crashes>>

\* A run that failed counts the cards of its events.
Fail(f) ==
  /\ flight[f].stage = "failing"
  /\ sorties' = Settled(f, flight[f].reported)
  /\ flight' = [flight EXCEPT ![f] = Ends(f, "over")] /\ gate' = "cooling"
  /\ UNCHANGED <<spent, tank, ledgers, day, crashes>>

\* ensureMemoryIndex throws before the takeoff is recorded.
IndexFails(f) ==
  /\ flight[f].stage = "index"
  /\ flight' = [flight EXCEPT ![f] = Ends(f, "over")] /\ gate' = "cooling"
  /\ UNCHANGED <<sorties, spent, tank, ledgers, day, crashes>>

Cooled ==
  /\ gate = "cooling" /\ gate' = "free"
  /\ UNCHANGED <<flight, sorties, spent, tank, ledgers, day, crashes>>

-----------------------------------------------------------------------------

(* The rest of the desk.                                                      *)

\* A mark, a detected reply, a dismissal or a skip writes its row, and prunes
\* the tank after a further await.
Consume(v) ==
  /\ v \notin consumed
  /\ consumed' = consumed \cup {v} /\ pruning' = pruning \cup {v}
  /\ UNCHANGED <<gate, flight, sorties, spent, tank, expired, day, crashes>>

PruneConsumed(v) ==
  /\ v \in pruning
  /\ pruning' = pruning \ {v} /\ tank' = tank \ InConversation({v})
  /\ UNCHANGED <<gate, flight, sorties, spent, consumed, expired, day, crashes>>

\* The expire pass writes the row of a stale card and prunes that card.
Expire(c) ==
  /\ c \in tank \ expired
  /\ expired' = expired \cup {c} /\ tank' = tank \ {c}
  /\ UNCHANGED <<gate, flight, sorties, spent, consumed, pruning, day, crashes>>

\* recordSortie deletes the rows of earlier days for every user.
OtherUserTakesOff ==
  /\ sorties # SortiesOf(day) /\ sorties' = SortiesOf(day)
  /\ UNCHANGED <<gate, flight, spent, tank, ledgers, day, crashes>>

NextDay ==
  /\ day < MaxDays /\ day' = day + 1
  /\ UNCHANGED <<gate, flight, sorties, spent, tank, ledgers, crashes>>

\* Gates and runs live in memory, rows and tank on disk.
Crash ==
  /\ crashes < MaxCrashes /\ crashes' = crashes + 1
  /\ gate' = "free" /\ pruning' = {}
  /\ flight' = [f \in Flights |->
                  IF InProgress(f) THEN [Waiting EXCEPT !.stage = "lost"] ELSE flight[f]]
  /\ UNCHANGED <<sorties, spent, tank, consumed, expired, day>>

-----------------------------------------------------------------------------

CollectSteps(f) ==
  \/ LeaveLoop(f) \/ DrainReserve(f) \/ Search(f) \/ SearchAnswers(f) \/ SearchFails(f)
  \/ Score(f) \/ Hydrated(f) \/ Triaged(f) \/ CollectFails(f)

FlightSteps(f) ==
  RecordSortie(f) \/ IndexFails(f) \/ Planned(f) \/ CollectSteps(f) \/ Land(f) \/ Fail(f)

DeskSteps ==
  \/ \E v \in Conversations : Consume(v) \/ PruneConsumed(v)
  \/ \E c \in Cards : Expire(c)

FlightNext ==
  \/ \E f \in Flights : TakeOff(f) \/ StartEmptyTank(f) \/ Abort(f) \/ FlightSteps(f)
  \/ Cooled \/ DeskSteps \/ OtherUserTakesOff \/ NextDay \/ Crash

\* Every call of a run times out, so a run in progress always takes a step.
FlightFairness == \A f \in Flights : WF_flightVars(FlightSteps(f))

FlightSafety == FlightInit /\ [][FlightNext]_flightVars
FlightSpec == FlightSafety /\ FlightFairness

-----------------------------------------------------------------------------

(* The gate is held exactly while a run is in progress, and by one run: two   *)
(* starts never fly together, and no ending forgets the gate.                 *)
GateHoldsFlight ==
  /\ gate = "busy" <=> \E f \in Flights : InProgress(f)
  /\ \A f, g \in Flights : InProgress(f) /\ InProgress(g) => f = g

(* A day never has more takeoffs than the plan allows, although the limit is  *)
(* checked before an await and the takeoff recorded after it.                 *)
TakeoffsInLimit == Cardinality(SortiesOf(day)) <= DailyLimit

(* However many flights and restarts, the month is overdrawn by less than one *)
(* search and the hydrations of one run: the pool is asked about before every *)
(* search, not before a hydration.                                            *)
OverdraftBounded == spent < Pool + MaxReads * (MaxAttempts + 1)

(* What the plan allows is kept by flights that race: one at a time, a day's  *)
(* takeoffs, a month's credits (scoutGate.ts:38, scoutHttp.ts:338,            *)
(* scoutCollect.ts:645).                                                      *)
LimitsKept == GateHoldsFlight /\ TakeoffsInLimit /\ OverdraftBounded

(* Every takeoff is settled: a row that is not marked delivered belongs to a  *)
(* run in progress, or to one a restart cut off.                              *)
TakeoffsSettled ==
  \A s \in sorties :
    ~s.delivered => InProgress(s.flight) \/ flight[s.flight].stage = "lost"

(* A takeoff that counts has left its cards in the tank, also when the run    *)
(* was dropped or failed later, and stays so until the operator consumes them *)
(* or they expire.                                                            *)
CountedTakeoffKeptCards ==
  \A s \in sorties :
    s.delivered =>
      flight[s.flight].cool \subseteq tank \cup expired \cup InConversation(consumed)

(* The takeoffs recorded tell what came of their runs, however they ended     *)
(* (scoutCollect.ts:893, scoutSorties.ts:33).                                 *)
SortiesTrue == TakeoffsSettled /\ CountedTakeoffKeptCards

(* A card of a conversation the operator is done with never comes back to the *)
(* tank, although a run in progress still carries it or reads no ledger any   *)
(* more.                                                                      *)
ConsumedStaysOut ==
  [][(tank' \ tank) \cap InConversation(consumed) = {}]_flightVars

(* A run that began ends, whatever its searches bring.                        *)
FlightEnds == \A f \in Flights : InProgress(f) ~> ~InProgress(f)

(* A takeoff is deleted only when its run never landed a card, that is, never *)
(* saved one to the tank and told the desk of it (scoutSorties.ts: keep the   *)
(* takeoff if at least one cool landed, even on a later abort).               *)
LandedTakeoffIsKept ==
  [][ \A f \in Flights :
        /\ InProgress(f) /\ flight'[f].stage = "over"
        /\ \E s \in sorties : s.flight = f
        /\ ~ \E s \in sorties' : s.flight = f
        => flight[f].reported = 0 ]_flightVars

=============================================================================
