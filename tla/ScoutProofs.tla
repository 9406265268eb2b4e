------------------------------ MODULE ScoutProofs ------------------------------
(* Proofs about the Scout: the flights that fill its feed (ScoutFlight), for  *)
(* every set of cards and runs, every limit and every bound; the events that  *)
(* tell the pages of it (DeskEvents), for every set of tabs, every buffer     *)
(* size and every sequence of publishes, losses, replays and restarts; and    *)
(* the evidence of takes (ScoutEvidence), for every set of replies, threads,  *)
(* adapters and passes.  The three specifications share no variable.          *)
EXTENDS ScoutFlight, DeskEvents, ScoutEvidence, FiniteSetTheorems, SequenceTheorems,
        WellFoundedInduction, TLAPS

(******************************************************************************)
(* Flights.                                                                   *)
(******************************************************************************)

-----------------------------------------------------------------------------
(* Type correctness.                                                          *)

(* A run as the type invariant wants it.                                      *)
GoodRun(run) ==
  /\ run \in Flight
  /\ run.searches <= MaxSearches /\ run.attempts <= MaxAttempts
  /\ Cardinality(run.bucket) <= BucketSize

\* Every set of cards is finite.
LEMMA CardSetsAreFinite ==
  ASSUME NEW S \in SUBSET Cards
  PROVE  IsFiniteSet(S) /\ Cardinality(S) \in Nat
BY FlightAssumption, FS_Subset, FS_CardinalityType

\* The empty bucket holds nothing.
LEMMA EmptyBucketFits == Cardinality({}) = 0
BY FS_EmptySet

\* A run that has not started is well typed.
LEMMA WaitingIsGood ==
  ASSUME NEW stage \in Stages
  PROVE  GoodRun([Waiting EXCEPT !.stage = stage]) /\ GoodRun(Waiting)
<1> DEFINE run == [Waiting EXCEPT !.stage = stage]
<1>1. run \in Flight /\ Waiting \in Flight
  BY DEF Flight, Waiting, Stages
<1>2. run.bucket = {} /\ run.searches = 0 /\ run.attempts = 0
  BY DEF Waiting
<1>3. Waiting.bucket = {} /\ Waiting.searches = 0 /\ Waiting.attempts = 0
  BY DEF Waiting
<1> HIDE DEF run
<1>4. GoodRun(run) /\ GoodRun(Waiting)
  BY <1>1, <1>2, <1>3, FlightAssumption, EmptyBucketFits DEF GoodRun
<1> QED BY <1>4 DEF run

\* So is a run whose loop has ended.
LEMMA EndsIsGood ==
  ASSUME NEW f \in Flights, flight[f] \in Flight, NEW stage \in Stages
  PROVE  GoodRun(Ends(f, stage))
<1>1. Ends(f, stage) \in Flight
  BY DEF Flight, Waiting, Stages, Ends
<1>2. /\ Ends(f, stage).bucket = {}
      /\ Ends(f, stage).searches = 0 /\ Ends(f, stage).attempts = 0
  BY DEF Waiting, Ends
<1> QED BY <1>1, <1>2, FlightAssumption, EmptyBucketFits DEF GoodRun

\* And a run that only changes its stage.
LEMMA StageChangeIsGood ==
  ASSUME NEW run, GoodRun(run), NEW stage \in Stages
  PROVE  GoodRun([run EXCEPT !.stage = stage])
<1> DEFINE new == [run EXCEPT !.stage = stage]
<1>1. new \in Flight
  BY DEF GoodRun, Flight
<1>2. new.bucket = run.bucket /\ new.searches = run.searches /\ new.attempts = run.attempts
  BY DEF GoodRun, Flight
<1> HIDE DEF new
<1>3. GoodRun(new)
  BY <1>1, <1>2 DEF GoodRun
<1> QED BY <1>3 DEF new

(* New sets of cards in a run.                                                *)
LEMMA CardsChangeIsTyped ==
  ASSUME NEW run \in Flight,
         NEW S \in SUBSET Cards, NEW B \in SUBSET Cards, NEW R \in SUBSET Cards
  PROVE  /\ [run EXCEPT !.bucket = B, !.reserve = R] \in Flight
         /\ [run EXCEPT !.stage = "filling", !.seen = S, !.bucket = B, !.reserve = R]
              \in Flight
BY DEF Flight, Stages

(* A search or a bucket more.                                                 *)
LEMMA CountersAreTyped ==
  ASSUME NEW run \in Flight
  PROVE  /\ run.searches \in Nat /\ run.attempts \in Nat
         /\ [run EXCEPT !.stage = "searching", !.searches = run.searches + 1] \in Flight
         /\ [run EXCEPT !.stage = "hydrating", !.attempts = run.attempts + 1] \in Flight
<1>1. run.searches \in Nat /\ run.attempts \in Nat
  BY DEF Flight
<1>2. \A n \in Nat : [run EXCEPT !.stage = "searching", !.searches = n] \in Flight
  BY DEF Flight, Stages
<1>3. \A n \in Nat : [run EXCEPT !.stage = "hydrating", !.attempts = n] \in Flight
  BY DEF Flight, Stages
<1>4. run.searches + 1 \in Nat /\ run.attempts + 1 \in Nat
  BY <1>1
<1>5. [run EXCEPT !.stage = "searching", !.searches = run.searches + 1] \in Flight
  BY <1>2, <1>4
<1>6. [run EXCEPT !.stage = "hydrating", !.attempts = run.attempts + 1] \in Flight
  BY <1>3, <1>4
<1> QED BY <1>1, <1>5, <1>6

(* Replacing one run by a good one keeps the runs well typed.                 *)
LEMMA OneRunChanges ==
  ASSUME FlightTypeOK, NEW f \in Flights, NEW run, GoodRun(run),
         flight' = [flight EXCEPT ![f] = run]
  PROVE  /\ flight' \in [Flights -> Flight]
         /\ \A g \in Flights : GoodRun(flight'[g])
BY DEF FlightTypeOK, GoodRun

\* Settling keeps the rows well typed.
LEMMA SortiesTyped ==
  ASSUME FlightTypeOK, NEW f \in Flights, NEW n
  PROVE  Settled(f, n) \subseteq Sortie
BY DEF FlightTypeOK, Settled, Sortie

\* What triage leaves of a run is well typed.
LEMMA TriageTyped ==
  ASSUME FlightTypeOK, NEW f \in Flights, NEW v \in Verdict(f)
  PROVE  /\ v.bait \subseteq Conversations
         /\ CoolAfter(f, v) \subseteq Cards /\ ReportedAfter(f, v) \in Nat
<1>1. /\ flight[f].bucket \subseteq Cards /\ flight[f].cool \subseteq Cards
      /\ flight[f].reported \in Nat
  BY DEF FlightTypeOK, Flight
<1>2. v.bait \subseteq {ConversationOf[c] : c \in flight[f].bucket}
  BY DEF Verdict
<1>3. v.newly \subseteq flight[f].bucket
  BY DEF Verdict
<1>4. CoolAfter(f, v) \subseteq Cards
  BY <1>1, <1>3 DEF CoolAfter
<1>5. Cardinality(CoolAfter(f, v)) \in Nat
  BY <1>4, CardSetsAreFinite
<1>6. ReportedAfter(f, v) \in Nat
  BY <1>1, <1>5 DEF ReportedAfter, Larger
<1>7. v.bait \subseteq Conversations
  BY <1>1, <1>2, FlightAssumption
<1> QED BY <1>4, <1>6, <1>7

\* Every step of the collect loop keeps the types.
LEMMA CollectKeepsType ==
  ASSUME FlightTypeOK, NEW f \in Flights, CollectSteps(f)
  PROVE  /\ \E run : GoodRun(run) /\ flight' = [flight EXCEPT ![f] = run]
         /\ spent' \in Nat /\ tank' \subseteq Cards
         /\ UNCHANGED <<gate, sorties, ledgers, day, crashes>>
<1> USE FlightAssumption DEF FlightTypeOK
<1> DEFINE run == flight[f]
<1>0. /\ GoodRun(run) /\ run \in Flight
      /\ \A stage \in Stages : GoodRun(Ends(f, stage))
  BY EndsIsGood DEF GoodRun
<1>1. \A stage \in Stages : GoodRun([run EXCEPT !.stage = stage])
  BY <1>0, StageChangeIsGood
<1>2. CASE LeaveLoop(f)
  BY <1>2, <1>0 DEF LeaveLoop, Stages
<1>3. CASE DrainReserve(f)
  <2>1. PICK fit \in Admitted(run.bucket, run.reserve) :
          flight' = [flight EXCEPT ![f].bucket = @ \cup fit, ![f].reserve = @ \ fit]
    BY <1>3 DEF DrainReserve
  <2>2. fit \subseteq Cards /\ Cardinality(run.bucket \cup fit) <= BucketSize
    BY <2>1, <1>0 DEF Admitted, Flight
  <2> DEFINE new == [run EXCEPT !.bucket = @ \cup fit, !.reserve = @ \ fit]
  <2>3. GoodRun(new)
    <3>1. new \in Flight
      <4>1. run.bucket \cup fit \in SUBSET Cards /\ run.reserve \ fit \in SUBSET Cards
        BY <1>0, <2>2 DEF Flight
      <4> QED BY <1>0, <4>1, CardsChangeIsTyped
    <3>2. /\ new.bucket = run.bucket \cup fit
          /\ new.searches = run.searches /\ new.attempts = run.attempts
      BY <1>0 DEF Flight
    <3> QED BY <1>0, <2>2, <3>1, <3>2 DEF GoodRun
  <2> QED BY <1>3, <2>1, <2>3 DEF DrainReserve
<1>4. CASE Search(f)
  <2>1. run.searches < MaxSearches
    BY <1>4 DEF Search
  <2> DEFINE new == [run EXCEPT !.stage = "searching", !.searches = @ + 1]
  <2>2. GoodRun(new)
    <3>1. new \in Flight
      BY <1>0, CountersAreTyped
    <3>2. /\ new.bucket = run.bucket
          /\ new.searches = run.searches + 1 /\ new.attempts = run.attempts
      BY <1>0 DEF Flight
    <3>3. run.searches \in Nat
      BY <1>0 DEF Flight
    <3> QED BY <1>0, <2>1, <3>1, <3>2, <3>3 DEF GoodRun
  <2>3. /\ UNCHANGED <<gate, sorties, spent, tank, ledgers, day, crashes>>
        /\ \/ flight' = [flight EXCEPT ![f] = new]
           \/ flight' = [flight EXCEPT ![f] = Ends(f, "landing")]
    BY <1>4 DEF Search
  <2> HIDE DEF new
  <2>4. \E r : GoodRun(r) /\ flight' = [flight EXCEPT ![f] = r]
    BY <2>2, <2>3, <1>0 DEF Stages
  <2> QED BY <2>3, <2>4
<1>5. CASE SearchAnswers(f)
  <2>1. spent' \in Nat
    <3>1. PICK n \in 0..MaxReads : spent' = spent + n
      BY <1>5 DEF SearchAnswers
    <3> QED BY <3>1
  <2>2. CASE flight' = [flight EXCEPT ![f] = Ends(f, "landing")]
    BY <1>5, <2>1, <2>2, <1>0 DEF SearchAnswers, Stages
  <2>3. ASSUME NEW found \in SUBSET Cards, NEW fit \in Admitted(run.bucket, found),
               flight' = [flight EXCEPT ![f].stage = "filling", ![f].seen = @ \cup found,
                            ![f].bucket = @ \cup fit, ![f].reserve = @ \cup (found \ fit)]
        PROVE  \E r : GoodRun(r) /\ flight' = [flight EXCEPT ![f] = r]
    <3>1. fit \subseteq Cards /\ Cardinality(run.bucket \cup fit) <= BucketSize
      BY <2>3 DEF Admitted
    <3> DEFINE new == [run EXCEPT !.stage = "filling", !.seen = @ \cup found,
                                  !.bucket = @ \cup fit, !.reserve = @ \cup (found \ fit)]
    <3>2. GoodRun(new)
      <4>1. new \in Flight
        <5>1. /\ run.seen \cup found \in SUBSET Cards
              /\ run.bucket \cup fit \in SUBSET Cards
              /\ run.reserve \cup (found \ fit) \in SUBSET Cards
          BY <1>0, <3>1 DEF Flight
        <5> QED BY <1>0, <5>1, CardsChangeIsTyped
      <4>2. /\ new.bucket = run.bucket \cup fit
            /\ new.searches = run.searches /\ new.attempts = run.attempts
        BY <1>0 DEF Flight
      <4> QED BY <1>0, <3>1, <4>1, <4>2 DEF GoodRun
    <3> QED BY <2>3, <3>2
  <2> QED BY <1>5, <2>1, <2>2, <2>3 DEF SearchAnswers
<1>6. CASE SearchFails(f)
  BY <1>6, <1>0, <1>1 DEF SearchFails, Stages
<1>7. CASE Score(f)
  <2>1. run.attempts < MaxAttempts
    BY <1>7, <1>0 DEF Score, LoopEnds, Flight
  <2> DEFINE new == [run EXCEPT !.stage = "hydrating", !.attempts = @ + 1]
  <2>2. GoodRun(new)
    <3>1. new \in Flight
      BY <1>0, CountersAreTyped
    <3>2. /\ new.bucket = run.bucket
          /\ new.searches = run.searches /\ new.attempts = run.attempts + 1
      BY <1>0 DEF Flight
    <3>3. run.attempts \in Nat
      BY <1>0 DEF Flight
    <3> QED BY <1>0, <2>1, <3>1, <3>2, <3>3 DEF GoodRun
  <2>3. /\ UNCHANGED <<gate, sorties, spent, tank, ledgers, day, crashes>>
        /\ \/ flight' = [flight EXCEPT ![f] = new]
           \/ flight' = [flight EXCEPT ![f] = Ends(f, "landing")]
    BY <1>7 DEF Score
  <2> HIDE DEF new
  <2>4. \E r : GoodRun(r) /\ flight' = [flight EXCEPT ![f] = r]
    BY <2>2, <2>3, <1>0 DEF Stages
  <2> QED BY <2>3, <2>4
<1>8. CASE Hydrated(f)
  <2>1. spent' \in Nat
    <3>1. PICK n \in 0..MaxReads : spent' = spent + n
      BY <1>8 DEF Hydrated
    <3> QED BY <3>1
  <2> DEFINE new == [run EXCEPT !.stage = "filling", !.bucket = {}]
  <2>2. GoodRun(new)
    <3>1. new \in Flight
      BY <1>0 DEF Flight, Stages
    <3>2. /\ new.bucket = {}
          /\ new.searches = run.searches /\ new.attempts = run.attempts
      BY <1>0 DEF Flight
    <3> QED BY <1>0, <3>1, <3>2, EmptyBucketFits DEF GoodRun
  <2> QED BY <1>8, <1>0, <1>1, <2>1, <2>2 DEF Hydrated, Stages
<1>9. CASE Triaged(f)
  <2>1. PICK v \in Verdict(f) :
          /\ flight' = [flight EXCEPT ![f] =
               IF Cardinality(CoolAfter(f, v)) >= TargetCool \/ ~Full(run.bucket)
               THEN [Ends(f, "landing") EXCEPT !.cool = CoolAfter(f, v),
                                               !.reported = ReportedAfter(f, v)]
               ELSE [run EXCEPT !.stage = "filling", !.bucket = {}, !.bait = @ \cup v.bait,
                                !.cool = CoolAfter(f, v), !.reported = ReportedAfter(f, v)]]
          /\ tank' = IF v.newly = {} THEN tank ELSE SavedTank(CoolAfter(f, v))
    BY <1>9 DEF Triaged
  <2> DEFINE landing == [Ends(f, "landing") EXCEPT !.cool = CoolAfter(f, v),
                                                   !.reported = ReportedAfter(f, v)]
             filling == [run EXCEPT !.stage = "filling", !.bucket = {}, !.bait = @ \cup v.bait,
                                    !.cool = CoolAfter(f, v), !.reported = ReportedAfter(f, v)]
  <2>2. /\ v.bait \subseteq Conversations
        /\ CoolAfter(f, v) \subseteq Cards /\ ReportedAfter(f, v) \in Nat
    BY TriageTyped
  <2>4. GoodRun(landing)
    <3>1. landing \in Flight
      BY <1>0, <2>2 DEF Flight, Stages, Ends, Waiting
    <3>2. landing.bucket = {} /\ landing.searches = 0 /\ landing.attempts = 0
      BY DEF Ends, Waiting
    <3> HIDE DEF landing
    <3>3. GoodRun(landing)
      BY <3>1, <3>2, EmptyBucketFits DEF GoodRun
    <3> QED BY <3>3
  <2>5. GoodRun(filling)
    <3>1. filling \in Flight
      <4>1. run.bait \cup v.bait \in SUBSET Conversations /\ {} \in SUBSET Cards
        BY <1>0, <2>2 DEF Flight
      <4>2. CoolAfter(f, v) \in SUBSET Cards /\ ReportedAfter(f, v) \in Nat
        BY <2>2
      <4> QED BY <1>0, <4>1, <4>2 DEF Flight, Stages
    <3>2. /\ filling.bucket = {}
          /\ filling.searches = run.searches /\ filling.attempts = run.attempts
      BY <1>0 DEF Flight
    <3> QED BY <1>0, <3>1, <3>2, EmptyBucketFits DEF GoodRun
  <2>6. tank' \subseteq Cards
    BY <2>1, <2>2 DEF SavedTank
  <2>7. \/ flight' = [flight EXCEPT ![f] = landing]
        \/ flight' = [flight EXCEPT ![f] = filling]
    BY <2>1
  <2> HIDE DEF landing, filling
  <2>8. \E r : GoodRun(r) /\ flight' = [flight EXCEPT ![f] = r]
    BY <2>4, <2>5, <2>7
  <2> QED BY <1>9, <2>6, <2>8 DEF Triaged
<1>10. CASE CollectFails(f)
  BY <1>10, <1>0 DEF CollectFails, Stages
<1> QED
  BY <1>2, <1>3, <1>4, <1>5, <1>6, <1>7, <1>8, <1>9, <1>10 DEF CollectSteps

(* A run that has begun flying or was dropped is still well typed.            *)
LEMMA BeginAndAbortAreGood ==
  ASSUME NEW run, GoodRun(run), NEW b \in BOOLEAN
  PROVE  /\ GoodRun([run EXCEPT !.stage = "index", !.background = b])
         /\ GoodRun([run EXCEPT !.aborted = TRUE])
         /\ GoodRun([run EXCEPT !.stage = "filling", !.blocked = consumed])
              \/ ~(consumed \subseteq Conversations)
<1> DEFINE begun == [run EXCEPT !.stage = "index", !.background = b]
           dropped == [run EXCEPT !.aborted = TRUE]
           planned == [run EXCEPT !.stage = "filling", !.blocked = consumed]
<1>1. begun \in Flight /\ dropped \in Flight
  BY DEF GoodRun, Flight, Stages
<1>2. consumed \subseteq Conversations => planned \in Flight
  BY DEF GoodRun, Flight, Stages
<1>3. \A r \in {begun, dropped, planned} :
        r.bucket = run.bucket /\ r.searches = run.searches /\ r.attempts = run.attempts
  BY DEF GoodRun, Flight
<1> HIDE DEF begun, dropped, planned
<1>4. GoodRun(begun) /\ GoodRun(dropped)
  BY <1>1, <1>3 DEF GoodRun
<1>5. consumed \subseteq Conversations => GoodRun(planned)
  BY <1>2, <1>3 DEF GoodRun
<1> QED BY <1>4, <1>5 DEF begun, dropped, planned

(* A step of a run, or one that starts or drops it, changes that run only.    *)
LEMMA RunKeepsType ==
  ASSUME FlightTypeOK, NEW f \in Flights,
         TakeOff(f) \/ StartEmptyTank(f) \/ Abort(f) \/ FlightSteps(f)
  PROVE  /\ \E run : GoodRun(run) /\ flight' = [flight EXCEPT ![f] = run]
         /\ gate' \in {"free", "busy", "cooling"} /\ sorties' \subseteq Sortie
         /\ spent' \in Nat /\ tank' \subseteq Cards
         /\ UNCHANGED <<ledgers, day, crashes>>
<1> DEFINE run == flight[f]
<1>0. /\ GoodRun(run) /\ run \in Flight
      /\ \A stage \in Stages : GoodRun(Ends(f, stage))
      /\ \A stage \in Stages : GoodRun([run EXCEPT !.stage = stage])
      /\ consumed \subseteq Conversations
  BY EndsIsGood, StageChangeIsGood DEF GoodRun, FlightTypeOK
<1>t. /\ gate \in {"free", "busy", "cooling"} /\ sorties \subseteq Sortie
      /\ spent \in Nat /\ tank \subseteq Cards /\ flight[f].cool \subseteq Cards
  BY DEF FlightTypeOK, Flight
<1>1. CASE TakeOff(f) \/ StartEmptyTank(f)
  <2>1. PICK b \in BOOLEAN : TryBegin(f, b)
    BY <1>1 DEF TakeOff, StartEmptyTank
  <2>2. GoodRun([run EXCEPT !.stage = "index", !.background = b])
    BY <1>0, BeginAndAbortAreGood
  <2> QED BY <2>1, <2>2, <1>t DEF TryBegin
<1>2. CASE Abort(f)
  <2>1. GoodRun([run EXCEPT !.aborted = TRUE])
    BY <1>0, BeginAndAbortAreGood
  <2> QED BY <2>1, <1>2, <1>t DEF Abort
<1>3. CASE RecordSortie(f)
  <2>1. [flight |-> f, day |-> day, delivered |-> FALSE] \in Sortie
    BY DEF FlightTypeOK, Sortie
  <2>2. sorties' \subseteq Sortie
    BY <1>3, <1>t, <2>1 DEF RecordSortie, SortiesOf
  <2> QED BY <2>2, <1>3, <1>0, <1>t DEF RecordSortie, Stages
<1>4. CASE IndexFails(f)
  BY <1>4, <1>0, <1>t DEF IndexFails, Stages
<1>5. CASE Planned(f)
  <2>1. GoodRun([run EXCEPT !.stage = "filling", !.blocked = consumed])
    BY <1>0, BeginAndAbortAreGood
  <2> QED BY <2>1, <1>5, <1>0, <1>t DEF Planned, Stages
<1>6. CASE CollectSteps(f)
  BY <1>6, CollectKeepsType, <1>t
<1>7. CASE Land(f)
  <2>1. tank' \subseteq Cards
    BY <1>7, <1>t DEF Land, SavedTank
  <2>2. sorties' \subseteq Sortie
    BY <1>7, SortiesTyped DEF Land
  <2> QED BY <2>1, <2>2, <1>7, <1>0, <1>t DEF Land, Stages
<1>8. CASE Fail(f)
  <2>1. sorties' \subseteq Sortie
    BY <1>8, SortiesTyped DEF Fail
  <2> QED BY <2>1, <1>8, <1>0, <1>t DEF Fail, Stages
<1> QED
  BY <1>1, <1>2, <1>3, <1>4, <1>5, <1>6, <1>7, <1>8 DEF FlightSteps

\* The first state is well typed.
LEMMA TypeInit == FlightInit => FlightTypeOK
<1> SUFFICES ASSUME FlightInit PROVE FlightTypeOK
  OBVIOUS
<1>1. GoodRun(Waiting)
  BY WaitingIsGood DEF Stages
<1>2. /\ flight \in [Flights -> Flight]
      /\ \A f \in Flights : GoodRun(flight[f])
  BY <1>1 DEF FlightInit, GoodRun
<1>3. day \in 1..MaxDays /\ crashes \in 0..MaxCrashes
  BY FlightAssumption DEF FlightInit
<1> QED
  BY <1>2, <1>3 DEF FlightInit, FlightTypeOK, GoodRun

\* Every step keeps the types.
LEMMA TypeStep == FlightTypeOK /\ [FlightNext]_flightVars => FlightTypeOK'
<1> SUFFICES ASSUME FlightTypeOK, [FlightNext]_flightVars PROVE FlightTypeOK'
  OBVIOUS
<1> USE FlightAssumption
<1>1. ASSUME NEW f \in Flights,
             TakeOff(f) \/ StartEmptyTank(f) \/ Abort(f) \/ FlightSteps(f)
      PROVE  FlightTypeOK'
  <2>1. PICK run : GoodRun(run) /\ flight' = [flight EXCEPT ![f] = run]
    BY <1>1, RunKeepsType
  <2>2. flight' \in [Flights -> Flight] /\ \A g \in Flights : GoodRun(flight'[g])
    BY <2>1, OneRunChanges
  <2> QED BY <1>1, <2>2, RunKeepsType DEF FlightTypeOK, GoodRun, ledgers
<1>2. CASE Cooled
  BY <1>2 DEF Cooled, FlightTypeOK, ledgers
<1>3. ASSUME NEW v \in Conversations, Consume(v) \/ PruneConsumed(v)
      PROVE  FlightTypeOK'
  BY <1>3 DEF Consume, PruneConsumed, FlightTypeOK
<1>4. ASSUME NEW c \in Cards, Expire(c)
      PROVE  FlightTypeOK'
  BY <1>4 DEF Expire, FlightTypeOK
<1>5. CASE OtherUserTakesOff
  BY <1>5 DEF OtherUserTakesOff, SortiesOf, FlightTypeOK, ledgers
<1>6. CASE NextDay
  BY <1>6 DEF NextDay, FlightTypeOK, ledgers
<1>7. CASE Crash
  <2>1. GoodRun([Waiting EXCEPT !.stage = "lost"])
    BY WaitingIsGood DEF Stages
  <2>2. \A f \in Flights : GoodRun(flight[f])
    BY DEF FlightTypeOK, GoodRun
  <2>3. /\ flight' \in [Flights -> Flight]
        /\ \A f \in Flights : GoodRun(flight'[f])
    BY <1>7, <2>1, <2>2 DEF Crash, GoodRun
  <2>4. crashes' \in 0..MaxCrashes
    BY <1>7 DEF Crash, FlightTypeOK
  <2> QED BY <1>7, <2>3, <2>4 DEF Crash, FlightTypeOK, GoodRun
<1>8. CASE UNCHANGED flightVars
  BY <1>8 DEF flightVars, FlightTypeOK, ledgers
<1> QED
  BY <1>1, <1>2, <1>3, <1>4, <1>5, <1>6, <1>7, <1>8 DEF FlightNext, DeskSteps

(* Every reachable state is well typed: no run searches or scores more often  *)
(* than its loop allows, and no bucket holds more than its size.              *)
THEOREM FlightTypeCorrect == FlightSafety => []FlightTypeOK
BY TypeInit, TypeStep, PTL DEF FlightSafety

-----------------------------------------------------------------------------
(* The gate.                                                                  *)

Collecting == {"filling", "searching", "hydrating", "triaging"}

(* The stage of a run that takes a step, before and after it, and the gate.   *)
LEMMA CollectMoves ==
  ASSUME FlightTypeOK, NEW f \in Flights, CollectSteps(f)
  PROVE  /\ flight[f].stage \in Collecting
         /\ flight'[f].stage \in Collecting \cup {"landing", "failing"}
         /\ \A g \in Flights \ {f} : flight'[g] = flight[g]
         /\ gate' = gate
<1> USE DEF FlightTypeOK, Flight, Collecting
<1>0. /\ flight \in [Flights -> Flight]
      /\ \A stage \in Stages : Ends(f, stage).stage = stage
  BY DEF Ends, Waiting
<1>1. CASE LeaveLoop(f)
  BY <1>1, <1>0 DEF LeaveLoop, Stages
<1>2. CASE DrainReserve(f)
  BY <1>2, <1>0 DEF DrainReserve
<1>3. CASE Search(f)
  BY <1>3, <1>0 DEF Search, Stages
<1>4. CASE SearchAnswers(f)
  BY <1>4, <1>0 DEF SearchAnswers, Stages
<1>5. CASE SearchFails(f)
  BY <1>5, <1>0 DEF SearchFails, Stages
<1>6. CASE Score(f)
  BY <1>6, <1>0 DEF Score, Stages
<1>7. CASE Hydrated(f)
  BY <1>7, <1>0 DEF Hydrated, Stages
<1>8. CASE Triaged(f)
  BY <1>8, <1>0 DEF Triaged, Ends, Waiting
<1>9. CASE CollectFails(f)
  BY <1>9, <1>0 DEF CollectFails, Stages
<1> QED
  BY <1>1, <1>2, <1>3, <1>4, <1>5, <1>6, <1>7, <1>8, <1>9 DEF CollectSteps

\* A run that ends leaves the gate cooling and the others as they were.
LEMMA EndMoves ==
  ASSUME FlightTypeOK, NEW f \in Flights, IndexFails(f) \/ Land(f) \/ Fail(f)
  PROVE  /\ flight[f].stage \in {"index", "landing", "failing"}
         /\ flight'[f].stage = "over" /\ gate' = "cooling"
         /\ \A g \in Flights \ {f} : flight'[g] = flight[g]
BY DEF FlightTypeOK, IndexFails, Land, Fail, Ends, Waiting

\* A start takes a free gate.
LEMMA BeginMoves ==
  ASSUME FlightTypeOK, NEW f \in Flights, TakeOff(f) \/ StartEmptyTank(f)
  PROVE  /\ flight[f].stage = "waiting" /\ gate = "free" /\ QuotaLeft
         /\ flight'[f] = [flight[f] EXCEPT !.stage = "index",
                                           !.background = flight'[f].background]
         /\ flight'[f].stage = "index" /\ gate' = "busy"
         /\ \A g \in Flights \ {f} : flight'[g] = flight[g]
         /\ UNCHANGED <<sorties, spent, tank, ledgers, day, crashes>>
<1>1. PICK b \in BOOLEAN : TryBegin(f, b)
  BY DEF TakeOff, StartEmptyTank
<1>2. flight[f] \in Flight /\ flight \in [Flights -> Flight]
  BY DEF FlightTypeOK
<1>3. flight'[f] = [flight[f] EXCEPT !.stage = "index", !.background = b]
  BY <1>1, <1>2 DEF TryBegin
<1>4. flight'[f].stage = "index" /\ flight'[f].background = b
  BY <1>2, <1>3 DEF Flight
<1> QED BY <1>1, <1>2, <1>3, <1>4 DEF TryBegin

\* Planning keeps a run in progress.
LEMMA PlanningMoves ==
  ASSUME FlightTypeOK, NEW f \in Flights, Abort(f) \/ RecordSortie(f) \/ Planned(f)
  PROVE  /\ InProgress(f) /\ InProgress(f)'
         /\ Abort(f) => flight'[f].stage = flight[f].stage
         /\ ~Abort(f) => flight'[f].stage \in {"planning", "filling", "failing"}
         /\ \A g \in Flights \ {f} : flight'[g] = flight[g]
         /\ gate' = gate
<1>0. /\ flight \in [Flights -> Flight] /\ flight[f] \in Flight
      /\ Ends(f, "failing").stage = "failing"
  BY DEF FlightTypeOK, Ends, Waiting
<1>1. CASE Abort(f)
  <2>1. flight'[f] = [flight[f] EXCEPT !.aborted = TRUE]
    BY <1>1, <1>0 DEF Abort
  <2>2. flight'[f].stage = flight[f].stage
    BY <2>1, <1>0 DEF Flight
  <2> QED BY <1>0, <1>1, <2>2 DEF Abort, InProgress
<1>2. CASE RecordSortie(f) /\ ~Abort(f)
  <2>1. flight'[f] = [flight[f] EXCEPT !.stage = "planning"]
    BY <1>2, <1>0 DEF RecordSortie
  <2>2. flight'[f].stage = "planning"
    BY <2>1, <1>0 DEF Flight
  <2> QED BY <1>0, <1>2, <2>2 DEF RecordSortie, InProgress
<1>3. CASE Planned(f) /\ ~Abort(f)
  <2>1. \/ flight'[f] = [flight[f] EXCEPT !.stage = "filling", !.blocked = consumed]
        \/ flight'[f] = Ends(f, "failing")
    BY <1>3, <1>0 DEF Planned
  <2>2. flight'[f].stage \in {"filling", "failing"}
    BY <2>1, <1>0 DEF Flight
  <2> QED BY <1>0, <1>3, <2>2 DEF Planned, InProgress
<1> QED BY <1>1, <1>2, <1>3

\* Every step keeps the gate with the run in progress.
LEMMA GateStep ==
  FlightTypeOK /\ GateHoldsFlight /\ [FlightNext]_flightVars => GateHoldsFlight'
<1> SUFFICES ASSUME FlightTypeOK, GateHoldsFlight, [FlightNext]_flightVars
             PROVE  GateHoldsFlight'
  OBVIOUS
<1>1. ASSUME NEW f \in Flights, TakeOff(f) \/ StartEmptyTank(f)
      PROVE  GateHoldsFlight'
  <2>1. /\ gate = "free" /\ gate' = "busy" /\ flight'[f].stage = "index"
        /\ \A g \in Flights \ {f} : flight'[g] = flight[g]
    BY <1>1, BeginMoves
  <2>2. \A g \in Flights : ~InProgress(g)
    BY <2>1 DEF GateHoldsFlight
  <2>3. \A g \in Flights : InProgress(g)' <=> g = f
    BY <2>1, <2>2 DEF InProgress
  <2> QED BY <2>1, <2>3 DEF GateHoldsFlight
<1>2. ASSUME NEW f \in Flights, Abort(f) \/ RecordSortie(f) \/ Planned(f)
      PROVE  GateHoldsFlight'
  <2>1. /\ InProgress(f) /\ InProgress(f)' /\ gate' = gate
        /\ \A g \in Flights \ {f} : flight'[g] = flight[g]
    BY <1>2, PlanningMoves
  <2>2. \A g \in Flights : InProgress(g)' <=> InProgress(g)
    BY <2>1 DEF InProgress
  <2> QED BY <2>1, <2>2 DEF GateHoldsFlight
<1>3. ASSUME NEW f \in Flights, CollectSteps(f)
      PROVE  GateHoldsFlight'
  BY <1>3, CollectMoves DEF GateHoldsFlight, InProgress, Collecting
<1>4. ASSUME NEW f \in Flights, IndexFails(f) \/ Land(f) \/ Fail(f)
      PROVE  GateHoldsFlight'
  BY <1>4, EndMoves DEF GateHoldsFlight, InProgress
<1>5. CASE Cooled
  BY <1>5 DEF Cooled, GateHoldsFlight, InProgress
<1>6. CASE DeskSteps \/ OtherUserTakesOff \/ NextDay
  <2>1. UNCHANGED <<gate, flight>>
    BY <1>6 DEF DeskSteps, Consume, PruneConsumed, Expire, OtherUserTakesOff, NextDay
  <2> QED BY <2>1 DEF GateHoldsFlight, InProgress
<1>7. CASE Crash
  <2>1. gate' = "free" /\ \A f \in Flights : ~InProgress(f)'
    BY <1>7 DEF Crash, InProgress, Waiting
  <2> QED BY <2>1 DEF GateHoldsFlight
<1>8. CASE UNCHANGED flightVars
  BY <1>8 DEF flightVars, GateHoldsFlight, InProgress
<1> QED
  BY <1>1, <1>2, <1>3, <1>4, <1>5, <1>6, <1>7, <1>8 DEF FlightNext, FlightSteps

(* The gate is held exactly while one run is in progress.                     *)
THEOREM GateHeldByOneFlight == FlightSafety => []GateHoldsFlight
<1>1. FlightInit => GateHoldsFlight
  BY DEF FlightInit, GateHoldsFlight, InProgress, Waiting
<1> QED BY <1>1, GateStep, FlightTypeCorrect, PTL DEF FlightSafety

-----------------------------------------------------------------------------
(* The takeoffs.                                                              *)

(* A run records one row, and none before the gate let it on and its index    *)
(* was ready.                                                                 *)
TakeoffRows ==
  /\ IsFiniteSet(sorties)
  /\ \A s \in sorties : s.day <= day /\ flight[s.flight].stage \notin {"waiting", "index"}
  /\ \A s, t \in sorties : s.flight = t.flight => s = t

(* The room the limit check found is still there when the takeoff is recorded.*)
RoomForTakeoff ==
  \A f \in Flights :
    flight[f].stage = "index" => Cardinality(SortiesOf(day)) < DailyLimit

TakeoffInv == TakeoffRows /\ TakeoffsInLimit /\ RoomForTakeoff /\ TakeoffsSettled

\* Replacing the row of a run does not add a row.
LEMMA SwapKeepsSize ==
  ASSUME NEW S, IsFiniteSet(S), NEW r \in S, NEW x
  PROVE  /\ IsFiniteSet(S \ {r}) /\ Cardinality(S \ {r}) <= Cardinality(S)
         /\ IsFiniteSet((S \ {r}) \cup {x})
         /\ Cardinality((S \ {r}) \cup {x}) <= Cardinality(S)
<1>1. /\ IsFiniteSet(S \ {r}) /\ Cardinality(S \ {r}) = Cardinality(S) - 1
      /\ Cardinality(S) \in Nat
  BY FS_RemoveElement, FS_CardinalityType
<1>2. CASE x \in S \ {r}
  <2>1. (S \ {r}) \cup {x} = S \ {r}
    BY <1>2
  <2> QED BY <1>1, <2>1
<1>3. CASE x \notin S \ {r}
  <2>1. /\ IsFiniteSet((S \ {r}) \cup {x})
        /\ Cardinality((S \ {r}) \cup {x}) = Cardinality(S \ {r}) + 1
    BY <1>1, <1>3, FS_AddElement
  <2> QED BY <1>1, <2>1
<1> QED BY <1>2, <1>3

\* A finite set stays finite, and grows by one at most, with one more element.
LEMMA AddKeepsFinite ==
  ASSUME NEW S, IsFiniteSet(S), NEW x
  PROVE  /\ IsFiniteSet(S \cup {x}) /\ Cardinality(S \cup {x}) \in Nat
         /\ Cardinality(S \cup {x}) <= Cardinality(S) + 1
<1>1. Cardinality(S) \in Nat
  BY FS_CardinalityType
<1>2. CASE x \in S
  <2> DEFINE T == S \cup {x}
  <2>1. T = S
    BY <1>2
  <2> HIDE DEF T
  <2>2. IsFiniteSet(T) /\ Cardinality(T) \in Nat /\ Cardinality(T) <= Cardinality(S) + 1
    BY <1>1, <2>1
  <2> QED BY <2>2 DEF T
<1>3. CASE x \notin S
  <2>1. IsFiniteSet(S \cup {x}) /\ Cardinality(S \cup {x}) = Cardinality(S) + 1
    BY <1>3, FS_AddElement
  <2> QED BY <1>1, <2>1
<1> QED BY <1>2, <1>3

(* What settling leaves: no more rows on any day, those of other runs as they *)
(* were, those of this run delivered.                                         *)
LEMMA SettledRows ==
  ASSUME FlightTypeOK, TakeoffRows, NEW f \in Flights, NEW n
  PROVE  /\ IsFiniteSet(Settled(f, n))
         /\ Cardinality({s \in Settled(f, n) : s.day = day}) <= Cardinality(SortiesOf(day))
         /\ \A t \in Settled(f, n) :
              /\ \E s \in sorties : s.flight = t.flight /\ s.day = t.day
              /\ IF t.flight = f THEN t.delivered ELSE t \in sorties
         /\ \A s, t \in Settled(f, n) : s.flight = t.flight => s = t
<1>0. /\ sorties \subseteq Sortie /\ IsFiniteSet(SortiesOf(day))
      /\ SortiesOf(day) \subseteq sorties
  BY FS_Subset DEF FlightTypeOK, TakeoffRows, SortiesOf
<1>c. Cardinality(SortiesOf(day)) \in Nat
  BY <1>0, FS_CardinalityType
<1>1. CASE ~ \E s \in sorties : s.flight = f
  <2>1. Settled(f, n) = sorties
    BY <1>1 DEF Settled
  <2>2. {s \in Settled(f, n) : s.day = day} = SortiesOf(day)
    BY <2>1 DEF SortiesOf
  <2>3. \A t \in Settled(f, n) : t \in sorties /\ t.flight # f
    BY <2>1, <1>1
  <2>4. /\ IsFiniteSet(Settled(f, n))
        /\ \A s, t \in Settled(f, n) : s.flight = t.flight => s = t
    BY <2>1 DEF TakeoffRows
  <2>5. Cardinality({s \in Settled(f, n) : s.day = day}) <= Cardinality(SortiesOf(day))
    BY <2>2, <1>c
  <2>6. \A t \in Settled(f, n) :
          /\ \E s \in sorties : s.flight = t.flight /\ s.day = t.day
          /\ IF t.flight = f THEN t.delivered ELSE t \in sorties
    BY <2>3
  <2> QED BY <2>4, <2>5, <2>6
<1>2. CASE \E s \in sorties : s.flight = f
  <2>1. PICK r \in sorties : r.flight = f
    BY <1>2
  <2> DEFINE done == [r EXCEPT !.delivered = TRUE]
  <2>2. done.flight = f /\ done.day = r.day /\ done.delivered
    BY <2>1, <1>0 DEF Sortie
  <2>3. /\ {s \in sorties : s.flight = f} = {r}
        /\ {s \in sorties : s.flight # f} = sorties \ {r}
    BY <2>1 DEF TakeoffRows
  <2>4. Settled(f, n) = (sorties \ {r}) \cup (IF n < 1 THEN {} ELSE {done})
    BY <2>3 DEF Settled
  <2> HIDE DEF done
  <2>5. IsFiniteSet(Settled(f, n))
    <3>1. /\ IsFiniteSet(sorties \ {r}) /\ IsFiniteSet((sorties \ {r}) \cup {done})
      BY <2>1, SwapKeepsSize DEF TakeoffRows
    <3>2. Settled(f, n) = sorties \ {r} \/ Settled(f, n) = (sorties \ {r}) \cup {done}
      BY <2>4
    <3> QED BY <3>1, <3>2
  <2>6. Cardinality({s \in Settled(f, n) : s.day = day}) <= Cardinality(SortiesOf(day))
    <3>1. CASE r.day = day
      <4>1. r \in SortiesOf(day)
        BY <2>1, <3>1 DEF SortiesOf
      <4>2. \/ {s \in Settled(f, n) : s.day = day} = (SortiesOf(day) \ {r})
            \/ {s \in Settled(f, n) : s.day = day} = (SortiesOf(day) \ {r}) \cup {done}
        BY <2>2, <2>4, <3>1 DEF SortiesOf
      <4> QED BY <4>1, <4>2, <1>0, SwapKeepsSize
    <3>2. CASE r.day # day
      <4>1. {s \in Settled(f, n) : s.day = day} = SortiesOf(day)
        BY <2>2, <2>4, <3>2 DEF SortiesOf
      <4> QED BY <4>1, <1>c
    <3> QED BY <3>1, <3>2
  <2>7. \A t \in Settled(f, n) : (t \in sorties /\ t.flight # f) \/ t = done
    BY <2>3, <2>4
  <2>8. \A s, t \in Settled(f, n) : s.flight = t.flight => s = t
    BY <2>1, <2>2, <2>4 DEF TakeoffRows
  <2> QED BY <2>1, <2>2, <2>5, <2>6, <2>7, <2>8
<1> QED BY <1>1, <1>2

(* Steps that leave the rows, and the runs that have one, as they are.        *)
LEMMA TakeoffsUntouched ==
  ASSUME FlightTypeOK, TakeoffInv, UNCHANGED <<sorties, day>>,
         \A s \in sorties : /\ flight'[s.flight].stage \notin {"waiting", "index"}
                            /\ s.delivered \/ InProgress(s.flight)'
                               \/ flight'[s.flight].stage = "lost",
         RoomForTakeoff'
  PROVE  TakeoffInv'
BY DEF TakeoffInv, TakeoffRows, TakeoffsInLimit, TakeoffsSettled, SortiesOf, InProgress

\* Every step keeps the takeoff invariant.
LEMMA TakeoffStep ==
  FlightTypeOK /\ GateHoldsFlight /\ TakeoffInv /\ [FlightNext]_flightVars => TakeoffInv'
<1> SUFFICES ASSUME FlightTypeOK, GateHoldsFlight, TakeoffInv, [FlightNext]_flightVars
             PROVE  TakeoffInv'
  OBVIOUS
<1>0. /\ sorties \subseteq Sortie /\ IsFiniteSet(sorties) /\ day \in Nat
      /\ \A s \in sorties : s.flight \in Flights /\ s.day \in Nat /\ s.day <= day
      /\ IsFiniteSet(SortiesOf(day)) /\ Cardinality(SortiesOf(day)) \in Nat
      /\ SortiesOf(day) \subseteq sorties
  BY FS_Subset, FS_CardinalityType, FlightAssumption
     DEF TakeoffInv, TakeoffRows, FlightTypeOK, Sortie, SortiesOf
<1>1. ASSUME NEW f \in Flights, TakeOff(f) \/ StartEmptyTank(f)
      PROVE  TakeoffInv'
  <2>1. /\ flight[f].stage = "waiting" /\ QuotaLeft /\ flight'[f].stage = "index"
        /\ \A g \in Flights \ {f} : flight'[g] = flight[g]
        /\ UNCHANGED <<sorties, day>>
    BY <1>1, BeginMoves
  <2>2. \A s \in sorties : s.flight \in Flights \ {f}
    BY <1>0, <2>1 DEF TakeoffInv, TakeoffRows
  <2>3. RoomForTakeoff'
    BY <2>1 DEF TakeoffInv, RoomForTakeoff, QuotaLeft, SortiesOf
  <2>4. \A s \in sorties : flight'[s.flight] = flight[s.flight]
    BY <2>1, <2>2
  <2> QED
    BY <2>1, <2>3, <2>4, TakeoffsUntouched
       DEF TakeoffInv, TakeoffRows, TakeoffsSettled, InProgress
<1>2. ASSUME NEW f \in Flights, Abort(f) \/ Planned(f) \/ CollectSteps(f)
      PROVE  TakeoffInv'
  <2>1. /\ UNCHANGED <<sorties, day>>
        /\ \A g \in Flights \ {f} : flight'[g] = flight[g]
        /\ InProgress(f)'
        /\ flight'[f].stage = "index" => flight[f].stage = "index"
    <3>1. CASE Abort(f)
      BY <3>1, PlanningMoves DEF Abort
    <3>2. CASE Planned(f) /\ ~Abort(f)
      BY <3>2, PlanningMoves DEF Planned
    <3>3. CASE CollectSteps(f)
      BY <3>3, CollectMoves, CollectKeepsType DEF Collecting, InProgress
    <3> QED BY <1>2, <3>1, <3>2, <3>3
  <2>2. RoomForTakeoff'
    BY <2>1 DEF TakeoffInv, RoomForTakeoff, SortiesOf
  <2>3. \A s \in sorties : flight'[s.flight] = flight[s.flight] \/ s.flight = f
    BY <1>0, <2>1
  <2> QED
    BY <2>1, <2>2, <2>3, TakeoffsUntouched
       DEF TakeoffInv, TakeoffRows, TakeoffsSettled, InProgress
<1>3. ASSUME NEW f \in Flights, RecordSortie(f)
      PROVE  TakeoffInv'
  <2> DEFINE row == [flight |-> f, day |-> day, delivered |-> FALSE]
  <2>1. /\ flight[f].stage = "index" /\ flight'[f].stage = "planning"
        /\ sorties' = SortiesOf(day) \cup {row} /\ day' = day
        /\ \A g \in Flights \ {f} : flight'[g] = flight[g]
    BY <1>3 DEF RecordSortie, FlightTypeOK, Flight
  <2>2. \A s \in sorties : s.flight \in Flights \ {f}
    BY <1>0, <2>1 DEF TakeoffInv, TakeoffRows
  <2>3. /\ IsFiniteSet(SortiesOf(day) \cup {row})
        /\ Cardinality(SortiesOf(day) \cup {row}) <= Cardinality(SortiesOf(day)) + 1
        /\ Cardinality(SortiesOf(day) \cup {row}) \in Nat
    BY <1>0, AddKeepsFinite
  <2>4. SortiesOf(day)' = SortiesOf(day) \cup {row}
    BY <2>1 DEF SortiesOf
  <2>5. Cardinality(SortiesOf(day)) < DailyLimit
    BY <2>1 DEF TakeoffInv, RoomForTakeoff
  <2>6. TakeoffsInLimit'
    BY <1>0, <2>3, <2>4, <2>5, FlightAssumption DEF TakeoffsInLimit
  <2>7. \A g \in Flights : flight'[g].stage # "index"
    BY <2>1 DEF GateHoldsFlight, InProgress
  <2>8. TakeoffRows'
    <3>1. \A s \in sorties' : s = row \/ s \in sorties
      BY <1>0, <2>1
    <3>2. row.flight = f /\ row.day = day
      OBVIOUS
    <3>3. \A s \in sorties' :
            s.day <= day' /\ flight'[s.flight].stage \notin {"waiting", "index"}
      BY <1>0, <2>1, <2>2, <3>1, <3>2 DEF TakeoffInv, TakeoffRows
    <3>4. \A s, t \in sorties' : s.flight = t.flight => s = t
      BY <2>2, <3>1, <3>2 DEF TakeoffInv, TakeoffRows
    <3> QED BY <2>1, <2>3, <3>3, <3>4 DEF TakeoffRows
  <2>9. TakeoffsSettled'
    BY <1>0, <2>1, <2>2 DEF TakeoffInv, TakeoffsSettled, InProgress
  <2> QED BY <2>6, <2>7, <2>8, <2>9 DEF TakeoffInv, RoomForTakeoff
<1>4. ASSUME NEW f \in Flights, IndexFails(f)
      PROVE  TakeoffInv'
  <2>1. /\ flight[f].stage = "index" /\ flight'[f].stage = "over"
        /\ \A g \in Flights \ {f} : flight'[g] = flight[g]
        /\ UNCHANGED <<sorties, day>>
    BY <1>4, EndMoves DEF IndexFails
  <2>2. \A s \in sorties : s.flight \in Flights \ {f}
    BY <1>0, <2>1 DEF TakeoffInv, TakeoffRows
  <2>3. RoomForTakeoff'
    BY <2>1 DEF TakeoffInv, RoomForTakeoff, SortiesOf
  <2>4. \A s \in sorties : flight'[s.flight] = flight[s.flight]
    BY <2>1, <2>2
  <2> QED
    BY <2>1, <2>3, <2>4, TakeoffsUntouched
       DEF TakeoffInv, TakeoffRows, TakeoffsSettled, InProgress
<1>5. ASSUME NEW f \in Flights, Land(f) \/ Fail(f)
      PROVE  TakeoffInv'
  <2>1. PICK n : sorties' = Settled(f, n)
    BY <1>5 DEF Land, Fail
  <2>2. /\ flight[f].stage \in {"landing", "failing"} /\ flight'[f].stage = "over"
        /\ \A g \in Flights \ {f} : flight'[g] = flight[g]
        /\ day' = day
    BY <1>5, EndMoves DEF Land, Fail
  <2>3. \A g \in Flights : flight'[g].stage # "index"
    BY <2>2 DEF GateHoldsFlight, InProgress
  <2>4. /\ IsFiniteSet(sorties')
        /\ Cardinality(SortiesOf(day)') <= Cardinality(SortiesOf(day))
    BY <2>1, <2>2, SettledRows DEF TakeoffInv, SortiesOf
  <2>5. IsFiniteSet(SortiesOf(day)')
    BY <2>4, FS_Subset DEF SortiesOf
  <2>6. TakeoffsInLimit'
    BY <1>0, <2>4, <2>5, FS_CardinalityType, FlightAssumption
       DEF TakeoffInv, TakeoffsInLimit
  <2>7. /\ \A t \in sorties' : \E s \in sorties : s.flight = t.flight /\ s.day = t.day
        /\ \A t \in sorties' : IF t.flight = f THEN t.delivered ELSE t \in sorties
        /\ \A s, t \in sorties' : s.flight = t.flight => s = t
    BY <2>1, SettledRows DEF TakeoffInv
  <2>8. TakeoffRows'
    BY <1>0, <2>2, <2>4, <2>7 DEF TakeoffInv, TakeoffRows
  <2>9. TakeoffsSettled'
    BY <1>0, <2>2, <2>7 DEF TakeoffInv, TakeoffsSettled, InProgress
  <2> QED BY <2>3, <2>6, <2>8, <2>9 DEF TakeoffInv, RoomForTakeoff
<1>6. CASE Cooled \/ DeskSteps
  <2>1. UNCHANGED <<flight, sorties, day>>
    BY <1>6 DEF Cooled, DeskSteps, Consume, PruneConsumed, Expire
  <2> QED
    BY <2>1 DEF TakeoffInv, TakeoffRows, RoomForTakeoff, TakeoffsInLimit, TakeoffsSettled,
                SortiesOf, InProgress
<1>7. CASE OtherUserTakesOff
  <2>1. sorties' = SortiesOf(day) /\ UNCHANGED <<flight, day>>
    BY <1>7 DEF OtherUserTakesOff
  <2>2. SortiesOf(day)' = SortiesOf(day)
    BY <2>1 DEF SortiesOf
  <2> QED
    BY <1>0, <2>1, <2>2
    DEF TakeoffInv, TakeoffRows, RoomForTakeoff, TakeoffsInLimit, TakeoffsSettled, InProgress
<1>8. CASE NextDay
  <2>1. day' = day + 1 /\ UNCHANGED <<flight, sorties>>
    BY <1>8 DEF NextDay
  <2>2. SortiesOf(day)' = {}
    BY <1>0, <2>1 DEF SortiesOf
  <2>3. Cardinality(SortiesOf(day)') = 0
    BY <2>2, FS_EmptySet
  <2>4. TakeoffRows' /\ TakeoffsSettled'
    BY <1>0, <2>1 DEF TakeoffInv, TakeoffRows, TakeoffsSettled, InProgress
  <2> QED
    BY <2>3, <2>4, FlightAssumption DEF TakeoffInv, TakeoffsInLimit, RoomForTakeoff
<1>9. CASE Crash
  <2>1. /\ UNCHANGED <<sorties, day>>
        /\ \A g \in Flights : \/ InProgress(g) /\ flight'[g].stage = "lost"
                              \/ ~InProgress(g) /\ flight'[g] = flight[g]
    BY <1>9 DEF Crash, Waiting
  <2>2. RoomForTakeoff'
    BY <2>1 DEF RoomForTakeoff, InProgress
  <2> QED
    BY <1>0, <2>1, <2>2, TakeoffsUntouched
       DEF TakeoffInv, TakeoffRows, TakeoffsSettled, InProgress
<1>10. CASE UNCHANGED flightVars
  BY <1>10 DEF flightVars, TakeoffInv, TakeoffRows, RoomForTakeoff, TakeoffsInLimit,
               TakeoffsSettled, SortiesOf, InProgress
<1> QED
  BY <1>1, <1>2, <1>3, <1>4, <1>5, <1>6, <1>7, <1>8, <1>9, <1>10 DEF FlightNext, FlightSteps

(* The rows of the takeoffs: the day's limit, the room an admitted run still   *)
(* has under it, and the settling of every run that ended.                    *)
THEOREM TakeoffsStaySafe == FlightSafety => []TakeoffInv
<1>1. FlightInit => TakeoffInv
  <2> SUFFICES ASSUME FlightInit PROVE TakeoffInv
    OBVIOUS
  <2>1. sorties = {} /\ SortiesOf(day) = {} /\ Cardinality(SortiesOf(day)) = 0
    BY FS_EmptySet DEF FlightInit, SortiesOf
  <2>2. TakeoffsInLimit /\ RoomForTakeoff
    BY <2>1, FlightAssumption DEF TakeoffsInLimit, RoomForTakeoff
  <2> QED BY <2>1, <2>2, FS_EmptySet DEF TakeoffInv, TakeoffRows, TakeoffsSettled
<1> QED
  BY <1>1, TakeoffStep, FlightTypeCorrect, GateHeldByOneFlight, PTL DEF FlightSafety

(* No day has more takeoffs than the plan allows.                             *)
THEOREM TakeoffLimitHolds == FlightSafety => []TakeoffsInLimit
<1>1. TakeoffInv => TakeoffsInLimit
  BY DEF TakeoffInv
<1> QED BY <1>1, TakeoffsStaySafe, PTL

(* No takeoff of a run that ended is left unsettled.                          *)
THEOREM NoTakeoffUnsettled == FlightSafety => []TakeoffsSettled
<1>1. TakeoffInv => TakeoffsSettled
  BY DEF TakeoffInv
<1> QED BY <1>1, TakeoffsStaySafe, PTL

-----------------------------------------------------------------------------
(* The tank.                                                                  *)

(* A run's cards were saved when they qualified, whatever became of the run.  *)
CoolIsSaved ==
  \A f \in Flights : flight[f].cool \subseteq tank \cup expired \cup InConversation(consumed)

(* What a step of the loop does to the tank and to the cards of its run.      *)
LEMMA CollectSaves ==
  ASSUME FlightTypeOK, NEW f \in Flights, CollectSteps(f)
  PROVE  \/ tank' = tank /\ flight'[f].cool \subseteq flight[f].cool
         \/ tank' = SavedTank(flight'[f].cool)
<1> USE DEF FlightTypeOK
<1>0. /\ flight \in [Flights -> Flight] /\ flight[f] \in Flight
      /\ \A stage : Ends(f, stage).cool = flight[f].cool
  BY DEF Ends, Waiting
<1>1. CASE Triaged(f)
  <2>1. PICK v \in Verdict(f) :
          /\ flight' = [flight EXCEPT ![f] =
               IF Cardinality(CoolAfter(f, v)) >= TargetCool \/ ~Full(flight[f].bucket)
               THEN [Ends(f, "landing") EXCEPT !.cool = CoolAfter(f, v),
                                               !.reported = ReportedAfter(f, v)]
               ELSE [flight[f] EXCEPT !.stage = "filling", !.bucket = {},
                                      !.bait = @ \cup v.bait,
                                      !.cool = CoolAfter(f, v),
                                      !.reported = ReportedAfter(f, v)]]
          /\ tank' = IF v.newly = {} THEN tank ELSE SavedTank(CoolAfter(f, v))
    BY <1>1 DEF Triaged
  <2>2. flight'[f].cool = CoolAfter(f, v)
    BY <2>1, <1>0 DEF Flight, Ends, Waiting
  <2>3. CASE v.newly = {}
    BY <2>1, <2>2, <2>3 DEF CoolAfter
  <2>4. CASE v.newly # {}
    BY <2>1, <2>2, <2>4
  <2> QED BY <2>3, <2>4
<1>2. CASE LeaveLoop(f) \/ CollectFails(f) \/ SearchFails(f)
  BY <1>2, <1>0 DEF LeaveLoop, CollectFails, SearchFails, Flight
<1>3. CASE DrainReserve(f)
  <2>1. flight'[f].cool = flight[f].cool
    BY <1>3, <1>0 DEF DrainReserve, Flight
  <2> QED BY <1>3, <2>1 DEF DrainReserve
<1>4. CASE Search(f)
  <2>1. flight'[f].cool = flight[f].cool
    BY <1>4, <1>0 DEF Search, Flight
  <2> QED BY <1>4, <2>1 DEF Search
<1>5. CASE Score(f)
  <2>1. flight'[f].cool = flight[f].cool
    BY <1>5, <1>0 DEF Score, Flight
  <2> QED BY <1>5, <2>1 DEF Score
<1>6. CASE SearchAnswers(f)
  <2>1. flight'[f].cool = flight[f].cool
    <3>1. CASE flight' = [flight EXCEPT ![f] = Ends(f, "landing")]
      BY <3>1, <1>0
    <3>2. ASSUME NEW found, NEW fit,
                 flight' = [flight EXCEPT ![f].stage = "filling", ![f].seen = @ \cup found,
                              ![f].bucket = @ \cup fit, ![f].reserve = @ \cup (found \ fit)]
          PROVE  flight'[f].cool = flight[f].cool
      <4> DEFINE run == [flight[f] EXCEPT !.stage = "filling", !.seen = @ \cup found,
                           !.bucket = @ \cup fit, !.reserve = @ \cup (found \ fit)]
      <4>1. flight'[f] = run
        BY <3>2, <1>0
      <4>2. run.cool = flight[f].cool
        BY <1>0 DEF Flight
      <4> QED BY <4>1, <4>2
    <3> QED BY <1>6, <3>1, <3>2 DEF SearchAnswers
  <2> QED BY <1>6, <2>1 DEF SearchAnswers
<1>7. CASE Hydrated(f)
  <2>1. flight'[f].cool = flight[f].cool
    BY <1>7, <1>0 DEF Hydrated, Flight
  <2> QED BY <1>7, <2>1 DEF Hydrated
<1> QED BY <1>1, <1>2, <1>3, <1>4, <1>5, <1>6, <1>7 DEF CollectSteps

\* Every step keeps the cards of a counted takeoff.
LEMMA CoolStep ==
  FlightTypeOK /\ CoolIsSaved /\ [FlightNext]_flightVars => CoolIsSaved'
<1> SUFFICES ASSUME FlightTypeOK, CoolIsSaved, [FlightNext]_flightVars PROVE CoolIsSaved'
  OBVIOUS
<1>0. /\ flight \in [Flights -> Flight] /\ tank \subseteq Cards
      /\ \A f \in Flights : flight[f].cool \subseteq Cards
      /\ Waiting.cool = {}
      /\ \A f, stage : Ends(f, stage).cool = flight[f].cool
  BY DEF FlightTypeOK, Flight, Ends, Waiting
<1>1. ASSUME NEW f \in Flights, CollectSteps(f)
      PROVE  CoolIsSaved'
  <2>1. /\ \A g \in Flights \ {f} : flight'[g] = flight[g]
        /\ UNCHANGED <<consumed, pruning, expired>>
        /\ flight'[f].cool \subseteq Cards
    BY <1>1, CollectMoves, CollectKeepsType, OneRunChanges DEF ledgers, GoodRun, Flight
  <2>2. CASE tank' = tank /\ flight'[f].cool \subseteq flight[f].cool
    BY <2>1, <2>2 DEF CoolIsSaved, InConversation
  <2>3. CASE tank' = SavedTank(flight'[f].cool)
    <3>1. (tank \cup flight'[f].cool) \subseteq tank' \cup InConversation(consumed)
      BY <2>3 DEF SavedTank
    <3> QED BY <2>1, <3>1 DEF CoolIsSaved, InConversation
  <2> QED BY <1>1, <2>2, <2>3, CollectSaves
<1>2. ASSUME NEW f \in Flights,
             TakeOff(f) \/ StartEmptyTank(f) \/ Abort(f) \/ RecordSortie(f) \/ Planned(f)
             \/ IndexFails(f) \/ Fail(f)
      PROVE  CoolIsSaved'
  <2>1. \A g \in Flights : flight'[g].cool = flight[g].cool
    <3>1. CASE TakeOff(f) \/ StartEmptyTank(f)
      BY <3>1, <1>0 DEF TakeOff, StartEmptyTank, TryBegin, Flight
    <3>2. CASE Abort(f) \/ RecordSortie(f) \/ Planned(f)
      BY <3>2, <1>0 DEF Abort, RecordSortie, Planned, Flight
    <3>3. CASE IndexFails(f) \/ Fail(f)
      BY <3>3, <1>0 DEF IndexFails, Fail
    <3> QED BY <1>2, <3>1, <3>2, <3>3
  <2>2. UNCHANGED <<tank, expired, consumed>>
    BY <1>2 DEF TakeOff, StartEmptyTank, TryBegin, Abort, RecordSortie, Planned, IndexFails,
                Fail, ledgers
  <2> QED BY <2>1, <2>2 DEF CoolIsSaved, InConversation
<1>3. ASSUME NEW f \in Flights, Land(f)
      PROVE  CoolIsSaved'
  <2>1. \A g \in Flights : flight'[g].cool = flight[g].cool
    BY <1>3, <1>0 DEF Land
  <2>2. /\ tank \subseteq tank' \cup InConversation(consumed)
        /\ UNCHANGED <<expired, consumed>>
    BY <1>3 DEF Land, SavedTank, ledgers
  <2> QED BY <2>1, <2>2 DEF CoolIsSaved, InConversation
<1>4. ASSUME NEW v \in Conversations, Consume(v) \/ PruneConsumed(v)
      PROVE  CoolIsSaved'
  <2>1. CASE Consume(v)
    BY <2>1 DEF Consume, CoolIsSaved, InConversation
  <2>2. CASE PruneConsumed(v)
    <3>1. v \in consumed
      BY <2>2 DEF PruneConsumed, FlightTypeOK
    <3> QED BY <2>2, <3>1 DEF PruneConsumed, CoolIsSaved, InConversation
  <2> QED BY <1>4, <2>1, <2>2
<1>5. ASSUME NEW c \in Cards, Expire(c)
      PROVE  CoolIsSaved'
  BY <1>5 DEF Expire, CoolIsSaved, InConversation
<1>6. CASE Cooled \/ OtherUserTakesOff \/ NextDay \/ UNCHANGED flightVars
  <2>1. UNCHANGED <<flight, tank, expired, consumed>>
    BY <1>6 DEF Cooled, OtherUserTakesOff, NextDay, flightVars, ledgers
  <2> QED BY <2>1 DEF CoolIsSaved, InConversation
<1>7. CASE Crash
  <2>1. \A f \in Flights : flight'[f].cool = {} \/ flight'[f].cool = flight[f].cool
    BY <1>7, <1>0 DEF Crash, Waiting
  <2> QED BY <1>7, <2>1 DEF Crash, CoolIsSaved, InConversation
<1> QED
  BY <1>1, <1>2, <1>3, <1>4, <1>5, <1>6, <1>7 DEF FlightNext, FlightSteps, DeskSteps

(* A takeoff that counts has left its cards in the tank, until the operator   *)
(* consumes them or they expire.                                              *)
THEOREM CountedTakeoffsFilledTheTank == FlightSafety => []CountedTakeoffKeptCards
<1>1. FlightInit => CoolIsSaved
  BY DEF FlightInit, CoolIsSaved, Waiting
<1>2. FlightTypeOK /\ CoolIsSaved => CountedTakeoffKeptCards
  BY DEF FlightTypeOK, CoolIsSaved, CountedTakeoffKeptCards, Sortie
<1> QED BY <1>1, <1>2, CoolStep, FlightTypeCorrect, PTL DEF FlightSafety

(* No step brings a consumed card back to the tank.                           *)
THEOREM ConsumedNeverReturns == FlightSafety => ConsumedStaysOut
<1> DEFINE StaysOut == (tank' \ tank) \cap InConversation(consumed) = {}
<1>1. FlightTypeOK /\ [FlightNext]_flightVars => [StaysOut]_flightVars
  <2> SUFFICES ASSUME FlightTypeOK, [FlightNext]_flightVars PROVE StaysOut
    OBVIOUS
  <2>1. ASSUME NEW f \in Flights, CollectSteps(f) \/ Land(f)
        PROVE  StaysOut
    <3>1. PICK cool : tank' = tank \/ tank' = SavedTank(cool)
      BY <2>1, CollectSaves DEF Land
    <3> QED BY <3>1 DEF SavedTank
  <2>2. ASSUME NEW f \in Flights,
               TakeOff(f) \/ StartEmptyTank(f) \/ Abort(f) \/ RecordSortie(f) \/ Planned(f)
               \/ IndexFails(f) \/ Fail(f)
        PROVE  StaysOut
    BY <2>2 DEF TakeOff, StartEmptyTank, TryBegin, Abort, RecordSortie, Planned, IndexFails, Fail
  <2>3. CASE DeskSteps
    BY <2>3 DEF DeskSteps, Consume, PruneConsumed, Expire
  <2>4. CASE Cooled \/ OtherUserTakesOff \/ NextDay \/ Crash \/ UNCHANGED flightVars
    BY <2>4 DEF Cooled, OtherUserTakesOff, NextDay, Crash, flightVars
  <2> QED BY <2>1, <2>2, <2>3, <2>4 DEF FlightNext, FlightSteps
<1> QED BY <1>1, FlightTypeCorrect, PTL DEF FlightSafety, ConsumedStaysOut

-----------------------------------------------------------------------------
(* The credits.                                                               *)

(* What a run may have overdrawn: nothing when it asked for a search, and     *)
(* then one search and a hydration for every bucket it has hydrated.          *)
CreditInv ==
  /\ OverdraftBounded
  /\ \A f \in Flights :
       /\ flight[f].stage = "searching" => spent < Pool
       /\ flight[f].stage \in {"index", "planning", "filling", "triaging"}
            => spent < Pool + MaxReads * (flight[f].attempts + 1)
       /\ flight[f].stage = "hydrating" => spent < Pool + MaxReads * flight[f].attempts

\* What a search and k hydrations charge, as a bound of their number.
LEMMA Reads ==
  ASSUME NEW k \in Nat, k <= MaxAttempts
  PROVE  /\ MaxReads * k \in Nat /\ MaxReads * (k + 1) \in Nat
         /\ MaxReads * (k + 1) = MaxReads * k + MaxReads
         /\ MaxReads * (k + 1) <= MaxReads * (MaxAttempts + 1)
         /\ MaxReads * (MaxAttempts + 1) \in Nat
<1>1. MaxReads \in Nat /\ MaxAttempts \in Nat
  BY FlightAssumption
<1>2. MaxReads * k \in Nat /\ MaxReads * (k + 1) \in Nat /\ MaxReads * (MaxAttempts + 1) \in Nat
  BY <1>1
<1>3. MaxReads * (k + 1) = MaxReads * k + MaxReads
  BY <1>1
<1>4. PICK d \in Nat : MaxAttempts = k + d
  <2>1. MaxAttempts - k \in Nat /\ MaxAttempts = k + (MaxAttempts - k)
    BY <1>1
  <2> QED BY <2>1
<1>5. MaxReads * (MaxAttempts + 1) = MaxReads * (k + 1) + MaxReads * d /\ MaxReads * d \in Nat
  BY <1>1, <1>4
<1> QED BY <1>2, <1>3, <1>5

(* What a step of the loop charges, and when.                                 *)
LEMMA CollectSpends ==
  ASSUME FlightTypeOK, NEW f \in Flights, CollectSteps(f)
  PROVE  \/ /\ spent' = spent /\ flight'[f].stage \in {"landing", "failing"}
         \/ /\ spent' = spent /\ flight[f].stage \in {"filling", "searching", "triaging"}
            /\ flight'[f].stage = "filling" /\ flight'[f].attempts = flight[f].attempts
         \/ /\ spent' = spent /\ spent < Pool /\ flight'[f].stage = "searching"
         \/ /\ spent' = spent /\ flight[f].stage = "filling"
            /\ flight'[f].stage = "hydrating" /\ flight'[f].attempts = flight[f].attempts + 1
         \/ /\ flight[f].stage \in {"searching", "hydrating"}
            /\ spent' \in Nat /\ spent' <= spent + MaxReads
            /\ \/ flight'[f].stage = "landing"
               \/ /\ flight'[f].stage \in {"filling", "triaging"}
                  /\ flight'[f].attempts = flight[f].attempts
<1> USE DEF FlightTypeOK
<1>0. /\ flight \in [Flights -> Flight] /\ flight[f] \in Flight
      /\ \A stage : Ends(f, stage).stage = stage
      /\ spent \in Nat /\ MaxReads \in Nat
  BY FlightAssumption DEF Ends, Waiting
<1>1. CASE LeaveLoop(f) \/ CollectFails(f) \/ SearchFails(f)
  <2>1. /\ spent' = spent
        /\ \/ flight'[f] = Ends(f, "landing") \/ flight'[f] = Ends(f, "failing")
           \/ /\ flight'[f] = [flight[f] EXCEPT !.stage = "filling"]
              /\ flight[f].stage = "searching"
    BY <1>1, <1>0 DEF LeaveLoop, CollectFails, SearchFails
  <2> QED BY <2>1, <1>0 DEF Flight
<1>2. CASE DrainReserve(f)
  <2>1. /\ flight'[f].stage = "filling" /\ flight'[f].attempts = flight[f].attempts
        /\ spent' = spent /\ flight[f].stage = "filling"
    BY <1>2, <1>0 DEF DrainReserve, Flight
  <2> QED BY <2>1
<1>3. CASE Search(f)
  <2>1. /\ spent' = spent
        /\ \/ spent < Pool /\ flight'[f].stage = "searching"
           \/ flight'[f].stage = "landing"
    BY <1>3, <1>0 DEF Search, Flight
  <2> QED BY <2>1
<1>4. CASE Score(f)
  <2>1. /\ spent' = spent /\ flight[f].stage = "filling"
        /\ \/ flight'[f] = [flight[f] EXCEPT !.stage = "hydrating",
                                             !.attempts = flight[f].attempts + 1]
           \/ flight'[f] = Ends(f, "landing")
    BY <1>4, <1>0 DEF Score
  <2> QED BY <2>1, <1>0 DEF Flight
<1>5. CASE Triaged(f)
  <2>1. PICK v \in Verdict(f) :
          flight' = [flight EXCEPT ![f] =
               IF Cardinality(CoolAfter(f, v)) >= TargetCool \/ ~Full(flight[f].bucket)
               THEN [Ends(f, "landing") EXCEPT !.cool = CoolAfter(f, v),
                                               !.reported = ReportedAfter(f, v)]
               ELSE [flight[f] EXCEPT !.stage = "filling", !.bucket = {},
                                      !.bait = @ \cup v.bait,
                                      !.cool = CoolAfter(f, v),
                                      !.reported = ReportedAfter(f, v)]]
    BY <1>5 DEF Triaged
  <2>2. /\ spent' = spent /\ flight[f].stage = "triaging"
        /\ \/ flight'[f].stage = "landing"
           \/ flight'[f].stage = "filling" /\ flight'[f].attempts = flight[f].attempts
    BY <1>5, <2>1, <1>0 DEF Triaged, Flight, Ends, Waiting
  <2> QED BY <2>2
<1>6. CASE SearchAnswers(f) \/ Hydrated(f)
  <2>1. spent' \in Nat /\ spent' <= spent + MaxReads
    <3>1. PICK n \in 0..MaxReads : spent' = spent + n
      BY <1>6 DEF SearchAnswers, Hydrated
    <3> QED BY <3>1, <1>0
  <2>2. flight[f].stage \in {"searching", "hydrating"}
    BY <1>6 DEF SearchAnswers, Hydrated
  <2>3. CASE flight' = [flight EXCEPT ![f] = Ends(f, "landing")]
    BY <1>0, <2>1, <2>2, <2>3
  <2>4. ASSUME NEW found, NEW fit,
               flight' = [flight EXCEPT ![f].stage = "filling", ![f].seen = @ \cup found,
                            ![f].bucket = @ \cup fit, ![f].reserve = @ \cup (found \ fit)]
        PROVE  flight'[f].stage = "filling" /\ flight'[f].attempts = flight[f].attempts
    <3> DEFINE run == [flight[f] EXCEPT !.stage = "filling", !.seen = @ \cup found,
                         !.bucket = @ \cup fit, !.reserve = @ \cup (found \ fit)]
    <3>1. flight'[f] = run
      BY <2>4, <1>0
    <3>2. run.stage = "filling" /\ run.attempts = flight[f].attempts
      BY <1>0 DEF Flight
    <3> QED BY <3>1, <3>2
  <2>5. CASE flight' = [flight EXCEPT ![f].stage = "triaging"]
             \/ flight' = [flight EXCEPT ![f].stage = "filling", ![f].bucket = {}]
    <3>1. \/ flight'[f] = [flight[f] EXCEPT !.stage = "triaging"]
          \/ flight'[f] = [flight[f] EXCEPT !.stage = "filling", !.bucket = {}]
      BY <2>5, <1>0
    <3>2. /\ flight'[f].stage \in {"filling", "triaging"}
          /\ flight'[f].attempts = flight[f].attempts
      BY <3>1, <1>0 DEF Flight
    <3> QED BY <3>2, <2>1, <2>2
  <2> QED BY <1>6, <2>1, <2>2, <2>3, <2>4, <2>5 DEF SearchAnswers, Hydrated
<1> QED BY <1>1, <1>2, <1>3, <1>4, <1>5, <1>6 DEF CollectSteps

(* Only one run can spend, so the allowance of that run is all there is.      *)
LEMMA CreditStep ==
  FlightTypeOK /\ GateHoldsFlight /\ CreditInv /\ [FlightNext]_flightVars => CreditInv'
<1> SUFFICES ASSUME FlightTypeOK, GateHoldsFlight, CreditInv, [FlightNext]_flightVars
             PROVE  CreditInv'
  OBVIOUS
<1>0. /\ flight \in [Flights -> Flight] /\ spent \in Nat /\ Pool \in Nat /\ MaxReads \in Nat
      /\ \A f \in Flights : flight[f].attempts \in Nat /\ flight[f].attempts <= MaxAttempts
      /\ MaxAttempts \in Nat
  BY FlightAssumption DEF FlightTypeOK, Flight
<1>1. ASSUME NEW f \in Flights, CollectSteps(f)
      PROVE  CreditInv'
  <2>1. /\ \A g \in Flights \ {f} : flight'[g] = flight[g]
        /\ flight[f].stage \in Collecting
    BY <1>1, CollectMoves
  <2>2. \A g \in Flights \ {f} :
          flight'[g].stage \notin Collecting \cup {"index", "planning"}
    BY <2>1 DEF GateHoldsFlight, InProgress, Collecting
  <2> DEFINE k == flight[f].attempts
             all == MaxReads * (MaxAttempts + 1)
             now == MaxReads * k
             next == MaxReads * (k + 1)
  <2>3. /\ now \in Nat /\ next \in Nat /\ all \in Nat
        /\ next = now + MaxReads /\ next <= all
    BY <1>0, Reads
  <2>4. /\ spent < Pool + all
        /\ flight[f].stage = "searching" => spent < Pool
        /\ flight[f].stage \in {"filling", "triaging"} => spent < Pool + next
        /\ flight[f].stage = "hydrating" => spent < Pool + now
    BY DEF CreditInv, OverdraftBounded
  <2>5. /\ spent' < Pool + all
        /\ flight'[f].stage = "searching" => spent' < Pool
        /\ flight'[f].stage \in {"index", "planning", "filling", "triaging"}
             => spent' < Pool + MaxReads * (flight'[f].attempts + 1)
        /\ flight'[f].stage = "hydrating" => spent' < Pool + MaxReads * flight'[f].attempts
    <3> DEFINE Allowed ==
          /\ spent' < Pool + all
          /\ flight'[f].stage = "searching" => spent' < Pool
          /\ flight'[f].stage \in {"index", "planning", "filling", "triaging"}
               => spent' < Pool + MaxReads * (flight'[f].attempts + 1)
          /\ flight'[f].stage = "hydrating" => spent' < Pool + MaxReads * flight'[f].attempts
    <3> SUFFICES Allowed
      OBVIOUS
    <3>1. CASE spent' = spent /\ flight'[f].stage \in {"landing", "failing"}
      BY <2>4, <3>1
    <3>2. CASE /\ spent' = spent /\ flight[f].stage \in {"filling", "searching", "triaging"}
               /\ flight'[f].stage = "filling" /\ flight'[f].attempts = flight[f].attempts
      <4>1. spent' < Pool + next /\ spent' < Pool + all
        <5> HIDE DEF next, all, now
        <5> QED BY <1>0, <2>3, <2>4, <3>2
      <4> QED BY <3>2, <4>1
    <3>3. CASE spent' = spent /\ spent < Pool /\ flight'[f].stage = "searching"
      BY <2>4, <3>3
    <3>4. CASE /\ spent' = spent /\ flight[f].stage = "filling"
               /\ flight'[f].stage = "hydrating" /\ flight'[f].attempts = flight[f].attempts + 1
      <4>1. spent' < Pool + next /\ spent' < Pool + all
        <5> HIDE DEF next, all, now
        <5> QED BY <2>4, <3>4
      <4> QED BY <3>4, <4>1
    <3>5. CASE /\ flight[f].stage \in {"searching", "hydrating"}
               /\ spent' \in Nat /\ spent' <= spent + MaxReads
               /\ \/ flight'[f].stage = "landing"
                  \/ /\ flight'[f].stage \in {"filling", "triaging"}
                     /\ flight'[f].attempts = flight[f].attempts
      <4>1. spent' < Pool + next /\ spent' < Pool + all
        <5> HIDE DEF next, all, now
        <5>1. spent < Pool + now
          BY <1>0, <2>3, <2>4, <3>5
        <5> QED BY <1>0, <2>3, <3>5, <5>1
      <4> QED BY <3>5, <4>1
    <3> HIDE DEF Allowed
    <3> QED BY <1>1, <3>1, <3>2, <3>3, <3>4, <3>5, CollectSpends
  <2> QED BY <2>1, <2>2, <2>5 DEF CreditInv, OverdraftBounded, Collecting
<1>2. ASSUME NEW f \in Flights, TakeOff(f) \/ StartEmptyTank(f)
      PROVE  CreditInv'
  <2>1. /\ spent < Pool /\ spent' = spent /\ flight'[f].stage = "index"
        /\ flight'[f].attempts = flight[f].attempts
        /\ \A g \in Flights \ {f} : flight'[g] = flight[g]
    BY <1>2, BeginMoves DEF QuotaLeft, FlightTypeOK, Flight
  <2>2. MaxReads * (flight[f].attempts + 1) \in Nat
    BY <1>0, Reads
  <2>3. spent < Pool + MaxReads * (flight[f].attempts + 1)
    BY <1>0, <2>1, <2>2
  <2> QED BY <2>1, <2>3 DEF CreditInv, OverdraftBounded
<1>3. ASSUME NEW f \in Flights, Abort(f) \/ RecordSortie(f) \/ Planned(f)
      PROVE  CreditInv'
  <2>1. /\ spent' = spent
        /\ \A g \in Flights \ {f} : flight'[g] = flight[g]
    BY <1>3, PlanningMoves DEF Abort, RecordSortie, Planned
  <2>2. \/ flight'[f].stage = "failing"
        \/ /\ flight'[f].attempts = flight[f].attempts
           /\ \/ flight'[f].stage = flight[f].stage
              \/ /\ flight[f].stage \in {"index", "planning"}
                 /\ flight'[f].stage \in {"planning", "filling"}
    <3>0. flight[f] \in Flight /\ Ends(f, "failing").stage = "failing"
      BY DEF FlightTypeOK, Ends, Waiting
    <3>1. \/ flight'[f] = [flight[f] EXCEPT !.aborted = TRUE]
          \/ flight'[f] = [flight[f] EXCEPT !.stage = "planning"] /\ flight[f].stage = "index"
          \/ /\ flight'[f] = [flight[f] EXCEPT !.stage = "filling", !.blocked = consumed]
             /\ flight[f].stage = "planning"
          \/ flight'[f] = Ends(f, "failing")
      BY <1>0, <1>3 DEF Abort, RecordSortie, Planned
    <3> QED BY <3>0, <3>1 DEF Flight
  <2> QED BY <2>1, <2>2 DEF CreditInv, OverdraftBounded
<1>4. ASSUME NEW f \in Flights, IndexFails(f) \/ Land(f) \/ Fail(f)
      PROVE  CreditInv'
  <2>1. /\ spent' = spent /\ flight'[f].stage = "over"
        /\ \A g \in Flights \ {f} : flight'[g] = flight[g]
    BY <1>4, EndMoves DEF IndexFails, Land, Fail
  <2> QED BY <2>1 DEF CreditInv, OverdraftBounded
<1>5. CASE Cooled \/ DeskSteps \/ OtherUserTakesOff \/ NextDay \/ UNCHANGED flightVars
  <2>1. UNCHANGED <<flight, spent>>
    BY <1>5 DEF Cooled, DeskSteps, Consume, PruneConsumed, Expire, OtherUserTakesOff, NextDay,
                flightVars
  <2> QED BY <2>1 DEF CreditInv, OverdraftBounded
<1>6. CASE Crash
  <2>1. /\ spent' = spent
        /\ \A f \in Flights : flight'[f].stage = "lost" \/ flight'[f] = flight[f]
    BY <1>6 DEF Crash, Waiting
  <2> QED BY <2>1 DEF CreditInv, OverdraftBounded
<1> QED
  BY <1>1, <1>2, <1>3, <1>4, <1>5, <1>6 DEF FlightNext, FlightSteps

(* The month is overdrawn by less than a search and the hydrations of a run,  *)
(* for every pool, every number of flights and every number of restarts.      *)
THEOREM OverdraftIsBounded == FlightSafety => []OverdraftBounded
<1>1. FlightInit => CreditInv
  <2>1. MaxReads * (MaxAttempts + 1) \in Nat /\ Pool \in Nat \ {0} /\ 0 \in Nat
    BY FlightAssumption, Reads
  <2> DEFINE all == MaxReads * (MaxAttempts + 1)
  <2>2. 0 < Pool + all
    <3> HIDE DEF all
    <3> QED BY <2>1 DEF all
  <2> QED BY <2>2 DEF FlightInit, CreditInv, OverdraftBounded, Waiting
<1>2. CreditInv => OverdraftBounded
  BY DEF CreditInv
<1> QED
  BY <1>1, <1>2, CreditStep, FlightTypeCorrect, GateHeldByOneFlight, PTL DEF FlightSafety

(* What the plan allows is kept by flights that race.                         *)
THEOREM PlanLimitsHold == FlightSafety => []LimitsKept
BY GateHeldByOneFlight, TakeoffLimitHolds, OverdraftIsBounded, PTL DEF LimitsKept

(* What is recorded of the takeoffs is what came of their runs.               *)
THEOREM TakeoffsTellTheirRuns == FlightSafety => []SortiesTrue
BY NoTakeoffUnsettled, CountedTakeoffsFilledTheTank, PTL DEF SortiesTrue

(******************************************************************************)
(* Events: a page is given every event at most once, in order and without a   *)
(* hole.                                                                      *)
(******************************************************************************)

Issued(id) == id.boot < boot \/ (id.boot = boot /\ id.seq <= seq)
OnWire(t, id) == \E k \in DOMAIN wire[t] : wire[t][k].id = id
Ordered(s) == \A i, j \in DOMAIN s : i < j => Before(s[i].id, s[j].id)

\* The buffer holds this process's events in order.
BufferInv ==
  /\ Ordered(buffer)
  /\ \A i \in DOMAIN buffer : buffer[i].id.boot = boot /\ buffer[i].id.seq <= seq

\* What a tab says it last heard is what it did last hear.
HeardInv(t) ==
  /\ IF header[t] # NoId THEN header[t] = lastEventId[t] ELSE url[t] = lastEventId[t]
  /\ lastEventId[t] = NoId <=> since[t] = NoId
  /\ lastEventId[t] = NoId => heard[t] = {}
  /\ lastEventId[t] # NoId => /\ Issued(lastEventId[t])
                              /\ \A old \in heard[t] : ~Before(lastEventId[t], old)

OrderInv(t) ==
  /\ Ordered(wire[t])
  /\ \A i \in DOMAIN wire[t] : Issued(wire[t][i].id)
  /\ \A i \in DOMAIN wire[t], old \in heard[t] : Before(old, wire[t][i].id)
  /\ \A i \in DOMAIN wire[t] : lastEventId[t] # NoId => Before(lastEventId[t], wire[t][i].id)

\* An event kept in the buffer is not skipped: it is on the wire if frames
\* before and after it are, if the last event heard is before it and a frame is
\* after it, or if it is newer than these and the stream is open.
Unskipped(t, id) ==
  /\ \A j, k \in DOMAIN wire[t] :
       Before(wire[t][j].id, id) /\ Before(id, wire[t][k].id) => OnWire(t, id)
  /\ \A k \in DOMAIN wire[t] :
       lastEventId[t] # NoId /\ Before(lastEventId[t], id)
       /\ Before(id, wire[t][k].id) => OnWire(t, id)
  /\ stream[t] = "open" =>
       /\ lastEventId[t] # NoId /\ Before(lastEventId[t], id) => OnWire(t, id)
       /\ \A j \in DOMAIN wire[t] : Before(wire[t][j].id, id) => OnWire(t, id)

\* It was heard if it lies between the first event heard and the last.
Given(t, id) ==
  since[t] # NoId /\ ~Before(id, since[t]) /\ ~Before(lastEventId[t], id)
    => id \in heard[t]

WireInv(t) == \A i \in DOMAIN buffer : Unskipped(t, buffer[i].id)
GapInv(t) == \A i \in DOMAIN buffer : Given(t, buffer[i].id)

TabInv(t) == HeardInv(t) /\ OrderInv(t) /\ WireInv(t) /\ GapInv(t)

EventsInv == EventsTypeOK /\ BufferInv /\ \A t \in Tabs : TabInv(t)

-----------------------------------------------------------------------------
(* Sequences: what is left when the oldest elements are dropped.              *)

Trails(r, s) ==
  \E d \in 0..Len(s) : /\ Len(r) = Len(s) - d
                       /\ \A i \in 1..Len(r) : r[i] = s[i + d]

(* The elements of a buffer or a wire.                                        *)
LEMMA EventsOfSeq ==
  ASSUME NEW s \in Seq(Event)
  PROVE  /\ Len(s) \in Nat /\ DOMAIN s = 1..Len(s)
         /\ \A i \in DOMAIN s : s[i] \in Event /\ s[i].id \in Id
<1>1. Len(s) \in Nat /\ DOMAIN s = 1..Len(s)
  BY LenProperties
<1>2. \A i \in 1..Len(s) : s[i] \in Event
  BY ElementOfSeq
<1> QED BY <1>1, <1>2 DEF Event

(* The buffer from some position on.                                          *)
LEMMA SubSeqTrails ==
  ASSUME NEW s \in Seq(Event), NEW k \in 0..Len(s)
  PROVE  /\ SubSeq(s, k + 1, Len(s)) \in Seq(Event)
         /\ Len(SubSeq(s, k + 1, Len(s))) = Len(s) - k
         /\ \A i \in 1..(Len(s) - k) : SubSeq(s, k + 1, Len(s))[i] = s[i + k]
         /\ Trails(SubSeq(s, k + 1, Len(s)), s)
<1> DEFINE r == SubSeq(s, k + 1, Len(s))
<1>1. Len(s) \in Nat /\ k \in Nat /\ k <= Len(s)
  BY LenProperties
<1>2. \A i \in (k + 1)..Len(s) : s[i] \in Event
  BY <1>1, ElementOfSeq
<1>3. /\ r \in Seq(Event)
      /\ Len(r) = IF k + 1 <= Len(s) THEN Len(s) - (k + 1) + 1 ELSE 0
      /\ \A i \in 1..(Len(s) - (k + 1) + 1) : r[i] = s[(k + 1) + i - 1]
  BY <1>1, <1>2, SubSeqProperties
<1>4. Len(r) = Len(s) - k /\ \A i \in 1..(Len(s) - k) : r[i] = s[i + k]
  BY <1>1, <1>3
<1> QED BY <1>1, <1>3, <1>4 DEF Trails

(* The buffer or a wire without its oldest element.                           *)
LEMMA TailTrails ==
  ASSUME NEW s \in Seq(Event), s # <<>>
  PROVE  /\ Tail(s) \in Seq(Event) /\ Head(s) \in Event
         /\ Head(s) = s[1] /\ 1 \in DOMAIN s
         /\ Len(Tail(s)) = Len(s) - 1
         /\ \A i \in 1..(Len(s) - 1) : Tail(s)[i] = s[i + 1]
         /\ Trails(Tail(s), s)
<1>1. Len(s) \in Nat \ {0} /\ DOMAIN s = 1..Len(s)
  BY EmptySeq, LenProperties
<1>2. /\ Tail(s) \in Seq(Event) /\ Len(Tail(s)) = Len(s) - 1
      /\ Head(s) \in Event
      /\ \A i \in 1..Len(Tail(s)) : Tail(s)[i] = s[i + 1]
  BY HeadTailProperties
<1>3. Head(s) = s[1]
  OBVIOUS
<1> QED BY <1>1, <1>2, <1>3 DEF Trails

(* A buffer cut to its size.                                                  *)
LEMMA NewestTrails ==
  ASSUME NEW s \in Seq(Event), NEW n \in Nat
  PROVE  /\ Newest(s, n) \in Seq(Event) /\ Trails(Newest(s, n), s)
         /\ Len(Newest(s, n)) <= n
<1>1. Len(s) \in Nat
  BY LenProperties
<1>2. CASE Len(s) <= n
  BY <1>1, <1>2 DEF Newest, Trails
<1>3. CASE ~(Len(s) <= n)
  <2>1. PICK k \in 0..Len(s) : k = Len(s) - n
    BY <1>1, <1>3
  <2>2. Newest(s, n) = SubSeq(s, k + 1, Len(s))
    BY <1>3, <2>1 DEF Newest
  <2>3. /\ SubSeq(s, k + 1, Len(s)) \in Seq(Event)
        /\ Len(SubSeq(s, k + 1, Len(s))) = Len(s) - k
        /\ Trails(SubSeq(s, k + 1, Len(s)), s)
    BY SubSeqTrails
  <2> QED BY <1>1, <2>1, <2>2, <2>3
<1> QED BY <1>2, <1>3

(* What trails an ordered sequence is ordered, and made of its elements.      *)
LEMMA TrailsOrdered ==
  ASSUME NEW s \in Seq(Event), NEW r \in Seq(Event), Trails(r, s), Ordered(s)
  PROVE  Ordered(r) /\ \A i \in DOMAIN r : \E j \in DOMAIN s : r[i] = s[j]
<1>1. PICK d \in 0..Len(s) : Len(r) = Len(s) - d /\ \A i \in 1..Len(r) : r[i] = s[i + d]
  BY DEF Trails
<1>2. /\ DOMAIN s = 1..Len(s) /\ DOMAIN r = 1..Len(r)
      /\ Len(s) \in Nat /\ Len(r) \in Nat /\ d \in Nat
  BY LenProperties
<1>3. \A i \in DOMAIN r : i + d \in DOMAIN s /\ r[i] = s[i + d]
  BY <1>1, <1>2
<1>4. ASSUME NEW i \in DOMAIN r, NEW j \in DOMAIN r, i < j
      PROVE  Before(r[i].id, r[j].id)
  <2>1. i + d < j + d
    BY <1>2, <1>4
  <2>2. Before(s[i + d].id, s[j + d].id)
    BY <1>3, <2>1 DEF Ordered
  <2> QED BY <1>3, <2>2
<1>5. Ordered(r)
  BY <1>4 DEF Ordered
<1> QED BY <1>3, <1>5

-----------------------------------------------------------------------------
(* Publication orders the ids.                                                *)
LEMMA BeforeOrders ==
  ASSUME NEW a \in Id, NEW b \in Id, NEW c \in Id
  PROVE  /\ ~Before(a, a)
         /\ Before(a, b) => ~Before(b, a)
         /\ Before(a, b) /\ Before(b, c) => Before(a, c)
         /\ a = b \/ Before(a, b) \/ Before(b, a)
BY DEF Before, Id

(* A tab for which the step does nothing but, perhaps, close its stream, keeps *)
(* its invariant if the buffer gets no new event.                             *)
LEMMA TabStands ==
  ASSUME EventsTypeOK, NEW t \in Tabs, TabInv(t),
         header'[t] = header[t], url'[t] = url[t], lastEventId'[t] = lastEventId[t],
         since'[t] = since[t], heard'[t] = heard[t], wire'[t] = wire[t],
         stream'[t] = "open" => stream[t] = "open",
         \A i \in DOMAIN buffer' : \E j \in DOMAIN buffer : buffer'[i] = buffer[j],
         \A id \in Id : Issued(id) => Issued(id)'
  PROVE  TabInv(t)'
<1>1. HeardInv(t)'
  BY DEF TabInv, HeardInv, EventsTypeOK
<1>2. OrderInv(t)'
  <2>1. wire[t] \in Seq(Event)
    BY DEF EventsTypeOK
  <2>2. \A i \in DOMAIN wire[t] : wire[t][i].id \in Id
    BY <2>1, EventsOfSeq
  <2> QED BY <2>2 DEF TabInv, OrderInv, Ordered
<1>3. WireInv(t)'
  <2>1. ASSUME NEW id, Unskipped(t, id) PROVE Unskipped(t, id)'
    BY <2>1 DEF Unskipped, OnWire
  <2> QED BY <2>1 DEF TabInv, WireInv
<1>4. GapInv(t)'
  BY DEF TabInv, GapInv, Given
<1> QED BY <1>1, <1>2, <1>3, <1>4 DEF TabInv

-----------------------------------------------------------------------------
(* The server's steps.                                                        *)

\* A published event keeps the invariant.
LEMMA PublishInv ==
  ASSUME EventsInv, NEW live \in BOOLEAN, NEW slow \in SUBSET Tabs, Publish(live, slow)
  PROVE  EventsInv'
<1> SUFFICES ASSUME NEW event, event = [id |-> [boot |-> boot, seq |-> seq + 1], live |-> live]
             PROVE  EventsInv'
  OBVIOUS
<1>1. /\ EventsTypeOK /\ BufferInv /\ event \in Event /\ event.id \in Id
      /\ event.id.boot = boot /\ event.id.seq = seq + 1
      /\ boot' = boot /\ seq' = seq + 1 /\ boot \in Nat /\ seq \in Nat
  BY DEF EventsInv, EventsTypeOK, Publish, Event, Id
<1>2. \A id \in Id : Issued(id) => Issued(id)' /\ Before(id, event.id)
  BY <1>1 DEF Issued, Before, Id
<1>3. /\ buffer' \in Seq(Event) /\ Len(buffer') <= BufferSize
      /\ Ordered(buffer')
      /\ \A i \in DOMAIN buffer' :
           buffer'[i] = event \/ \E j \in DOMAIN buffer : buffer'[i] = buffer[j]
  <2>1. CASE live
    BY <1>1, <2>1 DEF Publish, EventsTypeOK, BufferInv
  <2>2. CASE ~live
    <3> DEFINE all == Append(buffer, event)
    <3>1. buffer \in Seq(Event) /\ BufferSize \in Nat
      BY <1>1, StreamAssumption DEF EventsTypeOK
    <3>2. /\ all \in Seq(Event) /\ Len(all) = Len(buffer) + 1
          /\ \A i \in 1..Len(buffer) : all[i] = buffer[i]
          /\ all[Len(buffer) + 1] = event
      BY <1>1, <3>1, AppendProperties
    <3>3. /\ DOMAIN all = 1..(Len(buffer) + 1) /\ DOMAIN buffer = 1..Len(buffer)
          /\ Len(buffer) \in Nat
          /\ \A i \in DOMAIN buffer : buffer[i].id \in Id /\ Issued(buffer[i].id)
      BY <1>1, <3>1, <3>2, EventsOfSeq DEF BufferInv, Issued
    <3>4. Ordered(all)
      <4> SUFFICES ASSUME NEW i \in DOMAIN all, NEW j \in DOMAIN all, i < j
                   PROVE  Before(all[i].id, all[j].id)
        BY DEF Ordered
      <4>1. i \in DOMAIN buffer /\ all[i] = buffer[i]
        BY <3>2, <3>3
      <4>2. CASE j \in DOMAIN buffer
        BY <1>1, <3>2, <3>3, <4>1, <4>2 DEF BufferInv, Ordered
      <4>3. CASE j = Len(buffer) + 1
        BY <1>2, <3>2, <3>3, <4>1, <4>3
      <4> QED BY <3>3, <4>2, <4>3
    <3>5. buffer' = Newest(all, BufferSize)
      BY <2>2 DEF Publish
    <3>6. /\ buffer' \in Seq(Event) /\ Trails(buffer', all)
          /\ Len(buffer') <= BufferSize
      BY <3>1, <3>2, <3>5, NewestTrails
    <3>7. Ordered(buffer') /\ \A i \in DOMAIN buffer' : \E j \in DOMAIN all : buffer'[i] = all[j]
      BY <3>2, <3>4, <3>6, TrailsOrdered
    <3>8. \A j \in DOMAIN all : all[j] = event \/ \E k \in DOMAIN buffer : all[j] = buffer[k]
      BY <3>2, <3>3
    <3> QED BY <3>6, <3>7, <3>8
  <2> QED BY <2>1, <2>2
<1>4. BufferInv'
  <2>1. \A i \in DOMAIN buffer' : buffer'[i].id.boot = boot' /\ buffer'[i].id.seq <= seq'
    <3>1. \A j \in DOMAIN buffer : buffer[j].id.boot = boot /\ buffer[j].id.seq <= seq
                                  /\ buffer[j].id.seq \in Nat
      BY <1>1, EventsOfSeq DEF BufferInv, EventsTypeOK, Id
    <3> QED BY <1>1, <1>3, <3>1
  <2> QED BY <1>3, <2>1 DEF BufferInv, Ordered
<1>5. ASSUME NEW t \in Tabs PROVE wire'[t] \in Seq(Event) /\ TabInv(t)'
  <2>1. /\ TabInv(t) /\ wire[t] \in Seq(Event)
        /\ lastEventId[t] \in Id \cup {NoId} /\ since[t] \in Id \cup {NoId}
        /\ header'[t] = header[t] /\ url'[t] = url[t]
        /\ lastEventId'[t] = lastEventId[t] /\ since'[t] = since[t] /\ heard'[t] = heard[t]
        /\ heard[t] \in SUBSET Id
    BY DEF EventsInv, EventsTypeOK, Publish, tabVars
  <2>2. HeardInv(t)'
    BY <1>2, <2>1 DEF TabInv, HeardInv
  <2>3. Given(t, event.id)'
    BY <1>2, <2>1, StreamAssumption DEF Given, TabInv, HeardInv, Id
  <2>4. GapInv(t)'
    <3>1. \A id : Given(t, id) => Given(t, id)'
      BY <2>1 DEF Given
    <3> QED BY <1>3, <2>1, <2>3, <3>1 DEF TabInv, GapInv
  <2>5. CASE stream[t] # "open"
    <3>1. wire'[t] = wire[t] /\ stream'[t] # "open"
      BY <2>5 DEF Publish
    <3>2. \A i \in DOMAIN wire[t] : wire[t][i].id \in Id /\ Issued(wire[t][i].id)
      BY <2>1, EventsOfSeq DEF TabInv, OrderInv
    <3>3. OrderInv(t)'
      BY <1>2, <2>1, <3>1, <3>2 DEF TabInv, OrderInv, Ordered
    <3>4. Unskipped(t, event.id)'
      BY <1>1, <1>2, <2>1, <3>1, <3>2, BeforeOrders DEF Unskipped
    <3>5. \A id : Unskipped(t, id) => Unskipped(t, id)'
      BY <2>1, <3>1 DEF Unskipped, OnWire
    <3>6. WireInv(t)'
      BY <1>3, <2>1, <3>4, <3>5 DEF WireInv, TabInv
    <3> QED BY <2>1, <2>2, <2>4, <3>1, <3>3, <3>6 DEF TabInv
  <2>6. CASE stream[t] = "open"
    <3>1. wire'[t] = Append(wire[t], event)
      BY <2>6 DEF Publish
    <3>2. /\ wire'[t] \in Seq(Event) /\ Len(wire'[t]) = Len(wire[t]) + 1
          /\ \A i \in 1..Len(wire[t]) : wire'[t][i] = wire[t][i]
          /\ wire'[t][Len(wire[t]) + 1] = event
      BY <1>1, <2>1, <3>1, AppendProperties
    <3>3. /\ DOMAIN wire'[t] = 1..(Len(wire[t]) + 1) /\ DOMAIN wire[t] = 1..Len(wire[t])
          /\ Len(wire[t]) \in Nat
          /\ \A i \in DOMAIN wire[t] : wire[t][i].id \in Id /\ Issued(wire[t][i].id)
      BY <2>1, <3>2, EventsOfSeq DEF TabInv, OrderInv
    <3>4. /\ \A i \in DOMAIN wire'[t] : \/ i \in DOMAIN wire[t] /\ wire'[t][i] = wire[t][i]
                                        \/ i = Len(wire[t]) + 1 /\ wire'[t][i] = event
          /\ \A i \in DOMAIN wire[t] : i \in DOMAIN wire'[t] /\ i < Len(wire[t]) + 1
          /\ Len(wire[t]) + 1 \in DOMAIN wire'[t]
      BY <3>2, <3>3
    <3>5. Issued(event.id)'
      BY <1>1 DEF Issued
    <3>6. OrderInv(t)'
      <4>1. Ordered(wire[t])'
        BY <1>2, <2>1, <3>3, <3>4 DEF TabInv, OrderInv, Ordered
      <4>2. (\A i \in DOMAIN wire[t] : Issued(wire[t][i].id))'
        BY <1>2, <3>3, <3>4, <3>5 DEF Issued
      <4>3. \A i \in DOMAIN wire'[t], old \in heard[t] : Before(old, wire'[t][i].id)
        <5>1. \A old \in heard[t] : Issued(old)
          BY <1>1, <2>1, StreamAssumption, BeforeOrders
             DEF TabInv, HeardInv, Issued, Before, Id
        <5> QED BY <1>2, <2>1, <3>4, <5>1 DEF TabInv, OrderInv
      <4>4. \A i \in DOMAIN wire'[t] :
              lastEventId[t] # NoId => Before(lastEventId[t], wire'[t][i].id)
        BY <1>2, <2>1, <3>4 DEF TabInv, OrderInv, HeardInv
      <4> QED BY <2>1, <4>1, <4>2, <4>3, <4>4 DEF OrderInv
    <3>7. OnWire(t, event.id)'
      BY <3>4 DEF OnWire
    <3>8. ASSUME NEW i \in DOMAIN buffer, NEW id, id = buffer[i].id
          PROVE  Unskipped(t, id)'
      <4>1. \A x : OnWire(t, x) => OnWire(t, x)'
        BY <3>4 DEF OnWire
      <4>2. id \in Id /\ Before(id, event.id)
        BY <1>1, <1>2, <3>8, EventsOfSeq DEF EventsTypeOK, BufferInv, Issued
      <4>3. Unskipped(t, id)
        BY <2>1, <3>8 DEF TabInv, WireInv
      <4>4. \A j \in DOMAIN wire'[t] : Before(wire'[t][j].id, id)
              => j \in DOMAIN wire[t] /\ wire'[t][j] = wire[t][j]
        BY <1>1, <3>4, <4>2, BeforeOrders
      <4> QED BY <2>1, <2>6, <4>1, <4>3, <4>4 DEF Unskipped
    <3>9. Unskipped(t, event.id)'
      BY <3>7 DEF Unskipped
    <3>10. WireInv(t)'
      BY <1>3, <3>8, <3>9 DEF WireInv
    <3> QED BY <2>2, <2>4, <3>2, <3>6, <3>10 DEF TabInv
  <2> QED BY <2>5, <2>6
<1>6. EventsTypeOK'
  BY <1>1, <1>3, <1>5 DEF EventsTypeOK, Publish, tabVars
<1> QED BY <1>4, <1>5, <1>6 DEF EventsInv

\* An event for another user only uses up a number.
LEMMA PublishElsewhereInv ==
  ASSUME EventsInv, PublishElsewhere
  PROVE  EventsInv'
<1>1. /\ EventsTypeOK /\ BufferInv
      /\ boot' = boot /\ seq' = seq + 1 /\ boot \in Nat /\ seq \in Nat
      /\ buffer' = buffer /\ stream' = stream /\ wire' = wire /\ cuts' = cuts
      /\ header' = header /\ url' = url /\ lastEventId' = lastEventId
      /\ since' = since /\ heard' = heard
  BY DEF EventsInv, EventsTypeOK, PublishElsewhere, tabVars
<1>2. \A id \in Id : Issued(id) => Issued(id)'
  BY <1>1 DEF Issued, Id
<1>3. BufferInv'
  <2>1. \A i \in DOMAIN buffer : buffer[i].id.seq \in Nat
    BY <1>1, EventsOfSeq DEF EventsTypeOK, Id
  <2> QED BY <1>1, <2>1 DEF BufferInv, Ordered
<1>4. ASSUME NEW t \in Tabs PROVE TabInv(t)'
  <2>1. TabInv(t)
    BY DEF EventsInv
  <2> QED BY <1>1, <1>2, <2>1, TabStands
<1>5. EventsTypeOK'
  BY <1>1 DEF EventsTypeOK
<1> QED BY <1>3, <1>4, <1>5 DEF EventsInv

\* Forgetting an old event keeps the invariant.
LEMMA AgeInv ==
  ASSUME EventsInv, Age
  PROVE  EventsInv'
<1>1. /\ EventsTypeOK /\ BufferInv /\ buffer # <<>> /\ buffer' = Tail(buffer)
      /\ boot' = boot /\ seq' = seq /\ stream' = stream /\ wire' = wire
      /\ header' = header /\ url' = url /\ lastEventId' = lastEventId
      /\ since' = since /\ heard' = heard /\ cuts' \in 0..MaxCuts
  BY StreamAssumption DEF EventsInv, EventsTypeOK, Age, Cut, tabVars
<1>2. buffer \in Seq(Event) /\ Ordered(buffer)
  BY <1>1 DEF EventsTypeOK, BufferInv
<1>3. buffer' \in Seq(Event) /\ Trails(buffer', buffer) /\ Len(buffer') <= BufferSize
  BY <1>1, <1>2, TailTrails, EventsOfSeq, StreamAssumption DEF EventsTypeOK
<1>4. Ordered(buffer') /\ \A i \in DOMAIN buffer' : \E j \in DOMAIN buffer : buffer'[i] = buffer[j]
  BY <1>2, <1>3, TrailsOrdered
<1>5. BufferInv'
  BY <1>1, <1>4 DEF BufferInv, Ordered
<1>6. ASSUME NEW t \in Tabs PROVE TabInv(t)'
  <2>1. TabInv(t) /\ \A id \in Id : Issued(id) => Issued(id)'
    BY <1>1 DEF EventsInv, Issued
  <2> QED BY <1>1, <1>4, <2>1, TabStands
<1>7. EventsTypeOK'
  BY <1>1, <1>3 DEF EventsTypeOK
<1> QED BY <1>5, <1>6, <1>7 DEF EventsInv

\* A restarted server numbers from one again under a new boot.
LEMMA RestartInv ==
  ASSUME EventsInv, Restart
  PROVE  EventsInv'
<1>1. /\ EventsTypeOK /\ boot' = boot + 1 /\ seq' = 0 /\ boot \in Nat
      /\ buffer' = <<>> /\ wire' = wire /\ cuts' = cuts
      /\ stream' = [t \in Tabs |-> IF stream[t] = "open" THEN "dropped" ELSE stream[t]]
      /\ header' = header /\ url' = url /\ lastEventId' = lastEventId
      /\ since' = since /\ heard' = heard
  BY DEF EventsInv, EventsTypeOK, Restart, tabVars
<1>2. DOMAIN buffer' = {} /\ buffer' \in Seq(Event) /\ Len(buffer') <= BufferSize
  BY <1>1, EmptySeq, EventsOfSeq, StreamAssumption
<1>3. BufferInv'
  BY <1>2 DEF BufferInv, Ordered
<1>4. ASSUME NEW t \in Tabs PROVE TabInv(t)'
  <2>1. TabInv(t) /\ \A id \in Id : Issued(id) => Issued(id)'
    BY <1>1 DEF EventsInv, Issued, Id
  <2> QED BY <1>1, <1>2, <2>1, TabStands
<1>5. EventsTypeOK'
  BY <1>1, <1>2 DEF EventsTypeOK
<1> QED BY <1>3, <1>4, <1>5 DEF EventsInv

-----------------------------------------------------------------------------
(* The tab's steps.                                                           *)

(* A step of one tab that leaves the server alone keeps the invariant if it   *)
(* keeps that tab's part of it.                                               *)
LEMMA OneTab ==
  ASSUME EventsInv, NEW t \in Tabs, TabInv(t)', EventsTypeOK',
         UNCHANGED serverVars,
         \A u \in Tabs \ {t} :
           /\ header'[u] = header[u] /\ url'[u] = url[u]
           /\ lastEventId'[u] = lastEventId[u] /\ since'[u] = since[u]
           /\ heard'[u] = heard[u] /\ wire'[u] = wire[u] /\ stream'[u] = stream[u]
  PROVE  EventsInv'
<1>1. buffer' = buffer /\ boot' = boot /\ seq' = seq
  BY DEF serverVars
<1>2. BufferInv'
  BY <1>1 DEF EventsInv, BufferInv, Ordered
<1>3. ASSUME NEW u \in Tabs \ {t} PROVE TabInv(u)'
  <2>1. TabInv(u) /\ EventsTypeOK /\ \A id \in Id : Issued(id) => Issued(id)'
    BY <1>1 DEF EventsInv, Issued
  <2> QED BY <1>1, <2>1, TabStands
<1> QED BY <1>2, <1>3 DEF EventsInv

(* Opening a stream from the last event heard puts on the wire exactly the    *)
(* later events of the buffer.                                                *)
LEMMA OpensInv ==
  ASSUME EventsInv, NEW t \in Tabs, Opens(t, lastEventId[t]),
         lastEventId' = lastEventId, since' = since, heard' = heard,
         IF header'[t] # NoId THEN header'[t] = lastEventId[t] ELSE url'[t] = lastEventId[t],
         header' \in [Tabs -> Id \cup {NoId}], url' \in [Tabs -> Id \cup {NoId}],
         \A u \in Tabs \ {t} : header'[u] = header[u] /\ url'[u] = url[u],
         UNCHANGED serverVars, cuts' = cuts
  PROVE  EventsInv'
<1>1. /\ EventsTypeOK /\ BufferInv /\ TabInv(t) /\ buffer \in Seq(Event)
      /\ lastEventId[t] \in Id \cup {NoId} /\ boot \in Nat /\ seq \in Nat
      /\ buffer' = buffer /\ boot' = boot /\ seq' = seq
  BY DEF EventsInv, EventsTypeOK, serverVars
<1>2. PICK k \in 0..Len(buffer) :
        /\ \A i \in 1..Len(buffer) : i > k <=> Missed(lastEventId[t], buffer[i])
        /\ wire' = [wire EXCEPT ![t] = SubSeq(buffer, k + 1, Len(buffer))]
  BY DEF Opens
<1>3. /\ wire'[t] \in Seq(Event) /\ Trails(wire'[t], buffer)
      /\ Len(wire'[t]) = Len(buffer) - k
      /\ \A i \in 1..(Len(buffer) - k) : wire'[t][i] = buffer[i + k]
  BY <1>1, <1>2, SubSeqTrails DEF EventsTypeOK
<1>4. /\ Len(buffer) \in Nat /\ DOMAIN buffer = 1..Len(buffer) /\ k \in Nat /\ k <= Len(buffer)
      /\ DOMAIN wire'[t] = 1..(Len(buffer) - k)
      /\ \A i \in DOMAIN buffer : buffer[i].id \in Id
  BY <1>1, <1>3, EventsOfSeq
<1>5. ASSUME NEW i \in DOMAIN wire'[t]
      PROVE  /\ i + k \in DOMAIN buffer /\ wire'[t][i] = buffer[i + k]
             /\ Missed(lastEventId[t], wire'[t][i])
  <2>1. i \in 1..(Len(buffer) - k) /\ i + k \in 1..Len(buffer) /\ i + k > k
    BY <1>4
  <2>2. wire'[t][i] = buffer[i + k]
    BY <1>3, <2>1
  <2> QED BY <1>2, <1>4, <2>1, <2>2
<1>6. ASSUME NEW i \in DOMAIN buffer, Missed(lastEventId[t], buffer[i])
      PROVE  i - k \in DOMAIN wire'[t] /\ wire'[t][i - k] = buffer[i]
  <2>1. i > k /\ i \in 1..Len(buffer)
    BY <1>2, <1>4, <1>6
  <2>2. i - k \in 1..(Len(buffer) - k) /\ (i - k) + k = i
    BY <1>4, <2>1
  <2> QED BY <1>3, <1>4, <2>2
<1>7. \A i \in DOMAIN buffer : lastEventId[t] # NoId =>
        (Missed(lastEventId[t], buffer[i]) <=> Before(lastEventId[t], buffer[i].id))
  BY <1>1, <1>4 DEF Missed, Before, TabInv, HeardInv, Issued, BufferInv, Id
<1>8. HeardInv(t)'
  BY <1>1 DEF TabInv, HeardInv, Issued
<1>9. OrderInv(t)'
  <2>1. Ordered(wire'[t])
    BY <1>1, <1>3, TrailsOrdered DEF BufferInv
  <2>2. (\A i \in DOMAIN wire[t] : Issued(wire[t][i].id))'
    BY <1>1, <1>5 DEF BufferInv, Issued
  <2>3. \A i \in DOMAIN wire'[t] :
          /\ wire'[t][i].id \in Id /\ lastEventId[t] # NoId
          /\ Before(lastEventId[t], wire'[t][i].id)
    BY <1>4, <1>5, <1>7 DEF Missed
  <2>4. \A i \in DOMAIN wire'[t], old \in heard[t] : Before(old, wire'[t][i].id)
    <3>1. heard[t] \in SUBSET Id
      BY <1>1 DEF EventsTypeOK
    <3> QED BY <1>1, <2>3, <3>1, BeforeOrders DEF TabInv, HeardInv
  <2> QED BY <2>1, <2>2, <2>3, <2>4 DEF OrderInv, Ordered
<1>10. WireInv(t)'
  <2> SUFFICES ASSUME NEW i \in DOMAIN buffer, NEW id, id = buffer[i].id
               PROVE  Unskipped(t, id)'
    BY <1>1 DEF WireInv
  <2>1. lastEventId[t] # NoId /\ Before(lastEventId[t], id) => OnWire(t, id)'
    BY <1>6, <1>7 DEF OnWire
  <2>2. ASSUME NEW j \in DOMAIN wire'[t], Before(wire'[t][j].id, id)
        PROVE  OnWire(t, id)'
    <3>1. /\ lastEventId[t] # NoId /\ Before(lastEventId[t], wire'[t][j].id)
          /\ wire'[t][j].id \in Id /\ id \in Id
      BY <1>4, <1>5, <1>7 DEF Missed
    <3>2. Before(lastEventId[t], id)
      BY <1>1, <2>2, <3>1, BeforeOrders
    <3> QED BY <2>1, <3>1, <3>2
  <2> QED BY <2>1, <2>2 DEF Unskipped
<1>11. GapInv(t)'
  BY <1>1 DEF TabInv, GapInv, Given
<1>12. EventsTypeOK'
  BY <1>1, <1>2, <1>3 DEF EventsTypeOK, Opens
<1>13. \A u \in Tabs \ {t} : wire'[u] = wire[u] /\ stream'[u] = stream[u]
  BY <1>1, <1>2 DEF EventsTypeOK, Opens
<1>14. TabInv(t)'
  BY <1>8, <1>9, <1>10, <1>11 DEF TabInv
<1> QED BY <1>12, <1>13, <1>14, OneTab

\* A stream reopened by the browser is sent what its page missed.
LEMMA ReconnectInv ==
  ASSUME EventsInv, NEW t \in Tabs, Reconnect(t)
  PROVE  EventsInv'
<1>1. HeardInv(t) /\ EventsTypeOK
  BY DEF EventsInv, TabInv
<1>2. Opens(t, lastEventId[t])
  BY <1>1 DEF Reconnect, HeardInv
<1> QED BY <1>1, <1>2, OpensInv DEF Reconnect, tabVars, HeardInv, EventsTypeOK

\* So is a stream reopened by the page itself.
LEMMA ReplaceInv ==
  ASSUME EventsInv, NEW t \in Tabs, Replace(t)
  PROVE  EventsInv'
<1>1. EventsTypeOK
  BY DEF EventsInv
<1> QED BY <1>1, OpensInv DEF Replace, EventsTypeOK

(* The first frame of the wire becomes the last event heard.                  *)
LEMMA DeliverInv ==
  ASSUME EventsInv, NEW t \in Tabs, Deliver(t)
  PROVE  EventsInv'
<1>1. /\ EventsTypeOK /\ TabInv(t) /\ wire[t] \in Seq(Event) /\ wire[t] # <<>>
      /\ UNCHANGED serverVars /\ cuts' = cuts /\ stream' = stream /\ url' = url
      /\ boot' = boot /\ seq' = seq /\ buffer' = buffer /\ buffer \in Seq(Event)
      /\ lastEventId[t] \in Id \cup {NoId} /\ since[t] \in Id \cup {NoId}
      /\ heard[t] \in SUBSET Id
  BY DEF EventsInv, EventsTypeOK, Deliver, serverVars
<1> SUFFICES ASSUME NEW id, id = Head(wire[t]).id
             PROVE  EventsInv'
  OBVIOUS
<1>2. /\ wire' = [wire EXCEPT ![t] = Tail(wire[t])]
      /\ header' = [header EXCEPT ![t] = id]
      /\ lastEventId' = [lastEventId EXCEPT ![t] = id]
      /\ heard' = [heard EXCEPT ![t] = heard[t] \cup {id}]
      /\ since' = [since EXCEPT ![t] = IF since[t] = NoId THEN id ELSE since[t]]
  BY DEF Deliver
<1>3. /\ Tail(wire[t]) \in Seq(Event) /\ Len(Tail(wire[t])) = Len(wire[t]) - 1
      /\ wire[t][1].id = id /\ 1 \in DOMAIN wire[t] /\ id \in Id /\ id # NoId
      /\ \A i \in 1..(Len(wire[t]) - 1) : Tail(wire[t])[i] = wire[t][i + 1]
  BY <1>1, TailTrails, StreamAssumption DEF Event, Id
<1>4. /\ DOMAIN wire[t] = 1..Len(wire[t]) /\ Len(wire[t]) \in Nat \ {0}
      /\ \A i \in DOMAIN wire[t] : wire[t][i].id \in Id
      /\ wire'[t] = Tail(wire[t]) /\ wire'[t] \in Seq(Event)
      /\ DOMAIN wire'[t] = 1..(Len(wire[t]) - 1)
  BY <1>1, <1>2, <1>3, EventsOfSeq DEF EventsTypeOK
<1>5. /\ header'[t] = id /\ lastEventId'[t] = id /\ heard'[t] = heard[t] \cup {id}
      /\ since'[t] = IF since[t] = NoId THEN id ELSE since[t]
  BY <1>1, <1>2 DEF EventsTypeOK
<1>6. ASSUME NEW i \in DOMAIN wire'[t]
      PROVE  /\ i + 1 \in DOMAIN wire[t] /\ wire'[t][i] = wire[t][i + 1]
             /\ Before(id, wire'[t][i].id)
  <2>1. i \in 1..(Len(wire[t]) - 1) /\ i + 1 \in 1..Len(wire[t]) /\ 1 < i + 1
    BY <1>4
  <2>2. wire'[t][i] = wire[t][i + 1]
    BY <1>3, <1>4, <2>1
  <2> QED BY <1>1, <1>3, <1>4, <2>1, <2>2 DEF TabInv, OrderInv, Ordered
<1>7. ASSUME NEW x \in Id, OnWire(t, x), Before(id, x)
      PROVE  OnWire(t, x)'
  <2>1. PICK k \in DOMAIN wire[t] : wire[t][k].id = x
    BY <1>7 DEF OnWire
  <2>2. k # 1
    BY <1>3, <1>7, <2>1, BeforeOrders
  <2>3. k - 1 \in DOMAIN wire'[t] /\ wire'[t][k - 1] = wire[t][k]
    <3>1. k - 1 \in 1..(Len(wire[t]) - 1) /\ (k - 1) + 1 = k
      BY <1>4, <2>2
    <3> QED BY <1>3, <1>4, <3>1
  <2> QED BY <2>1, <2>3 DEF OnWire
<1>8. Issued(id)
  BY <1>1, <1>3 DEF TabInv, OrderInv
<1>9. HeardInv(t)'
  <2>1. \A old \in heard[t] \cup {id} : ~Before(id, old)
    BY <1>1, <1>3, BeforeOrders DEF TabInv, OrderInv
  <2> QED BY <1>1, <1>3, <1>5, <1>8, <2>1, StreamAssumption DEF HeardInv, Issued
<1>10. OrderInv(t)'
  <2>1. Ordered(wire'[t])
    <3>1. Ordered(wire[t]) /\ Trails(Tail(wire[t]), wire[t])
      BY <1>1, TailTrails DEF TabInv, OrderInv
    <3> QED BY <1>1, <1>4, <3>1, TrailsOrdered
  <2>2. (\A i \in DOMAIN wire[t] : Issued(wire[t][i].id))'
    BY <1>1, <1>6 DEF TabInv, OrderInv, Issued
  <2>3. \A i \in DOMAIN wire'[t], old \in heard'[t] : Before(old, wire'[t][i].id)
    BY <1>1, <1>5, <1>6 DEF TabInv, OrderInv
  <2> QED BY <1>5, <1>6, <2>1, <2>2, <2>3 DEF OrderInv, Ordered
<1>11. WireInv(t)'
  <2> SUFFICES ASSUME NEW i \in DOMAIN buffer, NEW x, x = buffer[i].id
               PROVE  Unskipped(t, x)'
    BY <1>1 DEF WireInv
  <2>1. x \in Id /\ Unskipped(t, x)
    BY <1>1, EventsOfSeq DEF TabInv, WireInv
  <2>2. ASSUME NEW k \in DOMAIN wire'[t], Before(id, x), Before(x, wire'[t][k].id)
        PROVE  OnWire(t, x)'
    BY <1>3, <1>6, <1>7, <2>1, <2>2 DEF Unskipped
  <2>3. ASSUME stream[t] = "open", Before(id, x)
        PROVE  OnWire(t, x)'
    BY <1>3, <1>7, <2>1, <2>3 DEF Unskipped
  <2>4. \A j \in DOMAIN wire'[t] : Before(wire'[t][j].id, x) => Before(id, x)
    BY <1>3, <1>4, <1>6, <2>1, BeforeOrders
  <2> QED BY <1>1, <1>5, <2>2, <2>3, <2>4 DEF Unskipped
<1>12. GapInv(t)'
  <2> SUFFICES ASSUME NEW i \in DOMAIN buffer, NEW x, x = buffer[i].id
               PROVE  Given(t, x)'
    BY <1>1 DEF GapInv
  <2>1. x \in Id /\ Unskipped(t, x) /\ Given(t, x)
    BY <1>1, EventsOfSeq DEF TabInv, WireInv, GapInv
  <2> SUFFICES ASSUME ~Before(x, since'[t]), ~Before(id, x), x # id
               PROVE  x \in heard[t]
    BY <1>5 DEF Given
  <2>2. Before(x, id)
    BY <1>3, <2>1, BeforeOrders
  <2>3. since[t] # NoId /\ lastEventId[t] # NoId
    BY <1>1, <1>5, <2>2 DEF TabInv, HeardInv
  <2>4. ~OnWire(t, x)
    <3>1. \A k \in DOMAIN wire[t] : k = 1 \/ Before(id, wire[t][k].id)
      BY <1>1, <1>3, <1>4 DEF TabInv, OrderInv, Ordered
    <3> QED BY <1>3, <1>4, <2>1, <2>2, <3>1, BeforeOrders DEF OnWire
  <2>5. ~Before(lastEventId[t], x)
    BY <1>3, <2>1, <2>2, <2>3, <2>4 DEF Unskipped
  <2> QED BY <1>5, <2>1, <2>3, <2>5 DEF Given
<1>13. EventsTypeOK'
  BY <1>1, <1>2, <1>3 DEF EventsTypeOK
<1>14. TabInv(t)'
  BY <1>9, <1>10, <1>11, <1>12 DEF TabInv
<1>15. \A u \in Tabs \ {t} :
         /\ header'[u] = header[u] /\ url'[u] = url[u]
         /\ lastEventId'[u] = lastEventId[u] /\ since'[u] = since[u]
         /\ heard'[u] = heard[u] /\ wire'[u] = wire[u] /\ stream'[u] = stream[u]
  BY <1>1, <1>2 DEF EventsTypeOK
<1> QED BY <1>1, <1>13, <1>14, <1>15, OneTab

(* An empty wire and a stream that is not open ask for nothing.               *)
LEMMA EmptyWire ==
  ASSUME NEW t \in Tabs, wire'[t] = <<>>, stream'[t] = "closed"
  PROVE  OrderInv(t)' /\ WireInv(t)'
<1>1. DOMAIN wire'[t] = {}
  BY EmptySeq, EventsOfSeq
<1> QED BY <1>1 DEF OrderInv, Ordered, WireInv, Unskipped

\* A lost stream leaves a page with what it was given.
LEMMA LoseInv ==
  ASSUME EventsInv, NEW t \in Tabs, Lose(t)
  PROVE  EventsInv'
<1>1. /\ EventsTypeOK /\ TabInv(t) /\ UNCHANGED serverVars /\ cuts' \in 0..MaxCuts
      /\ boot' = boot /\ seq' = seq /\ buffer' = buffer
      /\ stream' = [stream EXCEPT ![t] = "closed"] /\ wire' = [wire EXCEPT ![t] = <<>>]
      /\ header' = header /\ url' = url /\ lastEventId' = lastEventId
      /\ since' = since /\ heard' = heard
  BY StreamAssumption DEF EventsInv, EventsTypeOK, Lose, Cut, tabVars, serverVars
<1>2. OrderInv(t)' /\ WireInv(t)'
  BY <1>1, EmptyWire DEF EventsTypeOK
<1>3. HeardInv(t)' /\ GapInv(t)'
  BY <1>1 DEF TabInv, HeardInv, GapInv, Given, Issued
<1>4. EventsTypeOK'
  BY <1>1, EmptySeq DEF EventsTypeOK
<1>5. TabInv(t)'
  BY <1>2, <1>3 DEF TabInv
<1> QED BY <1>1, <1>4, <1>5, OneTab DEF EventsTypeOK

\* A new page has been given nothing.
LEMMA NewPageInv ==
  ASSUME EventsInv, NEW t \in Tabs, NewPage(t)
  PROVE  EventsInv'
<1>1. /\ EventsTypeOK /\ UNCHANGED serverVars /\ cuts' \in 0..MaxCuts
      /\ stream' = [stream EXCEPT ![t] = "closed"] /\ wire' = [wire EXCEPT ![t] = <<>>]
      /\ url' = [url EXCEPT ![t] = NoId] /\ header' = [header EXCEPT ![t] = NoId]
      /\ lastEventId' = [lastEventId EXCEPT ![t] = NoId]
      /\ heard' = [heard EXCEPT ![t] = {}] /\ since' = [since EXCEPT ![t] = NoId]
  BY StreamAssumption DEF EventsInv, EventsTypeOK, NewPage, Cut
<1>2. OrderInv(t)' /\ WireInv(t)'
  BY <1>1, EmptyWire DEF EventsTypeOK
<1>3. HeardInv(t)' /\ GapInv(t)'
  BY <1>1 DEF EventsTypeOK, HeardInv, GapInv, Given
<1>4. EventsTypeOK'
  BY <1>1, EmptySeq DEF EventsTypeOK, serverVars
<1>5. TabInv(t)'
  BY <1>2, <1>3 DEF TabInv
<1> QED BY <1>1, <1>4, <1>5, OneTab DEF EventsTypeOK

-----------------------------------------------------------------------------
(* The theorems.                                                              *)

\* The invariant holds at first.
LEMMA InitInv == EventsInit => EventsInv
<1> SUFFICES ASSUME EventsInit PROVE EventsInv
  OBVIOUS
<1>1. <<>> \in Seq(Event) /\ DOMAIN <<>> = {} /\ Len(<<>>) = 0
  BY EmptySeq, EventsOfSeq
<1>2. EventsTypeOK
  BY <1>1, StreamAssumption DEF EventsInit, EventsTypeOK
<1>3. BufferInv
  BY <1>1 DEF EventsInit, BufferInv, Ordered
<1>4. ASSUME NEW t \in Tabs PROVE TabInv(t)
  <2>1. buffer = <<>> /\ wire[t] = <<>>
    BY DEF EventsInit
  <2> QED BY <1>1, <2>1 DEF EventsInit, TabInv, HeardInv, OrderInv, Ordered, WireInv, GapInv
<1> QED BY <1>2, <1>3, <1>4 DEF EventsInv

\* Every step preserves the invariant.
LEMMA NextInv == EventsInv /\ [EventsNext]_eventVars => EventsInv'
<1> SUFFICES ASSUME EventsInv, [EventsNext]_eventVars PROVE EventsInv'
  OBVIOUS
<1>1. CASE ServerNext
  BY <1>1, PublishInv, PublishElsewhereInv, AgeInv, RestartInv DEF ServerNext
<1>2. ASSUME NEW t \in Tabs, TabNext(t) PROVE EventsInv'
  BY <1>2, ReconnectInv, ReplaceInv, DeliverInv, LoseInv, NewPageInv DEF TabNext
<1>3. CASE UNCHANGED eventVars
  <2>1. ASSUME NEW t \in Tabs PROVE TabInv(t)'
    BY <1>3 DEF EventsInv, TabInv, HeardInv, Issued, OrderInv, Ordered, WireInv,
       Unskipped, OnWire, GapInv, Given, eventVars, serverVars, tabVars
  <2> QED BY <1>3, <2>1 DEF EventsInv, EventsTypeOK, BufferInv, Ordered, eventVars,
             serverVars, tabVars
<1> QED BY <1>1, <1>2, <1>3 DEF EventsNext

(* The state of server, streams and pages stays well typed.                   *)
THEOREM EventsTypeCorrect == EventsSafety => []EventsTypeOK
<1>1. EventsInv => EventsTypeOK
  BY DEF EventsInv
<1> QED BY <1>1, InitInv, NextInv, PTL DEF EventsSafety

(* A page is given each event at most once and in order, whatever is lost,    *)
(* replayed and restarted.                                                    *)
THEOREM EventsOnceInOrder == EventsSafety => []OnceInOrder
<1>1. EventsInv => OnceInOrder
  BY DEF EventsInv, TabInv, OrderInv, Ordered, OnceInOrder
<1> QED BY <1>1, InitInv, NextInv, PTL DEF EventsSafety

(* Between the first event a page was given and the last, it has every one    *)
(* the server still keeps.                                                    *)
THEOREM EventsNoGap == EventsSafety => []NoGap
<1>1. EventsInv => NoGap
  BY DEF EventsInv, TabInv, GapInv, Given, NoGap
<1> QED BY <1>1, InitInv, NextInv, PTL DEF EventsSafety

(* No event that was only for the pages open at the time is kept for replay.  *)
KeptForReplay == \A i \in DOMAIN buffer : ~buffer[i].live

LEMMA KeptStep == EventsTypeOK /\ KeptForReplay /\ [EventsNext]_eventVars => KeptForReplay'
<1> SUFFICES ASSUME EventsTypeOK, KeptForReplay, [EventsNext]_eventVars
             PROVE  KeptForReplay'
  OBVIOUS
<1>1. ASSUME NEW live \in BOOLEAN, NEW slow \in SUBSET Tabs, Publish(live, slow)
      PROVE  KeptForReplay'
  <2> DEFINE event == [id |-> [boot |-> boot, seq |-> seq + 1], live |-> live]
             longer == Append(buffer, event)
  <2>1. CASE live
    BY <1>1, <2>1 DEF Publish, KeptForReplay
  <2>2. CASE ~live
    <3>1. /\ event \in Event /\ longer \in Seq(Event) /\ Len(longer) = Len(buffer) + 1
          /\ \A i \in 1..Len(buffer) : longer[i] = buffer[i]
          /\ longer[Len(buffer) + 1] = event /\ DOMAIN longer = 1..Len(longer)
      BY <1>1 DEF EventsTypeOK, Event, Id
    <3>2. \A i \in DOMAIN longer : ~longer[i].live
      BY <2>2, <3>1 DEF KeptForReplay, EventsTypeOK
    <3>3. buffer' = Newest(longer, BufferSize)
      BY <1>1, <2>2 DEF Publish
    <3> HIDE DEF longer
    <3>4. \A i \in DOMAIN buffer' : \E j \in DOMAIN longer : buffer'[i] = longer[j]
      <4>1. CASE Len(longer) <= BufferSize
        BY <3>3, <4>1 DEF Newest
      <4>2. CASE ~(Len(longer) <= BufferSize)
        <5> DEFINE n == Len(longer) - BufferSize
        <5>1. /\ buffer' = SubSeq(longer, n + 1, Len(longer)) /\ n \in Nat /\ Len(longer) \in Nat
              /\ n <= Len(longer)
          BY <3>1, <3>3, <4>2, StreamAssumption DEF Newest
        <5> HIDE DEF n
        <5>2. /\ DOMAIN buffer' = 1..(Len(longer) - n)
              /\ \A i \in 1..(Len(longer) - n) : buffer'[i] = longer[i + n] /\ i + n \in 1..Len(longer)
          BY <3>1, <5>1
        <5> QED BY <3>1, <5>2
      <4> QED BY <4>1, <4>2
    <3> QED BY <3>2, <3>4 DEF KeptForReplay
  <2> QED BY <2>1, <2>2
<1>2. CASE Age
  <2>1. /\ buffer' = Tail(buffer) /\ buffer # <<>> /\ buffer \in Seq(Event)
    BY <1>2 DEF Age, EventsTypeOK
  <2>2. \A i \in DOMAIN buffer' : i + 1 \in DOMAIN buffer /\ buffer'[i] = buffer[i + 1]
    BY <2>1
  <2> QED BY <2>2 DEF KeptForReplay
<1>3. CASE Restart
  BY <1>3 DEF Restart, KeptForReplay
<1>4. CASE PublishElsewhere \/ (\E t \in Tabs : TabNext(t)) \/ UNCHANGED eventVars
  <2>1. UNCHANGED buffer
    BY <1>4 DEF PublishElsewhere, TabNext, Reconnect, Replace, Deliver, Lose, NewPage, Opens,
                eventVars, serverVars
  <2> QED BY <2>1 DEF KeptForReplay
<1> QED BY <1>1, <1>2, <1>3, <1>4 DEF EventsNext, ServerNext

(* A press or a notice for the pages open at the time is never replayed: what *)
(* a stream opens with was kept, and they are not (deskEvents.ts:93).         *)
THEOREM EventsNeverReplayed == EventsSafety => NeverReplayed
<1> DEFINE Fresh == \A t \in Tabs : stream[t] = "closed" /\ stream'[t] = "open"
                      => \A i \in DOMAIN wire'[t] : ~wire'[t][i].live
<1>1. EventsInit => KeptForReplay
  BY DEF EventsInit, KeptForReplay
<1>2. EventsTypeOK /\ KeptForReplay /\ [EventsNext]_eventVars => [Fresh]_eventVars
  <2> SUFFICES ASSUME EventsTypeOK, KeptForReplay, EventsNext, NEW t \in Tabs,
                      stream[t] = "closed", stream'[t] = "open"
               PROVE  \A i \in DOMAIN wire'[t] : ~wire'[t][i].live
    BY DEF eventVars
  <2>1. Reconnect(t) \/ Replace(t)
    BY DEF EventsNext, ServerNext, Publish, PublishElsewhere, Age, Restart, TabNext, Reconnect,
           Replace, Opens, Deliver, Lose, NewPage, EventsTypeOK
  <2>2. PICK k \in 0..Len(buffer) : wire' = [wire EXCEPT ![t] = SubSeq(buffer, k + 1, Len(buffer))]
    BY <2>1 DEF Reconnect, Replace, Opens
  <2>3. wire'[t] = SubSeq(buffer, k + 1, Len(buffer)) /\ buffer \in Seq(Event)
    BY <2>2 DEF EventsTypeOK
  <2>4. \A i \in DOMAIN wire'[t] : i + k \in DOMAIN buffer /\ wire'[t][i] = buffer[i + k]
    BY <2>3
  <2> QED BY <2>4 DEF KeptForReplay
<1> QED BY <1>1, <1>2, KeptStep, EventsTypeCorrect, PTL DEF EventsSafety, NeverReplayed

(******************************************************************************)
(* Evidence.                                                                  *)
(******************************************************************************)

-----------------------------------------------------------------------------
(* Types.                                                                     *)

EvidenceSafety == Init /\ [][Next]_vars

Mark == [step : {"off", "idle", "new", "known", "write", "stored", "missing", "done"},
         reply : Replies \cup {0}, on : Threads \cup {None}]

Pass == [step : {"off", "idle", "page", "row", "confirm", "verify", "record"},
         scope : Scopes, names : SUBSET Threads, todo : SUBSET (Replies \X Threads),
         row : Replies \X Threads \cup {NoRow}, last : Replies \cup {0},
         verdict : NoteStates]

EvidenceTypes ==
  /\ EvidenceTypeOK
  /\ mark \in [Marks -> Mark]
  /\ pass \in [Procs -> Pass]

(* What an adapter has in hand: a mark by address alone is made and that is   *)
(* all, every other adapter has its own reply and its thread, and the repair  *)
(* has replies with a confirmed text.                                         *)
MarkInHand(m) ==
  /\ m # Repair => mark[m].reply = m[1] /\ mark[m].on \in Threads
  /\ m[2] = "url" => mark[m].step \in {"off", "idle", "done"}
  /\ m = Repair /\ mark[m].step \notin {"idle", "off"} =>
       /\ mark[m].step \in {"write", "stored", "missing"}
       /\ mark[m].reply \in own /\ mark[m].on \in Threads

MarksInHand == \A m \in Marks : MarkInHand(m)

(* A pass has in hand a row of its page.                                      *)
RowsInHand ==
  \A p \in Procs : pass[p].step \in {"confirm", "verify", "record"} =>
                    pass[p].row \in pass[p].todo

\* A mark is a reply with its source, or the repair.
LEMMA MarkIsOfAReply ==
  ASSUME NEW m \in Marks
  PROVE  \/ m = Repair /\ m[1] = 0 /\ m[2] = "repair"
         \/ m # Repair /\ m[1] \in Replies /\ m[2] \in Sources
BY EvidenceAssumption DEF Repair, Sources, Replies

\* A set of replies that is not empty has an oldest one.
LEMMA OldestReply ==
  ASSUME NEW S \in SUBSET Replies, S # {}
  PROVE  Min(S) \in S
<1> DEFINE R == OpToRel(<, Nat)
<1>1. S \subseteq Nat
  BY EvidenceAssumption DEF Replies
<1>2. PICK x \in S : \A y \in S : ~(<<y, x>> \in R)
  BY <1>1, NatLessThanWellFounded, WFMin
<1>3. \A y \in S : ~(y < x)
  BY <1>1, <1>2 DEF OpToRel
<1>4. \A y \in S : x =< y
  BY <1>1, <1>3
<1> QED BY <1>4 DEF Min

\* A page that is not short is not empty.
LEMMA FullPage ==
  ASSUME NEW S, ~(Cardinality(S) < Batch)
  PROVE  S # {}
<1>1. Cardinality({}) = 0
  BY FS_EmptySet
<1>2. Batch \in Nat \ {0}
  BY EvidenceAssumption
<1> QED BY <1>1, <1>2

\* A page holds replies of its table, and a page that is not short has an
\* oldest one.
LEMMA PageTypes ==
  ASSUME NEW p \in Procs, EvidenceTypes, Page(p)
  PROVE  /\ pass' = [pass EXCEPT ![p].step = "row", ![p].todo = pass'[p].todo,
                                 ![p].last = pass'[p].last]
         /\ pass'[p].todo \subseteq Eligible(pass[p].scope)
         /\ pass'[p].todo \subseteq Replies \X Threads
         /\ pass'[p].last \in Replies \cup {0}
<1> DEFINE s == pass[p].scope
           page == NewestOf({x \in Eligible(s) : cursor[s] # 0 => x[1] < cursor[s]})
           last == IF Cardinality(page) < Batch THEN 0 ELSE Oldest(page)
<1>1. pass' = [pass EXCEPT ![p].step = "row", ![p].todo = page, ![p].last = last]
  BY DEF Page
<1>2. pass[p] \in Pass /\ s \in Scopes
  BY DEF EvidenceTypes, Pass
<1>3. pass'[p].todo = page /\ pass'[p].last = last
  BY <1>1, <1>2 DEF EvidenceTypes, Pass
<1>4. page \subseteq Eligible(s)
  BY DEF NewestOf
<1>5. Eligible(s) \subseteq Replies \X Threads
  BY <1>2, EvidenceAssumption DEF Eligible, Scopes, EvidenceTypes, EvidenceTypeOK, Row
<1>6. last \in Replies \cup {0}
  <2>1. CASE Cardinality(page) < Batch
    BY <2>1
  <2>2. CASE ~(Cardinality(page) < Batch)
    <3>1. page # {}
      BY <2>2, FullPage
    <3>2. {x[1] : x \in page} # {} /\ {x[1] : x \in page} \subseteq Replies
      BY <3>1, <1>4, <1>5
    <3> HIDE DEF page
    <3>3. Oldest(page) \in Replies
      BY <3>2, OldestReply DEF Oldest
    <3> QED BY <3>3, <2>2
  <2> QED BY <2>1, <2>2
<1> QED BY <1>1, <1>3, <1>4, <1>5, <1>6

\* Recording a take, or the state of its note, leaves rows that are rows.
LEMMA RowTypes ==
  ASSUME EvidenceTypes, NEW r \in Replies, NEW t \in Threads, NEW state \in NoteStates
  PROVE  /\ RecordTake(r, t, state) => rows' \in [Replies -> Row \cup {None}]
         /\ SetNoteState(r, state) => rows' \in [Replies -> Row \cup {None}]
<1>1. ASSUME NEW row \in Row \cup {None}, NEW kind \in BOOLEAN
      PROVE  Enriched(row, t, kind, state) \in Row
  <2>1. CASE row = None
    BY <1>1, <2>1 DEF Enriched, Row
  <2>2. CASE row # None
    <3>1. row \in Row
      BY <1>1, <2>2
    <3>2. row.target \in Threads /\ row.kind \in BOOLEAN /\ row.note \in NoteStates
      BY <3>1 DEF Row
    <3>3. (row.kind \/ kind) \in BOOLEAN
      OBVIOUS
    <3> QED BY <3>1, <3>2, <3>3, <2>2 DEF Enriched, Row
  <2> QED BY <2>1, <2>2
<1>2. \A kind : kind \in {FALSE} \cup {k \in {TRUE} : r \in Known} => kind \in BOOLEAN
  OBVIOUS
<1>3. rows \in [Replies -> Row \cup {None}]
  BY DEF EvidenceTypes, EvidenceTypeOK
<1>4. RecordTake(r, t, state) => rows' \in [Replies -> Row \cup {None}]
  <2> SUFFICES ASSUME NEW kind \in BOOLEAN,
                      rows' = [rows EXCEPT ![r] = Enriched(rows[r], t, kind, state)]
               PROVE  rows' \in [Replies -> Row \cup {None}]
    BY <1>2 DEF RecordTake
  <2>1. Enriched(rows[r], t, kind, state) \in Row
    BY <1>1, <1>3
  <2> QED BY <2>1, <1>3
<1>5. SetNoteState(r, state) => rows' \in [Replies -> Row \cup {None}]
  <2> SUFFICES ASSUME rows[r] # None, rows' = [rows EXCEPT ![r].note = state]
               PROVE  rows' \in [Replies -> Row \cup {None}]
    BY <1>3 DEF SetNoteState
  <2>1. rows[r] \in Row
    BY <1>3
  <2> QED BY <2>1, <1>3 DEF Row
<1> QED BY <1>4, <1>5

\* Types hold, and adapters have in hand what is theirs.
LEMMA EvidenceTypesInit == Init => EvidenceTypes /\ MarksInHand /\ RowsInHand
<1> SUFFICES ASSUME Init PROVE EvidenceTypes /\ MarksInHand /\ RowsInHand
  OBVIOUS
<1>1. EvidenceTypeOK
  <2>1. \A t \in Threads : note[t] \in Note \cup {None}
    BY DEF Init, Note
  <2>2. note \in [Threads -> Note \cup {None}]
    BY <2>1 DEF Init
  <2>3. /\ inter \in [Threads -> Replies \cup {0}] /\ rows \in [Replies -> Row \cup {None}]
        /\ cursor \in [Scopes -> Replies \cup {0}] /\ own \subseteq Replies
    BY DEF Init
  <2>4. faults \in 0 .. MaxFaults
    BY EvidenceAssumption DEF Init
  <2> QED BY <2>2, <2>3, <2>4 DEF EvidenceTypeOK
<1>2. \A m \in Marks : mark[m] \in Mark /\ MarkInHand(m)
  BY MarkIsOfAReply, EvidenceAssumption DEF Init, Unused, Off, Mark, MarkInHand
<1>3. mark \in [Marks -> Mark]
  BY <1>2 DEF Init
<1>4. pass \in [Procs -> Pass]
  BY DEF Init, Resting, Off, Pass, Scopes, NoteStates
<1>5. RowsInHand
  BY DEF Init, Resting, Off, RowsInHand
<1> QED BY <1>1, <1>2, <1>3, <1>4, <1>5 DEF EvidenceTypes, MarksInHand

\* The steps of adapters.
LEMMA AdapterTypes ==
  ASSUME EvidenceTypes, MarksInHand, NEW m \in Marks, Adapter(m)
  PROVE  EvidenceTypes' /\ MarksInHand'
<1> DEFINE r == m[1]
<1>0. /\ own \subseteq Replies /\ inter \in [Threads -> Replies \cup {0}]
      /\ rows \in [Replies -> Row \cup {None}] /\ note \in [Threads -> Note \cup {None}]
      /\ cursor \in [Scopes -> Replies \cup {0}] /\ faults \in 0 .. MaxFaults
      /\ mark \in [Marks -> Mark] /\ pass \in [Procs -> Pass]
      /\ mark[m] \in Mark /\ MarkInHand(m)
  BY DEF EvidenceTypes, EvidenceTypeOK, MarksInHand
<1>1. UNCHANGED <<own, cursor, pass>>
  BY DEF Adapter, MarkManual, Discover, MarkDiscovered, DiscoverNote, RepairNote, WriteNote,
         TellTake, WriteFails, AdapterDies
<1>2. faults' \in 0 .. MaxFaults
  BY <1>0, EvidenceAssumption DEF Adapter, MarkManual, Discover, MarkDiscovered, DiscoverNote,
     RepairNote, WriteNote, TellTake, WriteFails, AdapterDies, Fault
<1>3. /\ m # Repair => r \in Replies /\ ThreadOf[r] \in Threads /\ ParentOf[r] \in Threads
                        /\ mark[m].reply = r /\ mark[m].on \in Threads
      /\ m = Repair => m[2] \notin Sources
  BY <1>0, MarkIsOfAReply, EvidenceAssumption DEF MarkInHand, Repair, Sources
<1>4. mark[m].step \notin {"idle", "off"} =>
        mark[m].reply \in Replies /\ mark[m].on \in Threads
  BY <1>0, <1>3 DEF MarkInHand
<1>5. inter' \in [Threads -> Replies \cup {0}]
  <2>1. CASE MarkManual(m)
    BY <2>1, <1>0, <1>3 DEF MarkManual, Sources
  <2>2. CASE MarkDiscovered(m)
    BY <2>2, <1>0, <1>3 DEF MarkDiscovered, MarkInHand
  <2>3. CASE UNCHANGED inter
    BY <2>3, <1>0
  <2> QED BY <2>1, <2>2, <2>3 DEF Adapter, Discover, DiscoverNote, RepairNote, WriteNote,
              TellTake, WriteFails, AdapterDies
<1>6. rows' \in [Replies -> Row \cup {None}]
  <2>1. CASE MarkManual(m)
    BY <2>1, <1>0, <1>3, RowTypes DEF MarkManual, Sources, NoteStates
  <2>2. CASE MarkDiscovered(m)
    BY <2>2, <1>0, <1>3, RowTypes DEF MarkDiscovered, MarkInHand, NoteStates
  <2>3. CASE TellTake(m) \/ WriteFails(m)
    BY <2>3, <1>4, RowTypes DEF TellTake, WriteFails, NoteStates
  <2>4. CASE UNCHANGED rows
    BY <2>4, <1>0
  <2> QED BY <2>1, <2>2, <2>3, <2>4 DEF Adapter, Discover, DiscoverNote, RepairNote, WriteNote,
              AdapterDies
<1>7. note' \in [Threads -> Note \cup {None}]
  <2>1. CASE WriteNote(m)
    <3>1. mark[m].reply \in Replies /\ mark[m].on \in Threads
      BY <2>1, <1>4 DEF WriteNote
    <3>2. PICK same \in BOOLEAN :
            note' = [note EXCEPT ![mark[m].on] = Merged(note[mark[m].on], m, same)]
      BY <2>1 DEF WriteNote
    <3>3. ASSUME NEW old \in Note \cup {None} PROVE Merged(old, m, same) \in Note
      <4>1. CASE old # None
        BY <4>1, <3>1, <3>3 DEF Merged, Note
      <4>2. CASE old = None
        BY <4>2, <3>1 DEF Merged, Note
      <4> QED BY <4>1, <4>2
    <3> QED BY <3>1, <3>2, <3>3, <1>0
  <2>2. CASE UNCHANGED note
    BY <2>2, <1>0
  <2> QED BY <2>1, <2>2 DEF Adapter, MarkManual, MarkDiscovered, Discover, DiscoverNote,
              RepairNote, TellTake, WriteFails, AdapterDies
<1>8. /\ \A n \in Marks : n # m => mark'[n] = mark[n]
      /\ mark' \in [Marks -> Mark] /\ MarkInHand(m)'
  <2>1. ASSUME NEW step \in {"write", "done", "stored", "missing"}, Goes(m, step),
               mark[m].step \notin {"idle", "off"} \/ m # Repair, m[2] # "url" \/ step = "done",
               m = Repair => step # "done"
        PROVE  /\ \A n \in Marks : n # m => mark'[n] = mark[n]
               /\ mark' \in [Marks -> Mark] /\ MarkInHand(m)'
    BY <2>1, <1>0, <1>1 DEF Goes, Mark, MarkInHand
  <2>2. CASE MarkManual(m)
    BY <2>2, <2>1, MarkIsOfAReply DEF MarkManual
  <2>3. CASE Discover(m)
    <3>1. m # Repair /\ m[2] = "found"
      BY <2>3, MarkIsOfAReply DEF Discover, Sources
    <3>2. ASSUME NEW t \in Threads, NEW step \in {"new", "known", "write"},
                 mark' = [mark EXCEPT ![m].step = step, ![m].on = t]
          PROVE  /\ \A n \in Marks : n # m => mark'[n] = mark[n]
                 /\ mark' \in [Marks -> Mark] /\ MarkInHand(m)'
      BY <3>1, <3>2, <1>0 DEF Mark, MarkInHand
    <3> QED BY <2>3, <3>1, <3>2, <2>1, <1>3 DEF Discover
  <2>4. CASE MarkDiscovered(m) \/ DiscoverNote(m)
    <3>1. m # Repair /\ m[2] # "url"
      BY <2>4, <1>0 DEF MarkDiscovered, DiscoverNote, MarkInHand
    <3> QED BY <2>4, <3>1, <2>1 DEF MarkDiscovered, DiscoverNote
  <2>5. CASE RepairNote(m)
    <3>1. PICK x \in own : /\ Marked(x)
                           /\ mark' = [mark EXCEPT ![m] = [step |-> "write", reply |-> x,
                                                           on |-> RowOf(x)]]
      BY <2>5 DEF RepairNote
    <3>2. RowOf(x) \in Threads
      BY <3>1 DEF Marked, RowOf
    <3>3. m = Repair /\ m[2] # "url"
      BY <2>5, MarkIsOfAReply DEF RepairNote
    <3> QED BY <3>1, <3>2, <3>3, <1>0, <1>1 DEF Mark, MarkInHand
  <2>6. CASE WriteNote(m)
    <3>1. mark[m].step = "write" /\ m[2] # "url"
      BY <2>6, <1>0 DEF WriteNote, MarkInHand
    <3> QED BY <2>6, <3>1, <2>1 DEF WriteNote
  <2>7. CASE TellTake(m) \/ WriteFails(m) \/ AdapterDies(m)
    <3>1. Finishes(m)
      BY <2>7 DEF TellTake, WriteFails, AdapterDies
    <3>2. CASE m = Repair
      BY <3>1, <3>2, <1>0, MarkIsOfAReply DEF Finishes, Unused, Mark, MarkInHand
    <3>3. CASE m # Repair
      BY <3>1, <3>3, <1>0 DEF Finishes, Mark, MarkInHand
    <3> QED BY <3>2, <3>3
  <2> QED BY <2>2, <2>3, <2>4, <2>5, <2>6, <2>7 DEF Adapter
<1>9. MarksInHand'
  BY <1>8, <1>1 DEF MarksInHand, MarkInHand
<1> QED BY <1>0, <1>1, <1>2, <1>5, <1>6, <1>7, <1>8, <1>9 DEF EvidenceTypes, EvidenceTypeOK

\* The steps of passes.
LEMMA PassTypes ==
  ASSUME EvidenceTypes, RowsInHand, NEW p \in Procs, PassStep(p) \/ PassDies(p)
  PROVE  EvidenceTypes' /\ RowsInHand'
<1>0. /\ own \subseteq Replies /\ inter \in [Threads -> Replies \cup {0}]
      /\ rows \in [Replies -> Row \cup {None}] /\ note \in [Threads -> Note \cup {None}]
      /\ cursor \in [Scopes -> Replies \cup {0}] /\ faults \in 0 .. MaxFaults
      /\ mark \in [Marks -> Mark] /\ pass \in [Procs -> Pass] /\ pass[p] \in Pass
  BY DEF EvidenceTypes, EvidenceTypeOK
<1>1. UNCHANGED <<own, inter, note, mark>>
  BY DEF PassStep, PassDies, Begin, Page, TurnPage, Turn, Confirm, Verify, Write
<1>2. faults' \in 0 .. MaxFaults
  <2>1. Fault \/ UNCHANGED faults
    BY DEF PassStep, PassDies, Begin, Page, TurnPage, Turn, Confirm, Verify, Write
  <2> QED BY <2>1, <1>0, EvidenceAssumption DEF Fault
<1>3. Resting \in Pass
  BY DEF Resting, Pass, Scopes, NoteStates
<1>4. CASE Begin(p)
  <2>1. [Resting EXCEPT !.step = "page", !.names = {t \in Threads : note[t] # None}] \in Pass
    BY <1>3 DEF Pass
  <2>2. pass' \in [Procs -> Pass] /\ RowsInHand'
    BY <1>4, <1>0, <2>1 DEF Begin, RowsInHand
  <2> QED BY <1>4, <1>0, <1>1, <1>2, <2>2 DEF Begin, EvidenceTypes, EvidenceTypeOK
<1>5. CASE Page(p)
  <2>1. /\ pass' = [pass EXCEPT ![p].step = "row", ![p].todo = pass'[p].todo,
                                 ![p].last = pass'[p].last]
        /\ pass'[p].todo \subseteq Replies \X Threads
        /\ pass'[p].last \in Replies \cup {0}
    BY <1>5, PageTypes
  <2>2. pass' \in [Procs -> Pass] /\ RowsInHand'
    <3> DEFINE todo == pass'[p].todo
               last == pass'[p].last
    <3>1. \A q \in Procs : q # p => pass'[q] = pass[q]
      BY <2>1, <1>0
    <3>2. pass'[p].step = "row"
      BY <2>1, <1>0 DEF Pass
    <3> HIDE DEF todo, last
    <3>3. pass' = [pass EXCEPT ![p].step = "row", ![p].todo = todo, ![p].last = last]
          /\ todo \in SUBSET (Replies \X Threads) /\ last \in Replies \cup {0}
      BY <2>1 DEF todo, last
    <3>4. pass' \in [Procs -> Pass]
      BY <3>3, <1>0 DEF Pass
    <3> QED BY <3>1, <3>2, <3>4 DEF RowsInHand
  <2> QED BY <1>5, <1>0, <1>1, <1>2, <2>2 DEF Page, EvidenceTypes, EvidenceTypeOK
<1>6. CASE TurnPage(p)
  <2>1. cursor' \in [Scopes -> Replies \cup {0}]
    BY <1>6, <1>0 DEF TurnPage, Pass
  <2>2. pass' \in [Procs -> Pass] /\ RowsInHand'
    <3>1. CASE pass[p].scope = "interactions"
      BY <1>6, <1>0, <3>1 DEF TurnPage, Pass, Scopes, RowsInHand
    <3>2. CASE pass[p].scope = "own_replies"
      BY <1>6, <1>0, <3>2 DEF TurnPage, Pass, Scopes, RowsInHand
    <3>3. CASE pass[p].scope = "notes"
      BY <1>6, <1>0, <1>3, <3>3 DEF TurnPage, RowsInHand, Resting
    <3> QED BY <1>0, <3>1, <3>2, <3>3 DEF Pass, Scopes
  <2> QED BY <1>6, <1>0, <1>1, <1>2, <2>1, <2>2 DEF TurnPage, EvidenceTypes, EvidenceTypeOK
<1>7. CASE \E x \in pass[p].todo : Turn(p, x)
  <2>1. PICK x \in pass[p].todo : Turn(p, x)
    BY <1>7
  <2>2. x \in Replies \X Threads
    BY <1>0 DEF Pass
  <2>3. pass' \in [Procs -> Pass] /\ RowsInHand'
    <3>1. CASE pass' = [pass EXCEPT ![p].todo = @ \ {x}]
      <4>1. pass[p].step = "row"
        BY <2>1 DEF Turn
      <4> QED BY <1>0, <3>1, <4>1 DEF Pass, RowsInHand
    <3>2. ASSUME NEW step \in {"confirm", "verify"},
                 pass' = [pass EXCEPT ![p].step = step, ![p].row = x]
          PROVE  pass' \in [Procs -> Pass] /\ RowsInHand'
      BY <1>0, <2>1, <2>2, <3>2 DEF Pass, RowsInHand
    <3>3. \/ pass' = [pass EXCEPT ![p].todo = @ \ {x}]
          \/ \E step \in {"confirm", "verify"} :
               pass' = [pass EXCEPT ![p].step = step, ![p].row = x]
      BY <2>1 DEF Turn
    <3> QED BY <3>1, <3>2, <3>3
  <2> QED BY <1>0, <1>1, <1>2, <2>1, <2>3 DEF Turn, EvidenceTypes, EvidenceTypeOK
<1>8. CASE Confirm(p)
  <2>1. pass' \in [Procs -> Pass] /\ RowsInHand'
    BY <1>0, <1>8 DEF Confirm, Pass, RowsInHand
  <2> QED BY <1>0, <1>1, <1>2, <1>8, <2>1 DEF Confirm, EvidenceTypes, EvidenceTypeOK
<1>9. CASE Verify(p)
  <2>1. \A t, r, names : NoteVerdict(t, r, names) \in NoteStates
    BY DEF NoteVerdict, NoteStates
  <2>2. pass' \in [Procs -> Pass] /\ RowsInHand'
    BY <1>0, <1>9, <2>1 DEF Verify, Pass, RowsInHand
  <2> QED BY <1>0, <1>1, <1>2, <1>9, <2>2 DEF Verify, EvidenceTypes, EvidenceTypeOK
<1>10. CASE Write(p)
  <2>1. pass[p].row \in pass[p].todo /\ pass[p].verdict \in NoteStates
    BY <1>10, <1>0 DEF Write, RowsInHand, Pass
  <2>2. pass[p].row[1] \in Replies /\ pass[p].row[2] \in Threads
    BY <1>0, <2>1 DEF Pass
  <2>3. rows' \in [Replies -> Row \cup {None}]
    BY <1>10, <2>1, <2>2, RowTypes DEF Write
  <2>4. pass' \in [Procs -> Pass] /\ RowsInHand'
    BY <1>10, <1>0 DEF Write, Pass, NoteStates, RowsInHand
  <2> QED BY <1>0, <1>1, <1>2, <1>10, <2>3, <2>4 DEF Write, EvidenceTypes, EvidenceTypeOK
<1>11. CASE PassDies(p)
  <2>1. pass' \in [Procs -> Pass] /\ RowsInHand'
    BY <1>0, <1>3, <1>11 DEF PassDies, RowsInHand, Resting
  <2> QED BY <1>0, <1>1, <1>2, <1>11, <2>1 DEF PassDies, EvidenceTypes, EvidenceTypeOK
<1> QED BY <1>4, <1>5, <1>6, <1>7, <1>8, <1>9, <1>10, <1>11 DEF PassStep

\* A reply gets its text.
LEMMA OwnPostTypes ==
  ASSUME EvidenceTypes, MarksInHand, NEW r \in Replies, OwnPost(r)
  PROVE  EvidenceTypes' /\ MarksInHand'
BY DEF OwnPost, EvidenceTypes, EvidenceTypeOK, MarksInHand, MarkInHand

TypesHold == EvidenceTypes /\ MarksInHand /\ RowsInHand

LEMMA TypesStep == TypesHold /\ [Next]_vars => TypesHold'
<1> SUFFICES ASSUME TypesHold, [Next]_vars PROVE TypesHold'
  OBVIOUS
<1>1. CASE \E r \in Replies : OwnPost(r)
  <2>1. UNCHANGED pass
    BY <1>1 DEF OwnPost
  <2> QED BY <1>1, <2>1, OwnPostTypes DEF TypesHold, RowsInHand
<1>2. CASE \E m \in Marks : Adapter(m)
  <2>1. UNCHANGED pass
    BY <1>2 DEF Adapter, MarkManual, Discover, MarkDiscovered, DiscoverNote, RepairNote, WriteNote,
         TellTake, WriteFails, AdapterDies
  <2> QED BY <1>2, <2>1, AdapterTypes DEF TypesHold, RowsInHand
<1>3. CASE \E p \in Procs : PassStep(p) \/ PassDies(p)
  <2>1. UNCHANGED <<own, mark>>
    BY <1>3 DEF PassStep, PassDies, Begin, Page, TurnPage, Turn, Confirm, Verify, Write
  <2>2. MarksInHand'
    BY <2>1 DEF TypesHold, MarksInHand, MarkInHand
  <2> QED BY <1>3, <2>2, PassTypes DEF TypesHold
<1>4. CASE UNCHANGED vars
  BY <1>4 DEF vars, TypesHold, EvidenceTypes, EvidenceTypeOK, MarksInHand, MarkInHand, RowsInHand
<1> QED BY <1>1, <1>2, <1>3, <1>4 DEF Next

(* Types hold at every moment, whatever adapters and passes do beside each    *)
(* other.                                                                     *)
THEOREM EvidenceTypesCorrect == EvidenceSafety => []EvidenceTypeOK
<1>1. Init => TypesHold
  BY EvidenceTypesInit DEF TypesHold
<1>2. TypesHold => EvidenceTypeOK
  BY DEF TypesHold, EvidenceTypes
<1> QED BY <1>1, <1>2, TypesStep, PTL DEF EvidenceSafety

-----------------------------------------------------------------------------
(* A bare address is no take.                                                 *)

(* What stands behind a take of a reply.                                      *)
Backed(r) ==
  \/ r \in own
  \/ \E m \in Marks : m[1] = r /\ m[2] # "url" /\ mark[m].step \notin {"idle", "off"}
  \/ ThreadOf[r] \in Legacy

(* A reply with the thread whose note may speak for it.                       *)
Sound(r, t) == t = ThreadOf[r] \/ Backed(r)

RowsBacked == \A r \in Replies : rows[r] # None => Backed(r)

NotesBacked ==
  \A t \in Threads : note[t] # None =>
    /\ note[t].reply = Undeclared => t \in Legacy
    /\ \A r \in Replies : note[t].reply = r => Backed(r)

HistorySound == \A t \in Threads : \A r \in Replies : inter[t] = r => Sound(r, t)

(* What a pass has read and will record awaits later.                         *)
PassSound(p) ==
  /\ pass[p].scope = "interactions" =>
       \A r \in Replies : \A t \in Threads : <<r, t>> \in pass[p].todo => Sound(r, t)
  /\ pass[p].scope = "own_replies" =>
       \A r \in Replies : \A t \in Threads : <<r, t>> \in pass[p].todo => Backed(r)
  /\ pass[p].step = "confirm" => pass[p].scope = "interactions"
  /\ pass[p].step \in {"verify", "record"} /\ pass[p].scope # "notes" =>
       \A r \in Replies : pass[p].row[1] = r => Backed(r)

PassesSound == \A p \in Procs : PassSound(p)

EvidenceInv == RowsBacked /\ NotesBacked /\ HistorySound /\ PassesSound

\* A confirmed text stays, and so does an adapter that has begun.
LEMMA Onward ==
  ASSUME TypesHold, [Next]_vars
  PROVE  /\ own \subseteq own'
         /\ \A m \in Marks : m # Repair /\ mark[m].step \notin {"idle", "off"} => mark'[m].step \notin {"idle", "off"}
<1>1. CASE \E r \in Replies : OwnPost(r)
  BY <1>1 DEF OwnPost
<1>2. CASE \E m \in Marks : Adapter(m)
  <2>1. PICK n \in Marks : Adapter(n)
    BY <1>2
  <2>2. UNCHANGED own
    BY <2>1 DEF Adapter, MarkManual, Discover, MarkDiscovered, DiscoverNote, RepairNote, WriteNote,
         TellTake, WriteFails, AdapterDies
  <2>3. mark \in [Marks -> Mark] /\ mark[n] \in Mark
    BY DEF TypesHold, EvidenceTypes
  <2>4. n # Repair => mark'[n].step \notin {"idle", "off"}
    <3> SUFFICES ASSUME n # Repair PROVE mark'[n].step \notin {"idle", "off"}
      OBVIOUS
    <3>1. \A step : Goes(n, step) => mark'[n].step = step
      BY <2>3 DEF Goes, Mark
    <3>2. Finishes(n) => mark'[n].step = "done"
      BY <2>3 DEF Finishes, Mark
    <3>3. CASE Discover(n)
      <4>1. \A t, step : mark' = [mark EXCEPT ![n].step = step, ![n].on = t]
                           => mark'[n].step = step
        BY <2>3 DEF Mark
      <4>2. mark'[n].step \in {"new", "known", "write", "done"}
        BY <3>3, <4>1, <3>1 DEF Discover
      <4> QED BY <4>2
    <3>4. CASE MarkManual(n) \/ MarkDiscovered(n) \/ DiscoverNote(n) \/ WriteNote(n)
      BY <3>4, <3>1 DEF MarkManual, MarkDiscovered, DiscoverNote, WriteNote
    <3>5. CASE TellTake(n) \/ WriteFails(n) \/ AdapterDies(n)
      BY <3>5, <3>2 DEF TellTake, WriteFails, AdapterDies
    <3> QED BY <2>1, <3>3, <3>4, <3>5 DEF Adapter, RepairNote
  <2>5. \A m \in Marks : m # n => mark'[m] = mark[m]
    BY <2>1, <2>3 DEF Adapter, MarkManual, Discover, MarkDiscovered, DiscoverNote, RepairNote,
       WriteNote, TellTake, WriteFails, AdapterDies, Goes, Finishes
  <2> QED BY <2>2, <2>4, <2>5
<1>3. CASE \E p \in Procs : PassStep(p) \/ PassDies(p)
  BY <1>3 DEF PassStep, PassDies, Begin, Page, TurnPage, Turn, Confirm, Verify, Write
<1>4. CASE UNCHANGED vars
  BY <1>4 DEF vars
<1> QED BY <1>1, <1>2, <1>3, <1>4 DEF Next

\* What stands behind a take goes on to stand behind it.
LEMMA BackedStays ==
  ASSUME TypesHold, [Next]_vars, NEW r \in Replies, Backed(r)
  PROVE  Backed(r)'
<1>1. CASE r \in own
  BY <1>1, Onward DEF Backed
<1>2. CASE \E m \in Marks : m[1] = r /\ m[2] # "url" /\ mark[m].step \notin {"idle", "off"}
  <2>1. PICK m \in Marks : m[1] = r /\ m[2] # "url" /\ mark[m].step \notin {"idle", "off"}
    BY <1>2
  <2>2. m # Repair
    BY <2>1, EvidenceAssumption DEF Replies, Repair
  <2> QED BY <2>1, <2>2, Onward DEF Backed
<1>3. CASE ThreadOf[r] \in Legacy
  BY <1>3 DEF Backed
<1> QED BY <1>1, <1>2, <1>3 DEF Backed

\* Types hold in the other lemmas.
LEMMA WhatIsTyped ==
  ASSUME TypesHold
  PROVE  /\ own \subseteq Replies /\ inter \in [Threads -> Replies \cup {0}]
         /\ rows \in [Replies -> Row \cup {None}] /\ note \in [Threads -> Note \cup {None}]
         /\ mark \in [Marks -> Mark] /\ pass \in [Procs -> Pass]
BY DEF TypesHold, EvidenceTypes, EvidenceTypeOK

\* Only recording makes a take of a reply that had none.
LEMMA OnlyRecordsAdd ==
  ASSUME TypesHold, NEW r \in Replies, NEW state, NEW q \in Replies
  PROVE  /\ SetNoteState(r, state) /\ rows'[q] # None => rows[q] # None
         /\ \A t : RecordTake(r, t, state) /\ rows'[q] # None => rows[q] # None \/ q = r
BY WhatIsTyped DEF SetNoteState, RecordTake

\* A note that speaks for a reply stands behind it, if the thread is its own.
LEMMA NoteSpeaks ==
  ASSUME TypesHold, NotesBacked, NEW r \in Replies, NEW t \in Threads, NEW names,
         Sound(r, t), NoteVerdict(t, r, names) = "stored"
  PROVE  Backed(r)
<1>1. note[t] # None /\ note[t].reply \in {r, Undeclared}
  BY DEF NoteVerdict
<1>2. r # Undeclared
  BY EvidenceAssumption DEF Replies, Undeclared
<1>3. CASE note[t].reply = r
  BY <1>1, <1>2, <1>3 DEF NotesBacked
<1>4. CASE note[t].reply = Undeclared
  BY <1>1, <1>4 DEF NotesBacked, Sound, Backed
<1> QED BY <1>1, <1>3, <1>4

\* An adapter that writes or marks has a reply that something stands behind.
LEMMA AtWorkIsBacked ==
  ASSUME TypesHold, NEW m \in Marks, mark[m].step \notin {"off", "idle", "done"}
  PROVE  /\ mark[m].reply \in Replies /\ mark[m].on \in Threads
         /\ Backed(mark[m].reply)
         /\ m # Repair => m[1] = mark[m].reply
<1>1. MarkInHand(m)
  BY DEF TypesHold, MarksInHand
<1>2. CASE m = Repair
  BY <1>1, <1>2, WhatIsTyped DEF MarkInHand, Backed
<1>3. CASE m # Repair
  <2>1. m[1] \in Replies /\ m[2] # "url"
    BY <1>1, <1>3, MarkIsOfAReply DEF MarkInHand
  <2> QED BY <1>1, <1>3, <2>1 DEF MarkInHand, Backed
<1> QED BY <1>2, <1>3

\* Notes: what an adapter writes declares a reply that is backed.
LEMMA NotesStep ==
  ASSUME TypesHold, NotesBacked, [Next]_vars
  PROVE  NotesBacked'
<1>1. \A r \in Replies : Backed(r) => Backed(r)'
  BY BackedStays
<1>2. CASE UNCHANGED note
  BY <1>1, <1>2 DEF NotesBacked
<1>3. CASE \E m \in Marks : WriteNote(m)
  <2>1. PICK m \in Marks : WriteNote(m)
    BY <1>3
  <2>2. PICK own1 \in Replies : own1 = mark[m].reply /\ Backed(own1)
    BY <2>1, AtWorkIsBacked DEF WriteNote
  <2>3. PICK same \in BOOLEAN :
          note' = [note EXCEPT ![mark[m].on] = Merged(note[mark[m].on], m, same)]
    BY <2>1 DEF WriteNote
  <2>4. own1 # Undeclared
    BY EvidenceAssumption DEF Replies, Undeclared
  <2>5. ASSUME NEW t \in Threads, note'[t] # None
        PROVE  \/ note'[t].reply = own1
               \/ note[t] # None /\ note'[t].reply = note[t].reply
    <3>1. CASE t # mark[m].on
      BY <2>3, <2>5, <3>1, WhatIsTyped
    <3>2. CASE t = mark[m].on
      <4>1. note'[t] = Merged(note[t], m, same)
        BY <2>3, <3>2, WhatIsTyped
      <4>2. CASE note[t] # None /\ note[t].curated /\ m[2] # "manual"
        <5>1. note[t] \in Note
          BY <4>2, WhatIsTyped
        <5> QED BY <4>1, <4>2, <5>1, <2>2 DEF Merged, Note
      <4>3. CASE ~(note[t] # None /\ note[t].curated /\ m[2] # "manual")
        BY <4>1, <4>3, <2>2 DEF Merged
      <4> QED BY <4>2, <4>3
    <3> QED BY <3>1, <3>2
  <2> QED BY <1>1, <2>2, <2>4, <2>5 DEF NotesBacked
<1> QED BY <1>2, <1>3 DEF Next, OwnPost, Adapter, MarkManual, Discover, MarkDiscovered, DiscoverNote,
           RepairNote, TellTake, WriteFails, AdapterDies, PassStep, PassDies, Begin, Page,
           TurnPage, Turn, Confirm, Verify, Write, vars

\* The history: a mark is on the thread of its reply, or the webhook or
\* discovery has found the reply.
LEMMA HistoryStep ==
  ASSUME TypesHold, HistorySound, [Next]_vars
  PROVE  HistorySound'
<1>1. \A r \in Replies : Backed(r) => Backed(r)'
  BY BackedStays
<1>2. \A r \in Replies, t \in Threads : Sound(r, t) => Sound(r, t)'
  BY <1>1 DEF Sound
<1>3. CASE UNCHANGED inter
  BY <1>2, <1>3 DEF HistorySound
<1>4. ASSUME NEW m \in Marks, MarkManual(m)
      PROVE  HistorySound'
  <2>1. inter' = [inter EXCEPT ![ThreadOf[m[1]]] = m[1]]
    BY <1>4 DEF MarkManual
  <2>2. ASSUME NEW t \in Threads, NEW r \in Replies, inter'[t] = r
        PROVE  inter[t] = r \/ t = ThreadOf[r]
    BY <2>1, <2>2, WhatIsTyped
  <2> QED BY <1>2, <2>2 DEF HistorySound, Sound
<1>5. ASSUME NEW m \in Marks, MarkDiscovered(m)
      PROVE  HistorySound'
  <2>1. inter' = [inter EXCEPT ![mark[m].on] = m[1]] /\ mark[m].step = "new"
    BY <1>5 DEF MarkDiscovered
  <2>2. m # Repair
    BY <2>1 DEF TypesHold, MarksInHand, MarkInHand
  <2>3. m[1] \in Replies /\ Backed(m[1])
    BY <2>1, <2>2, AtWorkIsBacked
  <2>4. ASSUME NEW t \in Threads, NEW r \in Replies, inter'[t] = r
        PROVE  inter[t] = r \/ Backed(r)
    BY <2>1, <2>3, <2>4, WhatIsTyped
  <2> QED BY <1>1, <1>2, <2>4 DEF HistorySound, Sound
<1> QED BY <1>3, <1>4, <1>5 DEF Next, OwnPost, Adapter, Discover, DiscoverNote,
           RepairNote, WriteNote, TellTake, WriteFails, AdapterDies, PassStep, PassDies, Begin,
           Page, TurnPage, Turn, Confirm, Verify, Write, vars

\* Rows: whoever records a take has what stands behind it.
LEMMA RowsStep ==
  ASSUME TypesHold, RowsBacked, PassesSound, [Next]_vars
  PROVE  RowsBacked'
<1>1. \A r \in Replies : Backed(r) => Backed(r)'
  BY BackedStays
<1>2. CASE UNCHANGED rows
  BY <1>1, <1>2 DEF RowsBacked
<1>3. ASSUME NEW m \in Marks, MarkManual(m), rows' # rows
      PROVE  RowsBacked'
  <2>1. PICK r \in Replies : r = m[1]
    BY <1>3, MarkIsOfAReply DEF MarkManual
  <2>2. Goes(m, "write") /\ RecordTake(r, ThreadOf[r], "unknown") /\ m[2] # "url"
    BY <1>3, <2>1 DEF MarkManual
  <2>3. mark'[m].step = "write"
    BY <2>2, WhatIsTyped DEF Goes, Mark
  <2>4. Backed(r)'
    BY <2>1, <2>2, <2>3 DEF Backed
  <2>5. \A q \in Replies : rows'[q] # None => rows[q] # None \/ q = r
    BY <2>2, OnlyRecordsAdd
  <2> QED BY <1>1, <2>4, <2>5 DEF RowsBacked
<1>4. ASSUME NEW m \in Marks, MarkDiscovered(m)
      PROVE  RowsBacked'
  <2>1. mark[m].step = "new" /\ RecordTake(m[1], mark[m].on, "unknown")
    BY <1>4 DEF MarkDiscovered
  <2>2. m # Repair
    BY <2>1 DEF TypesHold, MarksInHand, MarkInHand
  <2>3. PICK r \in Replies : r = m[1] /\ Backed(r)
    BY <2>1, <2>2, AtWorkIsBacked
  <2>4. \A q \in Replies : rows'[q] # None => rows[q] # None \/ q = r
    BY <2>1, <2>3, OnlyRecordsAdd
  <2> QED BY <1>1, <2>3, <2>4 DEF RowsBacked
<1>5. ASSUME NEW m \in Marks, TellTake(m) \/ WriteFails(m)
      PROVE  RowsBacked'
  <2>1. mark[m].reply \in Replies
    BY <1>5, AtWorkIsBacked DEF TellTake, WriteFails
  <2>2. \E state : SetNoteState(mark[m].reply, state)
    BY <1>5 DEF TellTake, WriteFails
  <2>3. \A q \in Replies : rows'[q] # None => rows[q] # None
    BY <2>1, <2>2, OnlyRecordsAdd
  <2> QED BY <1>1, <2>3 DEF RowsBacked
<1>6. ASSUME NEW p \in Procs, Write(p)
      PROVE  RowsBacked'
  <2>1. pass[p].step = "record" /\ pass[p].row \in Replies \X Threads
    BY <1>6, WhatIsTyped DEF Write, TypesHold, RowsInHand, Pass
  <2>2. PICK r \in Replies : r = pass[p].row[1]
    BY <2>1
  <2>3. \/ pass[p].scope = "notes" /\ SetNoteState(r, pass[p].verdict)
        \/ pass[p].scope # "notes" /\ RecordTake(r, pass[p].row[2], pass[p].verdict)
    BY <1>6, <2>2 DEF Write
  <2>4. pass[p].scope # "notes" => Backed(r)
    BY <2>1, <2>2 DEF PassesSound, PassSound
  <2>5. \A q \in Replies : rows'[q] # None =>
                             rows[q] # None \/ (q = r /\ pass[p].scope # "notes")
    BY <2>3, OnlyRecordsAdd
  <2> QED BY <1>1, <2>4, <2>5 DEF RowsBacked
<1> QED BY <1>2, <1>3, <1>4, <1>5, <1>6 DEF Next, OwnPost, Adapter, Discover, DiscoverNote,
           RepairNote, WriteNote, AdapterDies, PassStep, PassDies, Begin,
           Page, TurnPage, Turn, Confirm, Verify, vars

\* Passes: a pass goes on with what it read of the tables, and is told by
\* the note of a mark without a text.
LEMMA PassesStep ==
  ASSUME TypesHold, NotesBacked, HistorySound, PassesSound, [Next]_vars
  PROVE  PassesSound'
<1>1. \A r \in Replies : Backed(r) => Backed(r)'
  BY BackedStays
<1>2. \A r \in Replies, t \in Threads : Sound(r, t) => Sound(r, t)'
  BY <1>1 DEF Sound
<1>3. ASSUME NEW p \in Procs, pass'[p] = pass[p]
      PROVE  PassSound(p)'
  BY <1>1, <1>2, <1>3 DEF PassesSound, PassSound
<1>4. CASE UNCHANGED pass
  BY <1>3, <1>4 DEF PassesSound
<1>5. ASSUME NEW p \in Procs, PassStep(p) \/ PassDies(p)
      PROVE  PassesSound'
  <2>0. pass \in [Procs -> Pass] /\ pass[p] \in Pass /\ PassSound(p)
    BY WhatIsTyped DEF PassesSound
  <2>1. \A q \in Procs : q # p => pass'[q] = pass[q]
    BY <1>5, <2>0 DEF PassStep, PassDies, Begin, Page, TurnPage, Turn, Confirm, Verify, Write
  <2>2. CASE Begin(p) \/ PassDies(p)
    <3>1. pass'[p].todo = {} /\ pass'[p].step \in {"idle", "page"}
      <4>1. CASE PassDies(p)
        BY <4>1, <2>0 DEF PassDies, Resting
      <4>2. CASE Begin(p)
        <5> DEFINE names == {t \in Threads : note[t] # None}
        <5>1. pass' = [pass EXCEPT ![p] = [Resting EXCEPT !.step = "page", !.names = names]]
          BY <4>2 DEF Begin
        <5> HIDE DEF names
        <5> QED BY <5>1, <2>0 DEF Resting
      <4> QED BY <2>2, <4>1, <4>2
    <3> QED BY <3>1, <1>3, <2>1 DEF PassesSound, PassSound
  <2>3. CASE Page(p)
    <3>1. /\ pass'[p].step = "row" /\ pass'[p].scope = pass[p].scope
          /\ pass'[p].todo \subseteq Eligible(pass[p].scope)
      <4>1. /\ pass' = [pass EXCEPT ![p].step = "row", ![p].todo = pass'[p].todo,
                                    ![p].last = pass'[p].last]
            /\ pass'[p].todo \subseteq Eligible(pass[p].scope)
        BY <2>3, PageTypes DEF TypesHold
      <4> QED BY <4>1, <2>0 DEF Pass
    <3>2. CASE pass[p].scope = "interactions"
      <4>1. \A r \in Replies : \A t \in Threads : <<r, t>> \in pass'[p].todo => inter[t] = r
        BY <3>1, <3>2 DEF Eligible
      <4> QED BY <4>1, <3>1, <3>2, <1>2, <1>3, <2>1 DEF HistorySound, PassesSound, PassSound
    <3>3. CASE pass[p].scope = "own_replies"
      <4>1. \A r \in Replies : \A t \in Threads : <<r, t>> \in pass'[p].todo => r \in own
        BY <3>1, <3>3 DEF Eligible
      <4> QED BY <4>1, <3>1, <3>3, <1>1, <1>3, <2>1 DEF Backed, PassesSound, PassSound
    <3>4. CASE pass[p].scope = "notes"
      BY <3>1, <3>4, <1>3, <2>1 DEF PassesSound, PassSound
    <3> QED BY <2>0, <3>2, <3>3, <3>4 DEF Pass, Scopes
  <2>4. CASE TurnPage(p)
    <3>1. pass'[p].todo = {} /\ pass'[p].step \in {"idle", "page"}
      <4>1. CASE pass[p].scope = "notes"
        BY <2>4, <4>1, <2>0 DEF TurnPage, Resting
      <4>2. CASE pass[p].scope # "notes"
        BY <2>4, <4>2, <2>0 DEF TurnPage, Pass, Scopes
      <4> QED BY <4>1, <4>2
    <3> QED BY <3>1, <1>3, <2>1 DEF PassesSound, PassSound
  <2>5. CASE \E x \in pass[p].todo : Turn(p, x)
    <3>1. PICK x \in pass[p].todo : Turn(p, x)
      BY <2>5
    <3>2. PICK r \in Replies, t \in Threads : x = <<r, t>>
      BY <2>0 DEF Pass
    <3>3. pass[p].step = "row" /\ pass'[p].scope = pass[p].scope
          /\ pass'[p].todo \subseteq pass[p].todo
      BY <3>1, <2>0 DEF Turn, Pass
    <3>4. \/ pass'[p].step = "row"
          \/ pass'[p].step = "confirm" /\ pass[p].scope = "interactions"
          \/ /\ pass'[p].step = "verify" /\ pass'[p].row = x
             /\ pass[p].scope = "interactions" => r \in own
      BY <3>1, <3>2, <2>0 DEF Turn, Pass
    <3>5. pass[p].scope \in {"interactions", "own_replies", "notes"}
      BY <2>0 DEF Pass, Scopes
    <3>6. pass'[p].step = "verify" /\ pass[p].scope # "notes" => Backed(r) /\ pass'[p].row[1] = r
      BY <3>1, <3>2, <3>4, <3>5, <2>0 DEF PassSound, Backed
    <3>7. PassSound(p)'
      BY <1>1, <1>2, <2>0, <3>3, <3>4, <3>6 DEF PassSound
    <3> QED BY <3>7, <1>3, <2>1 DEF PassesSound
  <2>6. CASE Confirm(p)
    <3>1. PICK r \in Replies, t \in Threads : pass[p].row = <<r, t>> /\ <<r, t>> \in pass[p].todo
      BY <2>6, <2>0 DEF Confirm, TypesHold, RowsInHand, Pass
    <3>2. pass[p].scope = "interactions" /\ Sound(r, t)
      BY <2>6, <3>1, <2>0 DEF Confirm, PassSound
    <3>3. \/ /\ NoteVerdict(t, r, pass[p].names) = "stored"
             /\ pass' = [pass EXCEPT ![p].step = "verify"]
          \/ pass' = [pass EXCEPT ![p].step = "row", ![p].todo = @ \ {<<r, t>>}, ![p].row = NoRow]
      BY <2>6, <3>1 DEF Confirm
    <3>4. CASE /\ NoteVerdict(t, r, pass[p].names) = "stored"
               /\ pass' = [pass EXCEPT ![p].step = "verify"]
      <4>1. Backed(r)
        BY <3>2, <3>4, NoteSpeaks
      <4>2. /\ pass'[p].step = "verify" /\ pass'[p].scope = "interactions"
            /\ pass'[p].todo = pass[p].todo /\ pass'[p].row[1] = r
        BY <3>1, <3>2, <3>4, <2>0 DEF Pass
      <4>3. PassSound(p)'
        BY <1>1, <1>2, <2>0, <3>2, <4>1, <4>2 DEF PassSound
      <4> QED BY <4>3, <1>3, <2>1 DEF PassesSound
    <3>5. CASE pass' = [pass EXCEPT ![p].step = "row", ![p].todo = @ \ {<<r, t>>}, ![p].row = NoRow]
      <4>1. /\ pass'[p].step = "row" /\ pass'[p].scope = pass[p].scope
            /\ pass'[p].todo \subseteq pass[p].todo
        BY <3>5, <2>0 DEF Pass
      <4>2. PassSound(p)'
        BY <1>1, <1>2, <2>0, <4>1 DEF PassSound
      <4> QED BY <4>2, <1>3, <2>1 DEF PassesSound
    <3> QED BY <3>3, <3>4, <3>5
  <2>7. CASE Verify(p)
    <3>1. /\ pass[p].step = "verify" /\ pass'[p].step = "record"
          /\ pass'[p].scope = pass[p].scope /\ pass'[p].todo = pass[p].todo
          /\ pass'[p].row = pass[p].row
      BY <2>7, <2>0 DEF Verify, Pass
    <3>2. PassSound(p)'
      BY <1>1, <1>2, <2>0, <3>1 DEF PassSound
    <3> QED BY <3>2, <1>3, <2>1 DEF PassesSound
  <2>8. CASE Write(p)
    <3>1. /\ pass'[p].step = "row" /\ pass'[p].scope = pass[p].scope
          /\ pass'[p].todo \subseteq pass[p].todo
      BY <2>8, <2>0 DEF Write, Pass
    <3>2. PassSound(p)'
      BY <1>1, <1>2, <2>0, <3>1 DEF PassSound
    <3> QED BY <3>2, <1>3, <2>1 DEF PassesSound
  <2> QED BY <1>5, <2>2, <2>3, <2>4, <2>5, <2>6, <2>7, <2>8 DEF PassStep
<1> QED BY <1>4, <1>5 DEF Next, OwnPost, Adapter, MarkManual, Discover, MarkDiscovered,
           DiscoverNote, RepairNote, WriteNote, TellTake, WriteFails, AdapterDies, vars

(* What stands behind takes, notes and marks, and what passes have in hand,   *)
(* for any replies, threads, adapters and passes: the inductive invariant.    *)
THEOREM EvidenceInvariance == EvidenceSafety => [](TypesHold /\ EvidenceInv)
<1>1. Init => TypesHold /\ EvidenceInv
  <2> SUFFICES ASSUME Init PROVE EvidenceInv
    BY EvidenceTypesInit DEF TypesHold
  <2>1. RowsBacked
    BY DEF Init, RowsBacked
  <2>2. NotesBacked
    BY EvidenceAssumption DEF Init, NotesBacked, Undeclared, Replies
  <2>3. HistorySound
    BY EvidenceAssumption DEF Init, HistorySound, Replies
  <2>4. PassesSound
    BY DEF Init, Resting, Off, PassesSound, PassSound
  <2> QED BY <2>1, <2>2, <2>3, <2>4 DEF EvidenceInv
<1>2. TypesHold /\ EvidenceInv /\ [Next]_vars => (TypesHold /\ EvidenceInv)'
  <2> SUFFICES ASSUME TypesHold, EvidenceInv, [Next]_vars PROVE TypesHold' /\ EvidenceInv'
    OBVIOUS
  <2>1. TypesHold'
    BY TypesStep
  <2>2. RowsBacked /\ NotesBacked /\ HistorySound /\ PassesSound
    BY DEF EvidenceInv
  <2>3. RowsBacked'
    BY <2>2, RowsStep
  <2>4. NotesBacked'
    BY <2>2, NotesStep
  <2>5. HistorySound'
    BY <2>2, HistoryStep
  <2>6. PassesSound'
    BY <2>2, PassesStep
  <2> QED BY <2>1, <2>3, <2>4, <2>5, <2>6 DEF EvidenceInv
<1> QED BY <1>1, <1>2, PTL DEF EvidenceSafety

(* A mark by address alone becomes no take through the note of another reply, *)
(* whatever notes, texts and passes come between                              *)
(* (scoutEvidenceReconcile.test.ts:146).                                      *)
THEOREM BareAddressIsNoTake == EvidenceSafety => []UrlIsNoTake
<1>1. EvidenceInv => UrlIsNoTake
  BY DEF EvidenceInv, RowsBacked, Backed, UrlIsNoTake
<1> QED BY <1>1, EvidenceInvariance, PTL
==============================================================================
