------------------------------ MODULE MarkLedger ------------------------------
(***************************************************************************)
(* Marks and the ledger of one operator (server/src/desk/                  *)
(* interactionStore.ts, interactedHttp.ts, ownReplyMark.ts,                *)
(* replyDiscover.ts, interactionSync.ts, interactionStats.ts,              *)
(* gamification.ts, dailyMissions.ts and the tick of statsWorker.ts).      *)
(*                                                                         *)
(* A mark writes the row of its thread in one database transaction and     *)
(* then credits it in a JSON file: read under the file lock, computed,     *)
(* written by a rename.  A credit that fails is noted on the row, and the  *)
(* hourly worker replays what is noted.  The API, the webhook sidecar and  *)
(* the worker are three processes that share the rows, the file and its    *)
(* lock; each may crash and leave the lock directory behind.               *)
(***************************************************************************)
EXTENDS StreakXp

CONSTANTS
  Threads,      \* thread ids, numbers: rows of one instant are ordered by them
  Replies,      \* ids of the operator's replies on X
  Parent,       \* the thread each reply answers
  Requests,     \* marks pasted by the operator (POST /api/interacted)
  Events,       \* replies reported by the webhook or found by discovery
  Brings,       \* bound: the replies each of the two may bring
  Workers,      \* ticks of the stats worker; more than one may overlap
  Claims,       \* coaching reads that claim the mission of the day
  MaxInstant,   \* bound: instants the clock runs for
  DayOf,        \* the UTC day of each instant
  PostDays,     \* days the operator posts on, marked or not (own_posts)
  MissionDays,  \* bound: days on which the mission is completed
  MaxDelay,     \* bound: instants a reply is reported after it was posted
  MaxRows,      \* MAX_INTERACTION_STORE
  TickCap,      \* DEFAULT_STATS_TICK_CAP
  MaxFaults,    \* bound: failed credits, lost notes, crashes and overlaps
  BonusXp,      \* XP of the 24h bonus
  MissionXp,    \* XP of the mission
  None,         \* no row, no ledger, no holder
  Orphan        \* a lock directory whose holder crashed

ASSUME LedgerAssumption ==
  /\ Threads \subseteq Nat
  /\ Parent \in [Replies -> Threads]
  /\ Brings \in [Requests \cup Events -> SUBSET Replies]
  /\ MaxInstant \in Nat \ {0}
  /\ DayOf \in [1 .. MaxInstant -> Nat \ {0}]
  /\ \A a, b \in 1 .. MaxInstant : a <= b => DayOf[a] <= DayOf[b]
  /\ PostDays \subseteq Nat \ {0}
  /\ MaxDelay \in Nat
  /\ MaxRows \in Nat \ {0}
  /\ TickCap \in Nat \ {0}
  /\ MaxFaults \in Nat
  /\ BonusXp \in 1 .. 5
  /\ MissionXp \in Nat \ {0}

Instants == 1 .. MaxInstant
Days == {DayOf[i] : i \in Instants} \cup PostDays
Marks == Threads \X Instants
Procs == Requests \cup Events \cup Workers \cup Claims

(* The worker is a process of its own (statsWorker.ts); None and Orphan    *)
(* are no process.                                                         *)
ASSUME ProcsAssumption ==
  /\ Workers \cap (Requests \cup Events \cup Claims) = {}
  /\ None \notin Procs /\ Orphan \notin Procs /\ None # Orphan

VARIABLES
  now,      \* the clock
  rows,     \* desk_interactions: a row per thread, or None
  ledger,   \* the ledger file, or None
  holder,   \* who holds its lock
  pc,       \* where each process is
  job,      \* what it credits: a mark, a bonus or a mission
  copy,     \* the ledger it is about to write
  robbed,   \* history: a lock was removed under a process at work in it
  tick,     \* the worker's tick: what it has listed and what is left
  claimed,  \* daily_missions: days whose mission is claimed
  faults,   \* failures so far
  made      \* history: the marks made, with the instant the reply was posted

vars == <<now, rows, ledger, holder, pc, job, copy, robbed, tick, claimed,
          faults, made>>

(***************************************************************************)
(* The rows.                                                               *)
(***************************************************************************)
Row == [at : Instants, posted : Instants, auto : BOOLEAN, reply : Replies,
        failed : BOOLEAN, pending : SUBSET Instants, t24h : BOOLEAN,
        bonusFailed : BOOLEAN]

Kept(R) == {t \in Threads : R[t] # None}
RowMarks(R) == {<<t, R[t].at>> : t \in Kept(R)}
MarkDays(M) == {DayOf[m[2]] : m \in M}

(* utcDaysFromHistory: a row counts on the day its reply was posted. *)
RowDays(R, but) ==
  {DayOf[R[t].posted] : t \in {u \in Kept(R) : <<u, R[u].at>> # but}}

Newer(R, t, u) == R[t].at > R[u].at \/ (R[t].at = R[u].at /\ t > u)

(* trimUserRows: the newest MaxRows rows survive. *)
Trimmed(R) ==
  [t \in Threads |->
     IF R[t] # None /\ Cardinality({u \in Kept(R) : Newer(R, u, t)}) >= MaxRows
     THEN None ELSE R[t]]

(* What could go wrong: a second mark of a thread forgets what the first   *)
(* one still owes.                                                         *)
MarkedAfresh(R, t, r, p, auto) ==
  LET keep == R[t] # None
  IN  Trimmed([R EXCEPT ![t] =
        [at |-> now, posted |-> p, auto |-> auto, reply |-> r,
         failed      |-> FALSE,
         pending     |-> {},
         t24h        |-> keep /\ R[t].t24h,
         bonusFailed |-> keep /\ R[t].bonusFailed]])

(* markInteracted: the row of the thread is replaced; the stats and what   *)
(* is still to be synced are kept.                                         *)
Marked(R, t, r, p, auto) ==
  LET prior == R[t]
      keep  == prior # None
  IN  Trimmed([R EXCEPT ![t] =
        [at |-> now, posted |-> p, auto |-> auto, reply |-> r,
         failed      |-> keep /\ prior.failed,
         pending     |-> IF keep THEN prior.pending ELSE {},
         t24h        |-> keep /\ prior.t24h,
         bonusFailed |-> keep /\ prior.bonusFailed]])

(***************************************************************************)
(* The ledger.  lifetimeXp is kept as the XP each mark, bonus and mission  *)
(* has brought; the file keeps their sum.                                  *)
(***************************************************************************)
Bonus(t) == [kind |-> "bonus", thread |-> t, at |-> NoDay]
Mission(d) == [kind |-> "mission", thread |-> None, at |-> d]
MarkJob(m) == [kind |-> "mark", thread |-> m[1], at |-> m[2]]
Items == {MarkJob(m) : m \in Marks} \cup {Bonus(t) : t \in Threads}
           \cup {Mission(d) : d \in Days}

Ledger == [streak : Nat, longest : Nat, last : Days \cup {NoDay},
           marks : SUBSET Marks, bonus : SUBSET Threads, xp : [Items -> Nat]]

(* The absence of a row or of a ledger is neither.                         *)
ASSUME NoneAssumption == None \notin Row /\ None \notin Ledger

(* seedGamificationFromHistory: a ledger that is absent is replayed from   *)
(* the retained rows, the oldest first.                                    *)
Seed(R) ==
  LET M == RowMarks(R)
      D == MarkDays(M)
      B == {t \in Kept(R) : R[t].t24h /\ ~R[t].auto}
  IN  [streak  |-> IF D = {} THEN 0 ELSE Run(D, LastOf(D)),
       longest |-> LongestOf(D),
       last    |-> LastOf(D),
       marks   |-> M,
       bonus   |-> B,
       xp      |-> [i \in Items |->
                      CASE i.kind = "mark" /\ <<i.thread, i.at>> \in M
                             -> MarkXp(Run(D, DayOf[i.at]))
                        [] i.kind = "bonus" /\ i.thread \in B -> BonusXp
                        [] OTHER -> 0]]

(* What could go wrong: a mark is credited without a look at its id. *)
ApplyMarkAgain(s, m) ==
  LET d == DayOf[m[2]]
      n == StreakAfter(s, d)
  IN
  IF d < s.last
  THEN [s EXCEPT !.marks = @ \cup {m},
                 !.xp[MarkJob(m)] = @ + BackdatedXp(MarkDays(s.marks), d)]
  ELSE [s EXCEPT !.marks = @ \cup {m},
                 !.xp[MarkJob(m)] = @ + MarkXp(n),
                 !.streak = n, !.longest = Larger(@, n), !.last = d]

(* applyMarkToGamification: a mark already credited changes nothing; one   *)
(* before the last marked day earns XP and leaves the streak alone.        *)
ApplyMark(s, m) ==
  LET d == DayOf[m[2]]
      n == StreakAfter(s, d)
  IN
  IF m \in s.marks THEN s
  ELSE IF d < s.last
  THEN [s EXCEPT !.marks = @ \cup {m},
                 !.xp[MarkJob(m)] = @ + BackdatedXp(MarkDays(s.marks), d)]
  ELSE
       [s EXCEPT !.marks   = @ \cup {m},
                 !.xp[MarkJob(m)] = @ + MarkXp(n),
                 !.streak  = n,
                 !.longest = Larger(@, n),
                 !.last    = d]

(* What could go wrong: a bonus is paid each time it is asked for. *)
ApplyBonusAgain(s, t) ==
  [s EXCEPT !.bonus = @ \cup {t}, !.xp[Bonus(t)] = @ + BonusXp]

(* applyT24hBonus, applyMissionXp *)
ApplyBonus(s, t) ==
  IF t \in s.bonus THEN s
  ELSE [s EXCEPT !.bonus = @ \cup {t}, !.xp[Bonus(t)] = @ + BonusXp]

ApplyMission(s, d) == [s EXCEPT !.xp[Mission(d)] = @ + MissionXp]

(* recordMarkGamification: the streak is overlaid from the rows without    *)
(* the one being credited; an absent ledger is seeded from all of them.    *)
AfterMark(s, R, m) ==
  IF s = None THEN ApplyMark(Seed(R), m)
  ELSE IF m \in s.marks THEN s
  ELSE ApplyMark(Overlay(s, RowDays(R, m), DayOf[m[2]]), m)

(* listOwnPostedAt: the days of the posts made so far. *)
Posted == {d \in PostDays : d <= DayOf[now]}

(* loadOrSeedState: what withGamificationState starts from. *)
Loaded(s, R, today) ==
  Overlay(IF s = None THEN Seed(R) ELSE s, RowDays(R, None) \cup Posted, today)

(***************************************************************************)
(* Credits: every writer takes the lock, reads the file, and writes what   *)
(* it computed from it.                                                    *)
(***************************************************************************)
NoJob == [kind |-> "none", thread |-> None, at |-> NoDay]
NoTick == [due |-> {}, retry |-> {}, left |-> {},
           snap |-> [t \in Threads |-> None]]

Init ==
  /\ now = 1
  /\ rows = [t \in Threads |-> None]
  /\ ledger = None
  /\ holder = None
  /\ pc = [p \in Procs |-> "idle"]
  /\ job = [p \in Procs |-> NoJob]
  /\ copy = [p \in Procs |-> None]
  /\ robbed = FALSE
  /\ tick = [w \in Workers |-> NoTick]
  /\ claimed = {}
  /\ faults = 0
  /\ made = {}

Goto(p, where) == pc' = [pc EXCEPT ![p] = where]
Leave(p) == Goto(p, "idle") /\ job' = [job EXCEPT ![p] = NoJob]
Credit(p, j) == job' = [job EXCEPT ![p] = j] /\ Goto(p, "credit")

(* What could go wrong: a mark is credited without the lock. *)
LoadUnlocked(p) ==
  /\ pc[p] = "credit"
  /\ LET j == job[p] IN
     copy' = [copy EXCEPT ![p] =
       CASE j.kind = "mark"  -> AfterMark(ledger, rows, <<j.thread, j.at>>)
         [] j.kind = "bonus" -> ApplyBonus(Loaded(ledger, rows, DayOf[now]), j.thread)
         [] j.kind = "mission" -> ApplyMission(Loaded(ledger, rows, j.at), j.at)]
  /\ Goto(p, "write")
  /\ UNCHANGED <<now, rows, ledger, holder, job, robbed, tick,
                 claimed, faults, made>>

(* The lock is taken. *)
Take(p) ==
  /\ pc[p] = "credit"
  /\ holder = None
  /\ holder' = p
  /\ Goto(p, "write")

(* Under it the file is read and the new ledger computed; a bonus or a     *)
(* mission writes what it seeded at once.                                  *)
Load(p) ==
  /\ Take(p)
  /\ LET j == job[p] IN
     CASE j.kind = "mark" ->
            /\ copy' = [copy EXCEPT ![p] = AfterMark(ledger, rows, <<j.thread, j.at>>)]
            /\ UNCHANGED ledger
       [] j.kind = "bonus" ->
            /\ LET s == Loaded(ledger, rows, DayOf[now]) IN
               /\ copy' = [copy EXCEPT ![p] = ApplyBonus(s, j.thread)]
               /\ ledger' = IF ledger = None THEN s ELSE ledger
       [] j.kind = "mission" ->
            /\ LET s == Loaded(ledger, rows, j.at) IN
               /\ copy' = [copy EXCEPT ![p] = ApplyMission(s, j.at)]
               /\ ledger' = IF ledger = None THEN s ELSE ledger
  /\ UNCHANGED <<now, rows, job, robbed, tick, claimed, faults, made>>

(* The file is written; the lock directory that is there is removed, made  *)
(* by this process or not.                                                 *)
Write(p) ==
  /\ pc[p] = "write"
  /\ ledger' = copy[p]
  /\ copy' = [copy EXCEPT ![p] = None]
  /\ holder' = None
  /\ IF p \in Workers THEN Goto(p, "credited") /\ UNCHANGED job ELSE Leave(p)
  /\ UNCHANGED <<now, rows, robbed, tick, claimed, faults, made>>

(* The lock is not acquired, or the file cannot be read or written. *)
Fail(p) ==
  /\ pc[p] \in {"credit", "write"}
  /\ faults < MaxFaults
  /\ faults' = faults + 1
  /\ holder' = IF pc[p] = "write" THEN None ELSE holder
  /\ copy' = [copy EXCEPT ![p] = None]
  /\ Goto(p, "failed")
  /\ UNCHANGED <<now, rows, ledger, job, robbed, tick, claimed, made>>

(* A waiter finds the lock directory a crash left behind (stat); by the    *)
(* time it removes one (rmdir), another waiter may have done so and be at  *)
(* work under a lock of its own, which is then the one removed.  A process *)
(* at work takes less than the minute that makes a lock look abandoned.    *)
FindOrphan(p) ==
  /\ pc[p] = "credit"
  /\ holder = Orphan
  /\ Goto(p, "steal")
  /\ UNCHANGED <<now, rows, ledger, holder, job, copy, robbed, tick, claimed,
                 faults, made>>

StealDir(p) ==
  /\ pc[p] = "steal"
  /\ holder' = None
  /\ robbed' = (robbed \/ holder \in Procs)
  /\ Goto(p, "credit")
  /\ UNCHANGED <<now, rows, ledger, job, copy, tick, claimed, faults, made>>

(***************************************************************************)
(* Marks.  An instant is short: no thread is marked twice in one.          *)
(***************************************************************************)
MarkRow(t, r, p, auto) ==
  /\ \A q \in Instants : <<t, now, q>> \notin made
  /\ rows' = Marked(rows, t, r, p, auto)
  /\ made' = made \cup {<<t, now, p>>}

(* POST /api/interacted: the row now, the credit after further awaits. *)
Request(p, r) ==
  /\ pc[p] = "idle"
  /\ MarkRow(Parent[r], r, now, FALSE)
  /\ Credit(p, MarkJob(<<Parent[r], now>>))
  /\ UNCHANGED <<now, ledger, holder, copy, robbed, tick, claimed, faults>>

(* The webhook goes on with a reply no row of the history has; discovery   *)
(* also leaves out a thread that has a row.                                *)
Known(r) == \E t \in Kept(rows) : rows[t].reply = r

EventRead(p, r) ==
  /\ pc[p] = "idle"
  /\ ~Known(r)
  /\ \E when \in Instants :
       /\ when <= now /\ now <= when + MaxDelay
       /\ job' = [job EXCEPT ![p] = [kind |-> r, thread |-> Parent[r], at |-> when]]
  /\ Goto(p, "read")
  /\ UNCHANGED <<now, rows, ledger, holder, copy, robbed, tick,
                 claimed, faults, made>>

(* The evidence has been awaited; the row is written without another look. *)
(* The webhook credits only a reply to a card of the desk.                 *)
EventMark(p) ==
  /\ pc[p] = "read"
  /\ MarkRow(job[p].thread, job[p].kind, job[p].at, TRUE)
  /\ \/ Credit(p, MarkJob(<<job[p].thread, now>>))
     \/ Leave(p)
  /\ UNCHANGED <<now, ledger, holder, copy, robbed, tick, claimed, faults>>

(* setGamificationSyncFailed, failed = true: the row, if it is still       *)
(* there, remembers the instant to replay.                                 *)
Note(p) ==
  /\ pc[p] = "failed" /\ p \in Requests \cup Events /\ job[p].kind = "mark"
  /\ LET t == job[p].thread IN
     rows' = IF rows[t] = None THEN rows
             ELSE [rows EXCEPT ![t].failed = TRUE,
                               ![t].pending = @ \cup {job[p].at}]
  /\ Leave(p)
  /\ UNCHANGED <<now, ledger, holder, copy, robbed, tick,
                 claimed, faults, made>>

(* That write fails too, and its failure is swallowed. *)
NoteLost(p) ==
  /\ pc[p] = "failed" /\ p \in Requests \cup Events /\ job[p].kind = "mark"
  /\ faults < MaxFaults
  /\ faults' = faults + 1
  /\ Leave(p)
  /\ UNCHANGED <<now, rows, ledger, holder, copy, robbed, tick, claimed, made>>

(***************************************************************************)
(* The mission of the day: claimed first, credited after, given back when  *)
(* the credit fails.                                                       *)
(***************************************************************************)
Claim(p) ==
  /\ pc[p] = "idle"
  /\ DayOf[now] \in MissionDays \ claimed
  /\ claimed' = claimed \cup {DayOf[now]}
  /\ Credit(p, Mission(DayOf[now]))
  /\ UNCHANGED <<now, rows, ledger, holder, copy, robbed, tick, faults, made>>

Unclaim(p) ==
  /\ pc[p] = "failed" /\ job[p].kind = "mission"
  /\ claimed' = claimed \ {job[p].at}
  /\ Leave(p)
  /\ UNCHANGED <<now, rows, ledger, holder, copy, robbed, tick, faults, made>>

(***************************************************************************)
(* The worker's tick (runStatsTick): the replies due for a 24h sample are  *)
(* listed, then the rows with something to sync; these are retried one by  *)
(* one and then the due ones sampled.                                      *)
(***************************************************************************)
Due == {t \in Kept(rows) : ~rows[t].t24h /\ DayOf[rows[t].posted] < DayOf[now]}
Flagged == {t \in Kept(rows) : rows[t].failed \/ rows[t].bonusFailed}

(* The first TickCap of each: the oldest posts, and the newest rows. *)
DueListed ==
  {t \in Due : Cardinality({u \in Due : rows[u].posted < rows[t].posted}) < TickCap}
RetriesListed ==
  {t \in Flagged : Cardinality({u \in Flagged : Newer(rows, u, t)}) < TickCap}

(* The interval fires though a tick of an hour ago may still be under way; *)
(* such an overlap counts as a failure.                                    *)
BeginTick(w) ==
  /\ pc[w] = "idle"
  /\ Goto(w, "tick")
  /\ IF \E v \in Workers : pc[v] # "idle"
     THEN faults < MaxFaults /\ faults' = faults + 1
     ELSE UNCHANGED faults
  /\ tick' = [tick EXCEPT ![w] =
                [due |-> DueListed, retry |-> RetriesListed, left |-> {},
                 snap |-> [t \in Threads |-> IF t \in RetriesListed THEN rows[t]
                                             ELSE None]]]
  /\ UNCHANGED <<now, rows, ledger, holder, job, copy, robbed, claimed, made>>

(* What could go wrong: only the newest instant of a row is replayed. *)
PendingLatest(row) == {row.at}

(* What a listed row asks to be replayed: the noted instants, or its own   *)
(* when none was noted.                                                    *)
PendingOf(row) == IF row.pending = {} THEN {row.at} ELSE row.pending

(* setGamificationSyncFailed, failed = false, with the instants replayed:  *)
(* only these leave the row, and the flag stays while others are noted.    *)
Unnoted(row, ats) ==
  IF ~row.failed THEN row
  ELSE [row EXCEPT !.pending = @ \ ats, !.failed = (row.pending \ ats # {})]

OnRow(t, row) == rows' = IF rows[t] = None THEN rows ELSE [rows EXCEPT ![t] = row]

(* The bonus of a listed row, after its marks; the listed row tells. *)
RetryBonus(w, t) ==
  IF tick[w].snap[t].bonusFailed /\ tick[w].snap[t].t24h
  THEN Credit(w, Bonus(t)) ELSE Goto(w, "tick") /\ job' = [job EXCEPT ![w] = NoJob]

(* The next noted instant of thread t, one of ats. *)
Replay(w, t, ats) ==
  \E at \in ats :
    /\ tick' = [tick EXCEPT ![w].left = ats \ {at}, ![w].retry = @ \ {t}]
    /\ Credit(w, MarkJob(<<t, at>>))

Retry(w, t) ==
  /\ pc[w] = "tick"
  /\ t \in tick[w].retry
  /\ LET row == tick[w].snap[t] IN
     \/ row.failed /\ Replay(w, t, PendingOf(row))
     \/ /\ ~row.failed
        /\ tick' = [tick EXCEPT ![w].retry = @ \ {t}]
        /\ RetryBonus(w, t)
  /\ UNCHANGED <<now, rows, ledger, holder, copy, robbed,
                 claimed, faults, made>>

(* A due reply is sampled; its metrics may not be had.  The first 24h      *)
(* sample of a row the operator marked awards the bonus.                   *)
Sample(w, t) ==
  /\ pc[w] = "tick"
  /\ tick[w].retry = {}
  /\ t \in tick[w].due
  /\ tick' = [tick EXCEPT ![w].due = @ \ {t}]
  /\ \/ UNCHANGED <<rows, job, pc>>
     \/ /\ rows[t] # None
        /\ rows' = [rows EXCEPT ![t].t24h = TRUE]
        /\ IF rows[t].auto THEN UNCHANGED <<job, pc>> ELSE Credit(w, Bonus(t))
  /\ UNCHANGED <<now, ledger, holder, copy, robbed, claimed, faults, made>>

EndTick(w) ==
  /\ pc[w] = "tick"
  /\ tick[w].retry = {} /\ tick[w].due = {}
  /\ tick' = [tick EXCEPT ![w] = NoTick]
  /\ Goto(w, "idle")
  /\ UNCHANGED <<now, rows, ledger, holder, job, copy, robbed,
                 claimed, faults, made>>

(* A mark of the worker has been credited: the next instant of its row is  *)
(* replayed, or those replayed are cleared and its bonus retried.          *)
ReplayNext(w) ==
  /\ pc[w] = "credited" /\ job[w].kind = "mark"
  /\ tick[w].left # {}
  /\ Replay(w, job[w].thread, tick[w].left)
  /\ UNCHANGED <<now, rows, ledger, holder, copy, robbed,
                 claimed, faults, made>>

ClearMark(w) ==
  /\ pc[w] = "credited" /\ job[w].kind = "mark"
  /\ tick[w].left = {}
  /\ LET t == job[w].thread IN
     /\ OnRow(t, Unnoted(rows[t], PendingOf(tick[w].snap[t])))
     /\ RetryBonus(w, t)
  /\ UNCHANGED <<now, ledger, holder, copy, robbed, tick,
                 claimed, faults, made>>

ClearBonus(w) ==
  /\ pc[w] = "credited" /\ job[w].kind = "bonus"
  /\ OnRow(job[w].thread, [rows[job[w].thread] EXCEPT !.bonusFailed = FALSE])
  /\ Goto(w, "tick")
  /\ job' = [job EXCEPT ![w] = NoJob]
  /\ UNCHANGED <<now, ledger, holder, copy, robbed, tick,
                 claimed, faults, made>>

(* A credit has failed: a mark stays noted and the bonus of its row is     *)
(* tried; a bonus just sampled is flagged, one retried stays flagged.      *)
SurviveMark(w) ==
  /\ pc[w] = "failed" /\ job[w].kind = "mark"
  /\ tick' = [tick EXCEPT ![w].left = {}]
  /\ RetryBonus(w, job[w].thread)
  /\ UNCHANGED <<now, rows, ledger, holder, copy, robbed,
                 claimed, faults, made>>

SurviveBonus(w) ==
  /\ pc[w] = "failed" /\ job[w].kind = "bonus"
  /\ LET t == job[w].thread
         retried == tick[w].snap[t] # None /\ tick[w].snap[t].t24h
     IN  IF retried THEN UNCHANGED rows
         ELSE OnRow(t, [rows[t] EXCEPT !.bonusFailed = TRUE])
  /\ Goto(w, "tick")
  /\ job' = [job EXCEPT ![w] = NoJob]
  /\ UNCHANGED <<now, ledger, holder, copy, robbed, tick,
                 claimed, faults, made>>

(***************************************************************************)
(* The environment: time, and crashes of one of the three processes.       *)
(***************************************************************************)
Pass ==
  /\ now < MaxInstant
  /\ now' = now + 1
  /\ UNCHANGED <<rows, ledger, holder, pc, job, copy, robbed, tick,
                 claimed, faults, made>>

Crash(G) ==
  /\ \E p \in G : pc[p] # "idle"
  /\ faults < MaxFaults
  /\ faults' = faults + 1
  /\ pc' = [p \in Procs |-> IF p \in G THEN "idle" ELSE pc[p]]
  /\ job' = [p \in Procs |-> IF p \in G THEN NoJob ELSE job[p]]
  /\ copy' = [p \in Procs |-> IF p \in G THEN None ELSE copy[p]]
  /\ tick' = [w \in Workers |-> IF w \in G THEN NoTick ELSE tick[w]]
  /\ holder' = IF holder \in G THEN Orphan ELSE holder
  /\ UNCHANGED <<now, rows, ledger, robbed, claimed, made>>

Step(p) == Load(p) \/ Write(p) \/ Fail(p) \/ FindOrphan(p) \/ StealDir(p)

MarkStep(p) ==
  \/ \E r \in Brings[p] : p \in Requests /\ Request(p, r)
  \/ \E r \in Brings[p] : p \in Events /\ EventRead(p, r)
  \/ EventMark(p) \/ Note(p) \/ NoteLost(p)

ClaimStep(p) == Claim(p) \/ Unclaim(p)

TickStep(w) ==
  \/ BeginTick(w) \/ EndTick(w)
  \/ \E t \in Threads : Retry(w, t) \/ Sample(w, t)
  \/ ReplayNext(w) \/ ClearMark(w) \/ ClearBonus(w)
  \/ SurviveMark(w) \/ SurviveBonus(w)

Next ==
  \/ \E p \in Procs : Step(p)
  \/ \E p \in Requests \cup Events : MarkStep(p)
  \/ \E p \in Claims : ClaimStep(p)
  \/ \E w \in Workers : TickStep(w)
  \/ \E G \in {Requests \cup Claims, Events, Workers} : Crash(G)
  \/ Pass

(* Every process goes on with what it has begun, a waiter looks at the age *)
(* of the lock it waits for, and the worker ticks again.  Failures stop at *)
(* MaxFaults and marks at MaxInstant, so the lock is not taken for ever by *)
(* others.  Only Load takes the lock, and it can whenever Take can.        *)
Going(p) ==
  \/ Write(p) \/ FindOrphan(p) \/ StealDir(p)
  \/ EventMark(p) \/ Note(p) \/ Unclaim(p)
  \/ p \in Workers /\ TickStep(p)

Fairness == \A p \in Procs : WF_<<holder, pc>>(Take(p)) /\ WF_vars(Going(p))

Spec == Init /\ [][Next]_vars /\ Fairness
-------------------------------------------------------------------------------
(***************************************************************************)
(* Properties.                                                             *)
(***************************************************************************)
(* Types, and who is at work under the lock: whose lock is there is about  *)
(* to write, and until one is robbed nobody else is; whoever is about to   *)
(* write has a computed ledger at hand.                                    *)
LedgerTypeOK ==
  /\ now \in Instants
  /\ rows \in [Threads -> Row \cup {None}]
  /\ claimed \subseteq Days
  /\ made \subseteq Threads \X Instants \X Instants
  /\ ledger \in Ledger \cup {None}
  /\ copy \in [Procs -> Ledger \cup {None}]
  /\ faults \in 0 .. MaxFaults
  /\ holder \in Procs => pc[holder] = "write"
  /\ ~robbed => \A p \in Procs : pc[p] = "write" => holder = p
  /\ \A p \in Procs : pc[p] = "write" <=> copy[p] # None

(* The days the operator was active on, by a mark or by a post. *)
Active == {DayOf[m[2]] : m \in made} \cup {DayOf[m[3]] : m \in made} \cup Posted

(* XP of a mark is worth at most the tier of the run of days the operator  *)
(* was really active on up to that mark's day: no mark is paid twice, by   *)
(* its request, a replay, a second tick or the seed, and a mark replayed   *)
(* late is not paid at the streak of the day it is replayed on             *)
(* (gamification.ts:326, gamificationXp.ts:114).                           *)
PaidAtMostItsTier ==
  ledger # None =>
    \A m \in Marks :
      ledger.xp[MarkJob(m)] <= MarkXp(Run(Active, DayOf[m[2]]))

(* The ids in the ledger and its XP tell the same story: a mark or a bonus *)
(* has brought XP exactly when its id is recorded, a bonus once, and a     *)
(* mission's XP is there once and only while the mission is claimed.       *)
BooksBalance ==
  ledger # None =>
    /\ \A m \in Marks : ledger.xp[MarkJob(m)] > 0 <=> m \in ledger.marks
    /\ \A t \in Threads :
         ledger.xp[Bonus(t)] = IF t \in ledger.bonus THEN BonusXp ELSE 0
    /\ \A d \in Days :
         /\ ledger.xp[Mission(d)] \in {0, MissionXp}
         /\ ledger.xp[Mission(d)] > 0 => d \in claimed

(* The streak shown was really earned: it is no longer than the run of     *)
(* active days that ends on the last marked day, and the longest streak    *)
(* is no shorter than it.                                                  *)
StreakIsEarned ==
  ledger # None =>
    /\ ledger.streak <= Run(Active, ledger.last)
    /\ ledger.streak <= ledger.longest

(* The ledger only grows: no step, and no two processes together, take     *)
(* back XP, a recorded mark, the longest streak or the last marked day,    *)
(* though a process may die at work and its lock be stolen by the next.    *)
(* Only a waiter that removes the lock of a process at work breaks it.     *)
LedgerGrows ==
  [][~robbed' /\ ledger # None =>
       /\ ledger' # None
       /\ ledger.marks \subseteq ledger'.marks
       /\ ledger.bonus \subseteq ledger'.bonus
       /\ \A i \in Items : ledger.xp[i] <= ledger'.xp[i]
       /\ ledger.longest <= ledger'.longest
       /\ ledger.last <= ledger'.last]_vars

(* A noted instant leaves its row only once it is credited: neither a new  *)
(* mark of the thread, nor a tick that replayed an older list, nor a       *)
(* second failure forgets it.  Only trimming the whole row does, or a      *)
(* writer whose lock was removed under it and that undid the credit.       *)
NotedUntilCredited ==
  [][~robbed' => \A t \in Threads : rows[t] # None /\ rows'[t] # None =>
       \A at \in rows[t].pending \ rows'[t].pending :
         ledger # None /\ <<t, at>> \in ledger.marks]_vars

(* What is noted is credited in the end: there is always a later state in  *)
(* which every noted instant of a row is in the ledger.                    *)
NothingOwed ==
  \A t \in Kept(rows) : \A at \in rows[t].pending :
    ledger # None /\ <<t, at>> \in ledger.marks

NotedIsCredited == []<>NothingOwed

===============================================================================
