--------------------------- MODULE MarkLedgerProofs ---------------------------
(* Proofs about MarkLedger, for every set of threads, replies and processes,  *)
(* every calendar and every bound: a mark is paid at most the tier it earned, *)
(* the ids and the XP of the ledger agree and the streak was earned; until a  *)
(* lock is removed under its holder, the ledger only grows and a noted mark   *)
(* stays noted until it is credited.                                          *)
EXTENDS MarkLedger, FiniteSetTheorems, WellFoundedInduction, TLAPS

------------------------------------------------------------------------------
(* Runs of days.                                                              *)

\* A set of days none of which is after b.
DaysTo(S, b) == S \subseteq Nat \ {0} /\ b \in Nat /\ \A d \in S : d <= b

\* A bounded set of naturals that has an element has a greatest one.
LEMMA GreatestExists ==
  ASSUME NEW S, S \subseteq Nat, S # {}, NEW b \in Nat, \A k \in S : k <= b
  PROVE  \E m \in S : \A k \in S : k <= m
<1> DEFINE T == {b - k : k \in S}
<1>0. \A k \in S : b - k \in Nat
  OBVIOUS
<1>1. T \subseteq Nat /\ T # {}
  BY <1>0
<1> HIDE DEF T
<1>2. PICK x \in T : \A y \in T : ~(<<y, x>> \in OpToRel(<, Nat))
  BY <1>1, NatLessThanWellFounded, WFMin
<1>3. \A y \in T : ~(y < x)
  BY <1>1, <1>2 DEF OpToRel
<1>4. PICK m \in S : x = b - m
  BY DEF T
<1>5. \A k \in S : b - k \in T
  BY DEF T
<1>6. ASSUME NEW k \in S
      PROVE  k <= m
  BY <1>3, <1>4, <1>5, <1>6
<1> QED BY <1>6

\* The last day of a set of days is one of them, and after none of them.
LEMMA LastOfIsLast ==
  ASSUME NEW S, NEW b, DaysTo(S, b), S # {}
  PROVE  LastOf(S) \in S /\ \A k \in S : k <= LastOf(S)
<1>1. \E m \in S : \A k \in S : k <= m
  BY GreatestExists DEF DaysTo
<1> QED BY <1>1 DEF LastOf

\* A run is finite, and no longer than the days up to its end.
LEMMA RunIsCounted ==
  ASSUME NEW S, S \subseteq Nat, NEW d \in Nat
  PROVE  /\ IsFiniteSet(RunDays(S, d))
         /\ Run(S, d) \in Nat /\ Run(S, d) <= d + 1
<1>1. RunDays(S, d) \in SUBSET Nat /\ \A k \in RunDays(S, d) : k <= d
  BY DEF RunDays
<1> QED BY <1>1, FS_BoundedSetOfNaturals, FS_CardinalityType DEF Run

\* Among more days a run is no shorter.
LEMMA RunGrows ==
  ASSUME NEW S, NEW T, S \subseteq T, T \subseteq Nat, NEW d \in Nat
  PROVE  Run(S, d) <= Run(T, d)
<1>1. RunDays(S, d) \in SUBSET RunDays(T, d)
  BY DEF RunDays
<1>2. IsFiniteSet(RunDays(T, d))
  BY RunIsCounted
<1> QED BY <1>1, <1>2, FS_Subset DEF Run

\* A run that ends on one of the days has at least that day.
LEMMA RunHasItsEnd ==
  ASSUME NEW S, S \subseteq Nat, NEW d \in S
  PROVE  Run(S, d) >= 1
<1>1. {d} \in SUBSET RunDays(S, d)
  BY DEF RunDays
<1>2. IsFiniteSet(RunDays(S, d)) /\ Run(S, d) \in Nat
  BY RunIsCounted
<1>3. Cardinality({d}) = 1
  BY FS_Singleton
<1> QED BY <1>1, <1>2, <1>3, FS_Subset DEF Run

\* The next day makes a run one day longer.
LEMMA RunExtends ==
  ASSUME NEW S, S \subseteq Nat, NEW d \in Nat, d + 1 \in S
  PROVE  Run(S, d) + 1 <= Run(S, d + 1)
<1>1. IsFiniteSet(RunDays(S, d)) /\ IsFiniteSet(RunDays(S, d + 1))
  BY RunIsCounted
<1>2. d + 1 \notin RunDays(S, d)
  BY DEF RunDays
<1>3. Cardinality(RunDays(S, d) \cup {d + 1}) = Run(S, d) + 1
  BY <1>1, <1>2, FS_AddElement DEF Run
<1>4. RunDays(S, d) \cup {d + 1} \in SUBSET RunDays(S, d + 1)
  <2>1. ASSUME NEW k \in RunDays(S, d)
        PROVE  k \in RunDays(S, d + 1)
    <3>1. k \in S /\ k \in Nat /\ k <= d /\ (k .. d) \subseteq S
      BY DEF RunDays
    <3>2. \A i \in k .. (d + 1) : i \in k .. d \/ i = d + 1
      BY <3>1
    <3> QED BY <3>1, <3>2 DEF RunDays
  <2>2. d + 1 \in RunDays(S, d + 1)
    <3>1. \A i \in (d + 1) .. (d + 1) : i = d + 1
      OBVIOUS
    <3> QED BY <3>1 DEF RunDays
  <2> QED BY <2>1, <2>2
<1>5. Cardinality(RunDays(S, d) \cup {d + 1}) <= Run(S, d + 1)
  BY <1>1, <1>4, FS_Subset DEF Run
<1> QED BY <1>3, <1>5

\* No run ends before the first day there is.
LEMMA RunOfNoDay ==
  ASSUME NEW S, S \subseteq Nat \ {0}
  PROVE  Run(S, NoDay) = 0
<1>1. RunDays(S, NoDay) = {}
  BY DEF RunDays, NoDay
<1> QED BY <1>1, FS_EmptySet DEF Run

\* The longest streak of a set of days is no shorter than any of its runs.
LEMMA LongestIsLongest ==
  ASSUME NEW S, NEW b, DaysTo(S, b)
  PROVE  LongestOf(S) \in Nat /\ \A d \in S : Run(S, d) <= LongestOf(S)
<1>1. CASE S = {}
  BY <1>1 DEF LongestOf
<1>2. CASE S # {}
  <2> DEFINE L == {Run(S, d) : d \in S}
  <2>1. \A d \in S : Run(S, d) \in Nat /\ Run(S, d) <= b + 1
    <3> TAKE d \in S
    <3>1. d \in Nat /\ d <= b /\ b \in Nat
      BY DEF DaysTo
    <3>2. Run(S, d) \in Nat /\ Run(S, d) <= d + 1
      BY <3>1, RunIsCounted DEF DaysTo
    <3> QED BY <3>1, <3>2
  <2>2. L \subseteq Nat /\ L # {} /\ \A n \in L : n <= b + 1
    BY <1>2, <2>1
  <2>3. b + 1 \in Nat
    BY DEF DaysTo
  <2>4. PICK n \in L : \A o \in L : o <= n
    <3> HIDE DEF L
    <3> QED BY <2>2, <2>3, GreatestExists
  <2>5. \E d \in S : \A k \in S : Run(S, k) <= Run(S, d)
    BY <2>4
  <2> DEFINE best == CHOOSE d \in S : \A k \in S : Run(S, k) <= Run(S, d)
  <2>6. best \in S /\ \A k \in S : Run(S, k) <= Run(S, best)
    BY <2>5
  <2> HIDE DEF best, L
  <2>7. LongestOf(S) = Run(S, best)
    BY <1>2 DEF LongestOf, best
  <2> QED BY <2>1, <2>6, <2>7
<1> QED BY <1>1, <1>2

\* XP of a mark: between 1 and 5, and no less for a longer streak.
LEMMA MarkXpGrows ==
  ASSUME NEW m \in Nat, NEW n \in Nat, m <= n
  PROVE  MarkXp(m) \in 1 .. 5 /\ MarkXp(m) <= MarkXp(n)
BY DEF MarkXp

------------------------------------------------------------------------------
(* Ledgers.  A ledger is good for a set A of active days and a set M of marks *)
(* made when nothing in it goes beyond them.                                  *)

Earned(s, A) ==
  /\ s.last \in A \cup {NoDay}
  /\ s.streak <= Run(A, s.last)
  /\ s.streak <= s.longest

Balanced(s) ==
  /\ \A m \in Marks : s.xp[MarkJob(m)] > 0 <=> m \in s.marks
  /\ \A t \in Threads : s.xp[Bonus(t)] = IF t \in s.bonus THEN BonusXp ELSE 0
  /\ \A d \in Days : s.xp[Mission(d)] \in {0, MissionXp}

Paid(s, A) == \A m \in Marks : s.xp[MarkJob(m)] <= MarkXp(Run(A, DayOf[m[2]]))

GoodFor(s, A, M) ==
  s \in Ledger /\ s.marks \subseteq M /\ Earned(s, A) /\ Balanced(s) /\ Paid(s, A)

(* A ledger s2 has everything s1 has.                                         *)
Grown(s1, s2) ==
  /\ s1.marks \subseteq s2.marks
  /\ s1.bonus \subseteq s2.bonus
  /\ \A i \in Items : s1.xp[i] <= s2.xp[i]
  /\ s1.longest <= s2.longest
  /\ s1.last <= s2.last

(* The missions two ledgers have been paid are the same.                      *)
SameMissions(s1, s2) == \A d \in Days : s2.xp[Mission(d)] = s1.xp[Mission(d)]

(* Active days and marks made that belong together.                           *)
World(A, M) ==
  /\ A \subseteq Days /\ \E b : DaysTo(A, b)
  /\ M \subseteq Marks /\ \A m \in M : DayOf[m[2]] \in A

\* The calendar, and what XP is booked under.
LEMMA Calendar ==
  /\ Days \subseteq Nat \ {0}
  /\ \A i \in Instants : DayOf[i] \in Days
  /\ \A m \in Marks : /\ m[1] \in Threads /\ m[2] \in Instants /\ m = <<m[1], m[2]>>
                      /\ DayOf[m[2]] \in Days /\ DayOf[m[2]] \in Nat \ {0}
<1>1. \A i \in Instants : DayOf[i] \in Days /\ DayOf[i] \in Nat \ {0}
  BY LedgerAssumption DEF Days, Instants
<1>2. Days \subseteq Nat \ {0}
  BY <1>1, LedgerAssumption DEF Days
<1>3. \A m \in Marks : m[1] \in Threads /\ m[2] \in Instants /\ m = <<m[1], m[2]>>
  BY DEF Marks
<1> QED BY <1>1, <1>2, <1>3

LEMMA ItemsAreDistinct ==
  /\ \A m \in Marks : MarkJob(m) \in Items
  /\ \A t \in Threads : Bonus(t) \in Items
  /\ \A d \in Days : Mission(d) \in Items
  /\ \A m, n \in Marks : MarkJob(m) = MarkJob(n) => m = n
  /\ \A t, u \in Threads : Bonus(t) = Bonus(u) => t = u
  /\ \A d, e \in Days : Mission(d) = Mission(e) => d = e
  /\ \A m \in Marks, t \in Threads : MarkJob(m) # Bonus(t)
  /\ \A m \in Marks, d \in Days : MarkJob(m) # Mission(d)
  /\ \A t \in Threads, d \in Days : Bonus(t) # Mission(d)
<1>1. \A m, n \in Marks : MarkJob(m) = MarkJob(n) => m = n
  <2> SUFFICES ASSUME NEW m \in Marks, NEW n \in Marks, MarkJob(m) = MarkJob(n)
               PROVE  m = n
    OBVIOUS
  <2>1. MarkJob(m).thread = m[1] /\ MarkJob(m).at = m[2]
    BY DEF MarkJob
  <2>2. MarkJob(n).thread = n[1] /\ MarkJob(n).at = n[2]
    BY DEF MarkJob
  <2> QED BY <2>1, <2>2, Calendar
<1>2. \A t, u \in Threads : Bonus(t) = Bonus(u) => t = u
  BY DEF Bonus
<1>3. \A d, e \in Days : Mission(d) = Mission(e) => d = e
  BY DEF Mission
<1>4. \A m \in Marks, t \in Threads : MarkJob(m) # Bonus(t)
  BY DEF MarkJob, Bonus
<1>5. \A m \in Marks, d \in Days : MarkJob(m) # Mission(d)
  BY DEF MarkJob, Mission
<1>6. \A t \in Threads, d \in Days : Bonus(t) # Mission(d)
  BY DEF Bonus, Mission
<1>7. /\ \A m \in Marks : MarkJob(m) \in Items
      /\ \A t \in Threads : Bonus(t) \in Items
      /\ \A d \in Days : Mission(d) \in Items
  BY DEF Items
<1> QED BY <1>1, <1>2, <1>3, <1>4, <1>5, <1>6, <1>7

\* A part of the active days has a last day and runs no longer than theirs.
LEMMA PartOfActive ==
  ASSUME NEW A, NEW S, S \subseteq A, A \subseteq Days, \E b : DaysTo(A, b)
  PROVE  /\ \E b : DaysTo(S, b)
         /\ \A d \in Nat : /\ Run(S, d) \in Nat /\ Run(A, d) \in Nat
                           /\ Run(S, d) <= Run(A, d)
         /\ S # {} => /\ LastOf(S) \in S /\ LastOf(S) \in Nat \ {0}
                      /\ Run(S, LastOf(S)) <= LongestOf(S)
         /\ LongestOf(S) \in Nat
<1>1. PICK b : DaysTo(A, b)
  OBVIOUS
<1>2. DaysTo(S, b) /\ S \subseteq Nat /\ A \subseteq Nat
  BY <1>1 DEF DaysTo
<1>3. \A d \in Nat : Run(S, d) \in Nat /\ Run(A, d) \in Nat /\ Run(S, d) <= Run(A, d)
  BY <1>2, RunIsCounted, RunGrows
<1>4. S # {} => LastOf(S) \in S /\ LastOf(S) \in Nat \ {0}
  BY <1>2, LastOfIsLast DEF DaysTo
<1>5. LongestOf(S) \in Nat /\ \A d \in S : Run(S, d) <= LongestOf(S)
  BY <1>2, LongestIsLongest
<1> QED BY <1>2, <1>3, <1>4, <1>5

\* The streak overlaid from active days is as good as the stored one.
LEMMA OverlayIsGood ==
  ASSUME NEW A, NEW M, World(A, M), NEW s, GoodFor(s, A, M),
         NEW S, S \subseteq A, NEW today \in Nat
  PROVE  LET n == Overlay(s, S, today) IN
         /\ GoodFor(n, A, M) /\ Grown(s, n) /\ SameMissions(s, n)
         /\ n.marks = s.marks
<1> DEFINE n == Overlay(s, S, today)
<1>1. s \in Ledger /\ s.last \in Nat /\ s.streak \in Nat /\ s.longest \in Nat
      /\ \A i \in Items : s.xp[i] \in Nat
  BY Calendar DEF GoodFor, Ledger, NoDay
<1>2. CASE S = {}
  <2>1. n = s
    BY <1>2 DEF Overlay
  <2> QED BY <1>1, <2>1 DEF Grown, SameMissions
<1>3. CASE S # {}
  <2> DEFINE current == CurrentOf(S, today)
             last == LastOf(S)
             longest == LongestOf(S)
  <2>1. /\ last \in S /\ last \in Nat \ {0} /\ last \in Days /\ longest \in Nat
        /\ Run(S, last) \in Nat /\ Run(S, last) <= Run(A, last)
        /\ Run(S, last) <= longest /\ Run(A, last) \in Nat
    BY <1>3, PartOfActive DEF World
  <2>2. current \in Nat /\ current <= Run(S, last)
    BY <2>1 DEF CurrentOf
  <2>3. n = [s EXCEPT !.streak  = IF OverlayWins(s, S, today) THEN current ELSE @,
                      !.last    = IF OverlayWins(s, S, today) THEN last ELSE @,
                      !.longest = Larger(@, longest)]
    BY <1>3 DEF Overlay
  <2>4. OverlayWins(s, S, today) => last >= s.last
    BY <1>1, <2>1 DEF OverlayWins
  <2> HIDE DEF current, last, longest, n
  <2>5. /\ n.streak  = IF OverlayWins(s, S, today) THEN current ELSE s.streak
        /\ n.last    = IF OverlayWins(s, S, today) THEN last ELSE s.last
        /\ n.longest = Larger(s.longest, longest)
        /\ n.marks = s.marks /\ n.bonus = s.bonus /\ n.xp = s.xp
    BY <1>1, <2>3 DEF Ledger
  <2>6. Larger(s.longest, longest) \in Nat /\ Larger(s.longest, longest) >= s.longest
        /\ Larger(s.longest, longest) >= longest
    BY <1>1, <2>1 DEF Larger
  <2>7. n \in Ledger
    BY <1>1, <2>1, <2>2, <2>3, <2>6 DEF Ledger
  <2>8. Earned(n, A)
    <3>1. CASE OverlayWins(s, S, today)
      BY <2>1, <2>2, <2>5, <2>6, <3>1 DEF Earned
    <3>2. CASE ~OverlayWins(s, S, today)
      BY <1>1, <2>5, <2>6, <3>2 DEF Earned, GoodFor
    <3> QED BY <3>1, <3>2
  <2>9. Balanced(n) /\ Paid(n, A) /\ n.marks \subseteq M
    BY <2>5 DEF GoodFor, Balanced, Paid
  <2>10. Grown(s, n)
    BY <1>1, <2>1, <2>4, <2>5, <2>6 DEF Grown
  <2> QED BY <2>5, <2>7, <2>8, <2>9, <2>10 DEF GoodFor, SameMissions, n
<1> QED BY <1>2, <1>3

\* The streak after a mark on an active day is no longer than the run of active
\* days that ends there.
LEMMA StreakAfterIsEarned ==
  ASSUME NEW A, A \subseteq Nat \ {0}, NEW s, s.last \in A \cup {NoDay},
         s.streak \in Nat, s.streak <= Run(A, s.last), NEW d \in A
  PROVE  StreakAfter(s, d) \in Nat \ {0} /\ StreakAfter(s, d) <= Run(A, d)
<1>1. d \in Nat /\ Run(A, d) \in Nat /\ Run(A, d) >= 1
  BY RunIsCounted, RunHasItsEnd
<1>2. CASE s.last = NoDay
  <2>1. StreakAfter(s, d) = 1
    BY <1>2 DEF StreakAfter
  <2> QED BY <1>1, <2>1
<1>3. CASE s.last # NoDay
  <2>1. s.last \in A /\ s.last \in Nat /\ s.last # 0
    BY <1>3 DEF NoDay
  <2>2. Run(A, s.last) \in Nat /\ Run(A, s.last) >= 1
    BY <2>1, RunIsCounted, RunHasItsEnd
  <2>3. Larger(1, s.streak) \in Nat \ {0} /\ Larger(1, s.streak) <= Run(A, s.last)
    BY <2>2 DEF Larger
  <2>4. CASE s.last = d
    <3>1. StreakAfter(s, d) = Larger(1, s.streak)
      BY <1>3, <2>4 DEF StreakAfter
    <3> QED BY <2>3, <2>4, <3>1
  <2>5. CASE s.last + 1 = d
    <3>1. StreakAfter(s, d) = Larger(1, s.streak) + 1
      BY <1>3, <2>1, <2>5 DEF StreakAfter
    <3>2. Run(A, s.last) + 1 <= Run(A, d)
      BY <2>1, <2>5, RunExtends
    <3> QED BY <1>1, <2>2, <2>3, <3>1, <3>2
  <2>6. CASE s.last # d /\ s.last + 1 # d
    <3>1. StreakAfter(s, d) = 1
      BY <1>3, <2>6 DEF StreakAfter
    <3> QED BY <1>1, <3>1
  <2> QED BY <2>4, <2>5, <2>6
<1> QED BY <1>2, <1>3

(* x XP more are booked under item i.                                         *)
Books(s, n, i, x) == n.xp = [s.xp EXCEPT ![i] = @ + x]

\* XP booked under one more mark keeps the books: what is said of the other
\* items still holds.
LEMMA BookedMark ==
  ASSUME NEW A, NEW M, NEW s, GoodFor(s, A, M), NEW m \in M, M \subseteq Marks,
         m \notin s.marks, NEW x \in Nat \ {0}, x <= MarkXp(Run(A, DayOf[m[2]])),
         NEW n, Books(s, n, MarkJob(m), x),
         n.marks = s.marks \cup {m}, n.bonus = s.bonus
  PROVE  /\ n.marks \subseteq M /\ Balanced(n) /\ Paid(n, A)
         /\ n.xp \in [Items -> Nat] /\ SameMissions(s, n)
         /\ \A i \in Items : s.xp[i] <= n.xp[i]
<1>1. s.xp \in [Items -> Nat] /\ m \in Marks /\ MarkJob(m) \in Items
  BY ItemsAreDistinct DEF GoodFor, Ledger
<1>2. s.xp[MarkJob(m)] = 0
  <2>1. s.xp[MarkJob(m)] \in Nat /\ ~(s.xp[MarkJob(m)] > 0)
    BY <1>1 DEF GoodFor, Balanced
  <2> QED BY <2>1
<1>3. n.xp \in [Items -> Nat]
      /\ \A i \in Items : n.xp[i] = IF i = MarkJob(m) THEN x ELSE s.xp[i]
  BY <1>1, <1>2 DEF Books
<1>4. \A k \in Marks : n.xp[MarkJob(k)] = IF k = m THEN x ELSE s.xp[MarkJob(k)]
  BY <1>1, <1>3, ItemsAreDistinct
<1>5. \A t \in Threads : n.xp[Bonus(t)] = s.xp[Bonus(t)]
  BY <1>1, <1>3, ItemsAreDistinct
<1>6. \A d \in Days : n.xp[Mission(d)] = s.xp[Mission(d)]
  BY <1>1, <1>3, ItemsAreDistinct
<1>7. Balanced(n)
  BY <1>4, <1>5, <1>6 DEF Balanced, GoodFor
<1>8. Paid(n, A)
  BY <1>4 DEF Paid, GoodFor
<1>9. \A i \in Items : s.xp[i] <= n.xp[i]
  BY <1>1, <1>2, <1>3
<1>10. n.marks \subseteq M
  BY DEF GoodFor
<1> QED BY <1>3, <1>6, <1>7, <1>8, <1>9, <1>10 DEF SameMissions

\* The days of marks made are active days.
LEMMA MarkDaysAreActive ==
  ASSUME NEW A, NEW M, World(A, M), NEW N, N \subseteq M
  PROVE  MarkDays(N) \subseteq A
BY DEF World, MarkDays

\* A credited mark leaves a good ledger good, and takes nothing back.
LEMMA MarkIsGood ==
  ASSUME NEW A, NEW M, World(A, M), NEW s, GoodFor(s, A, M), NEW m \in M
  PROVE  LET n == ApplyMark(s, m) IN
         /\ GoodFor(n, A, M) /\ Grown(s, n) /\ SameMissions(s, n)
         /\ m \in n.marks
<1> DEFINE n == ApplyMark(s, m)
           d == DayOf[m[2]]
           x == StreakAfter(s, d)
<1>1. /\ s \in Ledger /\ s.last \in Nat /\ s.streak \in Nat /\ s.longest \in Nat
      /\ \A i \in Items : s.xp[i] \in Nat
      /\ s.xp \in [Items -> Nat]
  BY Calendar DEF GoodFor, Ledger, NoDay
<1>2. d \in A /\ m \in Marks /\ d \in Nat \ {0} /\ d \in Days
      /\ A \subseteq Nat \ {0} /\ A \subseteq Nat /\ M \subseteq Marks
  BY Calendar DEF World
<1>3. CASE m \in s.marks
  <2>1. n = s
    BY <1>3 DEF ApplyMark
  <2> QED BY <1>1, <1>3, <2>1 DEF Grown, SameMissions
<1>4. CASE m \notin s.marks /\ d < s.last
  <2> DEFINE days == {k \in MarkDays(s.marks) : k <= d} \cup {d}
             paid == BackdatedXp(MarkDays(s.marks), d)
  <2>1. n = [s EXCEPT !.marks = @ \cup {m}, !.xp[MarkJob(m)] = @ + paid]
    BY <1>4 DEF ApplyMark
  <2>2. paid \in Nat \ {0} /\ paid <= MarkXp(Run(A, d))
    <3>1. days \subseteq A
      BY <1>2, MarkDaysAreActive DEF GoodFor
    <3>2. Run(days, d) \in Nat /\ Run(A, d) \in Nat /\ Run(days, d) <= Run(A, d)
      BY <1>2, <3>1, PartOfActive DEF World
    <3> HIDE DEF days
    <3>3. paid = MarkXp(Run(days, d))
      BY DEF BackdatedXp, days
    <3>4. MarkXp(Run(days, d)) \in 1 .. 5
          /\ MarkXp(Run(days, d)) <= MarkXp(Run(A, d))
      BY <3>2, MarkXpGrows
    <3> QED BY <3>3, <3>4
  <2> HIDE DEF n, d, x, days, paid
  <2>3. /\ Books(s, n, MarkJob(m), paid)
        /\ n.marks = s.marks \cup {m} /\ n.bonus = s.bonus
        /\ n.last = s.last /\ n.streak = s.streak /\ n.longest = s.longest
    BY <1>1, <2>1 DEF Ledger, Books
  <2>4. /\ n.marks \subseteq M /\ Balanced(n) /\ Paid(n, A)
        /\ n.xp \in [Items -> Nat] /\ SameMissions(s, n)
        /\ \A i \in Items : s.xp[i] <= n.xp[i]
    <3>1. paid <= MarkXp(Run(A, DayOf[m[2]]))
      BY <2>2 DEF d
    <3> QED BY <1>2, <1>4, <2>2, <2>3, <3>1, BookedMark
  <2>5. n \in Ledger
    BY <1>1, <1>2, <2>1, <2>3, <2>4 DEF Ledger
  <2>6. Earned(n, A)
    BY <2>3 DEF Earned, GoodFor
  <2>7. Grown(s, n)
    BY <1>1, <2>3, <2>4 DEF Grown
  <2> QED BY <2>3, <2>4, <2>5, <2>6, <2>7 DEF GoodFor, n
<1>5. CASE m \notin s.marks /\ ~(d < s.last)
  <2>1. n = [s EXCEPT !.marks = @ \cup {m}, !.xp[MarkJob(m)] = @ + MarkXp(x),
                      !.streak = x, !.longest = Larger(@, x), !.last = d]
    BY <1>5 DEF ApplyMark
  <2>2. x \in Nat \ {0} /\ x <= Run(A, d) /\ Run(A, d) \in Nat
    BY <1>1, <1>2, StreakAfterIsEarned, RunIsCounted DEF GoodFor, Earned
  <2>3. MarkXp(x) \in Nat \ {0} /\ MarkXp(x) <= MarkXp(Run(A, d))
    BY <2>2, MarkXpGrows
  <2>4. /\ Larger(s.longest, x) \in Nat /\ Larger(s.longest, x) >= s.longest
        /\ Larger(s.longest, x) >= x
    BY <1>1, <2>2 DEF Larger
  <2> HIDE DEF n, d, x
  <2>5. /\ Books(s, n, MarkJob(m), MarkXp(x))
        /\ n.marks = s.marks \cup {m} /\ n.bonus = s.bonus
        /\ n.last = d /\ n.streak = x /\ n.longest = Larger(s.longest, x)
    BY <1>1, <2>1 DEF Ledger, Books
  <2>6. /\ n.marks \subseteq M /\ Balanced(n) /\ Paid(n, A)
        /\ n.xp \in [Items -> Nat] /\ SameMissions(s, n)
        /\ \A i \in Items : s.xp[i] <= n.xp[i]
    <3>1. MarkXp(x) <= MarkXp(Run(A, DayOf[m[2]]))
      BY <2>3 DEF d
    <3> QED BY <1>2, <1>5, <2>3, <2>5, <3>1, BookedMark
  <2>7. n \in Ledger
    BY <1>1, <1>2, <2>1, <2>2, <2>4, <2>5, <2>6 DEF Ledger
  <2>8. Earned(n, A)
    BY <1>2, <2>2, <2>4, <2>5 DEF Earned
  <2>9. Grown(s, n)
    BY <1>1, <1>2, <1>5, <2>4, <2>5, <2>6 DEF Grown
  <2> QED BY <2>5, <2>6, <2>7, <2>8, <2>9 DEF GoodFor, n
<1> QED BY <1>3, <1>4, <1>5

\* A bonus is booked once, and leaves a good ledger good.
LEMMA BonusIsGood ==
  ASSUME NEW A, NEW M, NEW s, GoodFor(s, A, M), NEW t \in Threads
  PROVE  LET n == ApplyBonus(s, t) IN
         GoodFor(n, A, M) /\ Grown(s, n) /\ SameMissions(s, n)
<1> DEFINE n == ApplyBonus(s, t)
<1>1. /\ s \in Ledger /\ s.last \in Nat /\ s.longest \in Nat
      /\ s.xp \in [Items -> Nat] /\ Bonus(t) \in Items
  BY Calendar, ItemsAreDistinct DEF GoodFor, Ledger, NoDay
<1>2. CASE t \in s.bonus
  <2>1. n = s
    BY <1>2 DEF ApplyBonus
  <2> QED BY <1>1, <2>1 DEF Grown, SameMissions
<1>3. CASE t \notin s.bonus
  <2>1. n = [s EXCEPT !.bonus = @ \cup {t}, !.xp[Bonus(t)] = @ + BonusXp]
    BY <1>3 DEF ApplyBonus
  <2> HIDE DEF n
  <2>2. /\ n.xp = [s.xp EXCEPT ![Bonus(t)] = @ + BonusXp]
        /\ n.marks = s.marks /\ n.bonus = s.bonus \cup {t}
        /\ n.last = s.last /\ n.streak = s.streak /\ n.longest = s.longest
    BY <1>1, <2>1 DEF Ledger
  <2>3. s.xp[Bonus(t)] = 0 /\ BonusXp \in Nat
    BY <1>3, LedgerAssumption DEF GoodFor, Balanced
  <2>4. n.xp \in [Items -> Nat]
        /\ \A i \in Items : n.xp[i] = IF i = Bonus(t) THEN BonusXp ELSE s.xp[i]
    BY <1>1, <2>2, <2>3
  <2>5. \A m \in Marks : n.xp[MarkJob(m)] = s.xp[MarkJob(m)]
    BY <2>4, ItemsAreDistinct
  <2>6. \A d \in Days : n.xp[Mission(d)] = s.xp[Mission(d)]
    BY <2>4, ItemsAreDistinct
  <2>7. \A u \in Threads : n.xp[Bonus(u)] = IF u = t THEN BonusXp ELSE s.xp[Bonus(u)]
    BY <2>4, ItemsAreDistinct
  <2>8. Balanced(n) /\ Paid(n, A)
    BY <2>2, <2>5, <2>6, <2>7 DEF GoodFor, Balanced, Paid
  <2>9. n \in Ledger
    BY <1>1, <2>1, <2>2, <2>4 DEF Ledger
  <2>10. Earned(n, A) /\ n.marks \subseteq M
    BY <2>2 DEF Earned, GoodFor
  <2>11. Grown(s, n)
    BY <1>1, <2>2, <2>3, <2>4 DEF Grown
  <2> QED BY <2>6, <2>8, <2>9, <2>10, <2>11 DEF GoodFor, SameMissions, n
<1> QED BY <1>2, <1>3

\* A mission that has brought nothing yet brings its XP, and nothing else moves.
LEMMA MissionIsGood ==
  ASSUME NEW A, NEW M, NEW s, GoodFor(s, A, M), NEW d \in Days, s.xp[Mission(d)] = 0
  PROVE  LET n == ApplyMission(s, d) IN
         /\ GoodFor(n, A, M) /\ Grown(s, n)
         /\ \A e \in Days : e # d => n.xp[Mission(e)] = s.xp[Mission(e)]
<1> DEFINE n == ApplyMission(s, d)
<1>1. /\ s \in Ledger /\ s.last \in Nat /\ s.longest \in Nat
      /\ s.xp \in [Items -> Nat] /\ Mission(d) \in Items /\ MissionXp \in Nat
  BY Calendar, ItemsAreDistinct, LedgerAssumption DEF GoodFor, Ledger, NoDay
<1>2. n = [s EXCEPT !.xp[Mission(d)] = @ + MissionXp]
  BY DEF ApplyMission
<1> HIDE DEF n
<1>3. /\ n.xp = [s.xp EXCEPT ![Mission(d)] = @ + MissionXp]
      /\ n.marks = s.marks /\ n.bonus = s.bonus
      /\ n.last = s.last /\ n.streak = s.streak /\ n.longest = s.longest
  BY <1>1, <1>2 DEF Ledger
<1>4. n.xp \in [Items -> Nat]
      /\ \A i \in Items : n.xp[i] = IF i = Mission(d) THEN MissionXp ELSE s.xp[i]
  BY <1>1, <1>3
<1>5. \A m \in Marks : n.xp[MarkJob(m)] = s.xp[MarkJob(m)]
  BY <1>4, ItemsAreDistinct
<1>6. \A e \in Days : n.xp[Mission(e)] = IF e = d THEN MissionXp ELSE s.xp[Mission(e)]
  BY <1>4, ItemsAreDistinct
<1>7. \A t \in Threads : n.xp[Bonus(t)] = s.xp[Bonus(t)]
  BY <1>4, ItemsAreDistinct
<1>8. Balanced(n) /\ Paid(n, A)
  BY <1>3, <1>5, <1>6, <1>7 DEF GoodFor, Balanced, Paid
<1>9. n \in Ledger
  BY <1>1, <1>2, <1>3, <1>4 DEF Ledger
<1>10. Earned(n, A) /\ n.marks \subseteq M
  BY <1>3 DEF Earned, GoodFor
<1>11. Grown(s, n)
  BY <1>1, <1>3, <1>4 DEF Grown
<1> QED BY <1>6, <1>8, <1>9, <1>10, <1>11 DEF GoodFor, n

(* Rows that tell of marks made: R is the table, M and A what was made.       *)
RowsWithin(R, A, M) ==
  /\ R \in [Threads -> Row \cup {None}]
  /\ \A t \in Kept(R) : <<t, R[t].at>> \in M /\ DayOf[R[t].posted] \in A

\* A ledger replayed from rows of marks made is good, and pays no mission.
LEMMA SeedIsGood ==
  ASSUME NEW A, NEW M, World(A, M), NEW R, RowsWithin(R, A, M)
  PROVE  /\ GoodFor(Seed(R), A, M)
         /\ \A d \in Days : Seed(R).xp[Mission(d)] = 0
<1> DEFINE N == RowMarks(R)
           D == MarkDays(N)
           B == {t \in Kept(R) : R[t].t24h /\ ~R[t].auto}
           s == Seed(R)
           X(i) == CASE i.kind = "mark" /\ <<i.thread, i.at>> \in N
                          -> MarkXp(Run(D, DayOf[i.at]))
                     [] i.kind = "bonus" /\ i.thread \in B -> BonusXp
                     [] OTHER -> 0
<1>1. N \subseteq M /\ N \subseteq Marks
  BY DEF RowMarks, RowsWithin, World
<1>2. D \subseteq A
  BY <1>1, MarkDaysAreActive
<1>3. B \subseteq Threads
  BY DEF Kept
<1>4. /\ \A d \in Nat : /\ Run(D, d) \in Nat /\ Run(A, d) \in Nat
                        /\ Run(D, d) <= Run(A, d)
      /\ D # {} => /\ LastOf(D) \in D /\ LastOf(D) \in Nat \ {0}
                   /\ Run(D, LastOf(D)) <= LongestOf(D)
      /\ LongestOf(D) \in Nat
  BY <1>2, PartOfActive DEF World
<1> HIDE DEF N, D, B, X
<1>5. /\ s.streak = (IF D = {} THEN 0 ELSE Run(D, LastOf(D)))
      /\ s.longest = LongestOf(D) /\ s.last = LastOf(D)
      /\ s.marks = N /\ s.bonus = B
      /\ s.xp = [i \in Items |-> X(i)]
  BY DEF Seed, N, D, B, X
<1>6. s = [streak |-> s.streak, longest |-> s.longest, last |-> s.last,
           marks |-> s.marks, bonus |-> s.bonus, xp |-> s.xp]
  BY DEF Seed
<1>7. ASSUME NEW m \in Marks
      PROVE  /\ X(MarkJob(m)) = IF m \in N THEN MarkXp(Run(D, DayOf[m[2]])) ELSE 0
             /\ X(MarkJob(m)) \in Nat
             /\ X(MarkJob(m)) > 0 <=> m \in N
             /\ X(MarkJob(m)) <= MarkXp(Run(A, DayOf[m[2]]))
  <2>1. /\ MarkJob(m).kind = "mark" /\ MarkJob(m).at = m[2]
        /\ <<MarkJob(m).thread, MarkJob(m).at>> = m
    BY Calendar DEF MarkJob
  <2>2. X(MarkJob(m)) = IF m \in N THEN MarkXp(Run(D, DayOf[m[2]])) ELSE 0
    <3>1. CASE m \in N
      BY <2>1, <3>1 DEF X
    <3>2. CASE m \notin N
      BY <2>1, <3>2 DEF X
    <3> QED BY <3>1, <3>2
  <2>3. DayOf[m[2]] \in Nat
    BY Calendar
  <2>4. /\ MarkXp(Run(D, DayOf[m[2]])) \in 1 .. 5
        /\ MarkXp(Run(D, DayOf[m[2]])) <= MarkXp(Run(A, DayOf[m[2]]))
    BY <1>4, <2>3, MarkXpGrows
  <2>5. MarkXp(Run(A, DayOf[m[2]])) \in 1 .. 5
    BY <1>4, <2>3, MarkXpGrows
  <2> QED BY <2>2, <2>4, <2>5
<1>8. \A t \in Threads : X(Bonus(t)) = IF t \in B THEN BonusXp ELSE 0
  <2> TAKE t \in Threads
  <2>1. Bonus(t).kind = "bonus" /\ Bonus(t).thread = t
    BY DEF Bonus
  <2>2. CASE t \in B
    BY <2>1, <2>2 DEF X
  <2>3. CASE t \notin B
    BY <2>1, <2>3 DEF X
  <2> QED BY <2>2, <2>3
<1>9. \A d \in Days : X(Mission(d)) = 0
  <2> TAKE d \in Days
  <2>1. Mission(d).kind = "mission"
    BY DEF Mission
  <2> QED BY <2>1 DEF X
<1>10. \A i \in Items : X(i) \in Nat
  BY <1>7, <1>8, <1>9, LedgerAssumption DEF Items
<1> HIDE DEF s
<1>11. s.xp \in [Items -> Nat] /\ \A i \in Items : s.xp[i] = X(i)
  BY <1>5, <1>10
<1>12. /\ s.last \in A \cup {NoDay} /\ s.last \in Days \cup {NoDay}
       /\ s.streak \in Nat /\ s.longest \in Nat
       /\ s.streak <= Run(A, s.last) /\ s.streak <= s.longest
  <2>1. CASE D = {}
    <3>1. s.last = NoDay /\ s.streak = 0 /\ NoDay \in Nat
      BY <1>5, <2>1 DEF LastOf, NoDay
    <3> QED BY <1>4, <1>5, <3>1
  <2>2. CASE D # {}
    BY <1>2, <1>4, <1>5, <2>2 DEF World
  <2> QED BY <2>1, <2>2
<1>13. s \in Ledger
  BY <1>1, <1>3, <1>5, <1>6, <1>11, <1>12 DEF Ledger
<1>14. Balanced(s) /\ Paid(s, A)
  BY <1>5, <1>7, <1>8, <1>9, <1>11, ItemsAreDistinct DEF Balanced, Paid
<1>15. Earned(s, A) /\ s.marks \subseteq M
  BY <1>1, <1>5, <1>12 DEF Earned
<1>16. \A d \in Days : s.xp[Mission(d)] = 0
  BY <1>9, <1>11, ItemsAreDistinct
<1> QED BY <1>13, <1>14, <1>15, <1>16 DEF GoodFor, s

\* Having grown twice is having grown.
LEMMA GrownTwice ==
  ASSUME NEW a \in Ledger, NEW b \in Ledger, NEW c \in Ledger,
         Grown(a, b), Grown(b, c)
  PROVE  Grown(a, c)
<1>1. /\ \A i \in Items : a.xp[i] \in Nat /\ b.xp[i] \in Nat /\ c.xp[i] \in Nat
      /\ a.last \in Nat /\ b.last \in Nat /\ c.last \in Nat
      /\ a.longest \in Nat /\ b.longest \in Nat /\ c.longest \in Nat
  BY Calendar DEF Ledger, NoDay
<1> QED BY <1>1 DEF Grown

\* A ledger has everything it has.
LEMMA GrownByNothing ==
  ASSUME NEW s \in Ledger
  PROVE  Grown(s, s)
<1>1. /\ \A i \in Items : s.xp[i] \in Nat
      /\ s.last \in Nat /\ s.longest \in Nat
  BY Calendar DEF Ledger, NoDay
<1> QED BY <1>1 DEF Grown

\* A ledger stays good when more days are active and more marks are made.
LEMMA GoodInMore ==
  ASSUME NEW A, NEW B, NEW M, NEW N, A \subseteq B, B \subseteq Days, M \subseteq N,
         NEW s, GoodFor(s, A, M)
  PROVE  GoodFor(s, B, N)
<1>1. A \subseteq Nat /\ B \subseteq Nat
  BY Calendar
<1>2. \A d \in Nat : /\ Run(A, d) \in Nat /\ Run(B, d) \in Nat
                     /\ Run(A, d) <= Run(B, d)
  BY <1>1, RunIsCounted, RunGrows
<1>3. /\ s.last \in Nat /\ s.streak \in Nat
      /\ \A m \in Marks : s.xp[MarkJob(m)] \in Nat
  BY Calendar, ItemsAreDistinct DEF GoodFor, Ledger, NoDay
<1>4. Earned(s, B)
  BY <1>2, <1>3 DEF GoodFor, Earned
<1>5. Paid(s, B)
  <2> SUFFICES ASSUME NEW m \in Marks
               PROVE  s.xp[MarkJob(m)] <= MarkXp(Run(B, DayOf[m[2]]))
    BY DEF Paid
  <2>1. DayOf[m[2]] \in Nat
    BY Calendar
  <2>2. /\ MarkXp(Run(A, DayOf[m[2]])) \in 1 .. 5 /\ MarkXp(Run(B, DayOf[m[2]])) \in 1 .. 5
        /\ MarkXp(Run(A, DayOf[m[2]])) <= MarkXp(Run(B, DayOf[m[2]]))
    BY <1>2, <2>1, MarkXpGrows
  <2>3. s.xp[MarkJob(m)] <= MarkXp(Run(A, DayOf[m[2]]))
    BY DEF GoodFor, Paid
  <2> QED BY <1>3, <2>2, <2>3
<1> QED BY <1>4, <1>5 DEF GoodFor

(* What a credit may make of a stored ledger s, absent or good: one that is   *)
(* good, has grown, and pays no mission anew.                                 *)
Follows(s, n, A, M) ==
  /\ GoodFor(n, A, M)
  /\ s # None => Grown(s, n) /\ SameMissions(s, n)
  /\ s = None => \A d \in Days : n.xp[Mission(d)] = 0

\* A mark credited from the file, or from the rows when there is no file.
LEMMA AfterMarkFollows ==
  ASSUME NEW A, NEW M, World(A, M), NEW R, RowsWithin(R, A, M),
         NEW s, s # None => GoodFor(s, A, M), NEW m \in M
  PROVE  Follows(s, AfterMark(s, R, m), A, M) /\ m \in AfterMark(s, R, m).marks
<1> DEFINE n == AfterMark(s, R, m)
<1>1. CASE s = None
  <2>1. n = ApplyMark(Seed(R), m)
    BY <1>1 DEF AfterMark
  <2>2. GoodFor(Seed(R), A, M) /\ \A d \in Days : Seed(R).xp[Mission(d)] = 0
    BY SeedIsGood
  <2>3. GoodFor(n, A, M) /\ SameMissions(Seed(R), n) /\ m \in n.marks
    BY <2>1, <2>2, MarkIsGood
  <2> HIDE DEF n
  <2>4. \A d \in Days : n.xp[Mission(d)] = 0
    BY <2>2, <2>3 DEF SameMissions
  <2> QED BY <1>1, <2>3, <2>4 DEF Follows, n
<1>2. CASE s # None /\ m \in s.marks
  <2>1. n = s
    BY <1>2 DEF AfterMark
  <2>2. s \in Ledger
    BY <1>2 DEF GoodFor
  <2> QED BY <1>2, <2>1, <2>2, GrownByNothing DEF Follows, SameMissions
<1>3. CASE s # None /\ m \notin s.marks
  <2> DEFINE S == RowDays(R, m)
             o == Overlay(s, S, DayOf[m[2]])
  <2>1. n = ApplyMark(o, m)
    BY <1>3 DEF AfterMark
  <2>2. S \subseteq A
    BY DEF RowDays, RowsWithin
  <2>3. DayOf[m[2]] \in Nat
    BY Calendar DEF World
  <2>4. GoodFor(o, A, M) /\ Grown(s, o) /\ SameMissions(s, o)
    BY <1>3, <2>2, <2>3, OverlayIsGood
  <2> HIDE DEF n, o
  <2>5. GoodFor(n, A, M) /\ Grown(o, n) /\ SameMissions(o, n) /\ m \in n.marks
    BY <2>1, <2>4, MarkIsGood
  <2>6. Grown(s, n)
    BY <1>3, <2>4, <2>5, GrownTwice DEF GoodFor
  <2> QED BY <1>3, <2>4, <2>5, <2>6 DEF Follows, SameMissions, n
<1> QED BY <1>1, <1>2, <1>3

\* What every other credit starts from.
LEMMA LoadedFollows ==
  ASSUME NEW A, NEW M, World(A, M), NEW R, RowsWithin(R, A, M), Posted \subseteq A,
         NEW s, s # None => GoodFor(s, A, M), NEW today \in Nat
  PROVE  Follows(s, Loaded(s, R, today), A, M)
<1> DEFINE n == Loaded(s, R, today)
           S == RowDays(R, None) \cup Posted
           o == IF s = None THEN Seed(R) ELSE s
<1>1. n = Overlay(o, S, today)
  BY DEF Loaded
<1>2. S \subseteq A
  BY DEF RowDays, RowsWithin
<1>3. GoodFor(o, A, M) /\ (s = None => \A d \in Days : o.xp[Mission(d)] = 0)
  BY SeedIsGood
<1>4. s # None => o = s
  OBVIOUS
<1> HIDE DEF n, o, S
<1>5. GoodFor(n, A, M) /\ Grown(o, n) /\ SameMissions(o, n)
  BY <1>1, <1>2, <1>3, OverlayIsGood
<1> QED BY <1>3, <1>4, <1>5 DEF Follows, SameMissions, n

\* A bonus on top of it, and a mission that is still unpaid.
LEMMA BonusFollows ==
  ASSUME NEW A, NEW M, NEW s, s # None => s \in Ledger,
         NEW o, Follows(s, o, A, M), NEW t \in Threads
  PROVE  Follows(s, ApplyBonus(o, t), A, M) /\ Grown(o, ApplyBonus(o, t))
<1>1. GoodFor(o, A, M) /\ o \in Ledger
  BY DEF Follows, GoodFor
<1> DEFINE n == ApplyBonus(o, t)
<1>2. GoodFor(n, A, M) /\ Grown(o, n) /\ SameMissions(o, n)
  BY <1>1, BonusIsGood
<1> HIDE DEF n
<1>3. n \in Ledger
  BY <1>2 DEF GoodFor
<1>4. s # None => Grown(s, n)
  BY <1>1, <1>2, <1>3, GrownTwice DEF Follows
<1> QED BY <1>2, <1>4 DEF Follows, SameMissions, n

Unpaid(s, d) == s # None => s.xp[Mission(d)] = 0
PaysOnly(d, o, n) == \A e \in Days : e # d => n.xp[Mission(e)] = o.xp[Mission(e)]

LEMMA MissionFollows ==
  ASSUME NEW A, NEW M, NEW s, s # None => s \in Ledger,
         NEW o, Follows(s, o, A, M), NEW d \in Days,
         Unpaid(s, d)
  PROVE  /\ GoodFor(ApplyMission(o, d), A, M) /\ Grown(o, ApplyMission(o, d))
         /\ s # None => Grown(s, ApplyMission(o, d))
         /\ PaysOnly(d, o, ApplyMission(o, d))
<1>1. GoodFor(o, A, M) /\ o \in Ledger
  BY DEF Follows, GoodFor
<1>2. o.xp[Mission(d)] = 0
  BY DEF Follows, SameMissions, Unpaid
<1> DEFINE n == ApplyMission(o, d)
<1>3. /\ GoodFor(n, A, M) /\ Grown(o, n)
      /\ \A e \in Days : e # d => n.xp[Mission(e)] = o.xp[Mission(e)]
  BY <1>1, <1>2, MissionIsGood
<1> HIDE DEF n
<1>4. n \in Ledger
  BY <1>3 DEF GoodFor
<1>5. s # None => Grown(s, n)
  BY <1>1, <1>3, <1>4, GrownTwice DEF Follows
<1> QED BY <1>3, <1>5 DEF n, PaysOnly

------------------------------------------------------------------------------
(* The inductive invariant.                                                   *)

Table == [Threads -> Row \cup {None}]
Busy == {"credit", "steal", "write", "failed", "credited"}
Stages == Busy \cup {"idle", "read", "tick"}
Job == [kind : {"none", "mark", "bonus", "mission"} \cup Replies,
        thread : Threads \cup {None}, at : Nat]
Tick == [due : SUBSET Threads, retry : SUBSET Threads, left : SUBSET Instants,
         snap : Table]

TypeInv ==
  /\ now \in Instants
  /\ rows \in Table
  /\ holder \in Procs \cup {None, Orphan}
  /\ pc \in [Procs -> Stages]
  /\ job \in [Procs -> Job]
  /\ tick \in [Workers -> Tick]
  /\ claimed \subseteq Days
  /\ faults \in 0 .. MaxFaults
  /\ made \subseteq Threads \X Instants \X Instants
  /\ copy \in [Procs -> Ledger \cup {None}]
  /\ ledger \in Ledger \cup {None}
  /\ robbed \in BOOLEAN

\* Whose lock is there is about to write, and until one is robbed nobody else is;
\* whoever is about to write has computed a ledger.
LockInv == \A p \in Procs : /\ holder = p => pc[p] = "write"
                            /\ ~robbed /\ pc[p] = "write" => holder = p
                            /\ pc[p] = "write" <=> copy[p] # None

(* The marks made, as the ledger names them.                                  *)
Made == {<<m[1], m[2]>> : m \in made}

\* A row, the table's or one a tick has listed, tells of marks really made.
TrueRow(t, row) ==
  /\ <<t, row.at, row.posted>> \in made
  /\ \A at \in row.pending : <<t, at>> \in Made

MadeInv == \A m \in made : m[2] <= now /\ m[3] <= now
RowsInv == \A t \in Threads : rows[t] # None => TrueRow(t, rows[t])

\* What a process credits: a mark made, a bonus (the worker) or a mission that
\* it has claimed (a request).
JobOK(p) ==
  /\ pc[p] = "read" =>
       job[p].kind \in Replies /\ job[p].thread \in Threads /\ job[p].at \in 1 .. now
  /\ pc[p] = "credited" => p \in Workers
  /\ pc[p] \in Busy =>
       \/ \E m \in Made : job[p] = MarkJob(m)
       \/ \E t \in Threads : job[p] = Bonus(t) /\ p \in Workers
       \/ \E d \in claimed : job[p] = Mission(d) /\ p \notin Workers

Credited(t, at) == ledger # None /\ <<t, at>> \in ledger.marks

\* While the worker replays a row, what the row asked for is still to be
\* replayed, being replayed, or credited, until a lock is robbed and a credit
\* overwritten.
Replaying(w) ==
  LET t == job[w].thread IN
  /\ tick[w].snap[t] # None
  /\ \A at \in tick[w].left : <<t, at>> \in Made
  /\ ~robbed => \A at \in PendingOf(tick[w].snap[t]) :
       at \in tick[w].left \/ at = job[w].at \/ Credited(t, at)
  /\ ~robbed /\ pc[w] = "credited" => Credited(t, job[w].at)

TickOK(w) ==
  /\ \A t \in Threads : tick[w].snap[t] # None => TrueRow(t, tick[w].snap[t])
  /\ \A t \in tick[w].retry : tick[w].snap[t] # None
  /\ pc[w] \in Busy /\ job[w].kind = "mark" => Replaying(w)

ProcsInv == /\ \A p \in Procs : JobOK(p)
            /\ \A w \in Workers : TickOK(w)

\* The stored ledger is good; one about to be written is good and holds the mark
\* it was computed for, and until a lock is robbed it has grown from the stored
\* one.
LedgersInv ==
  /\ ledger # None => GoodFor(ledger, Active, Made)
  /\ \A p \in Procs : pc[p] = "write" =>
       /\ GoodFor(copy[p], Active, Made)
       /\ ~robbed /\ ledger # None => Grown(ledger, copy[p])
       /\ job[p].kind = "mark" => <<job[p].thread, job[p].at>> \in copy[p].marks

Completing(p, d) == pc[p] \in Busy /\ job[p] = Mission(d)

\* A mission is being credited by one request, and has brought nothing yet.
MissionInv ==
  \A d \in Days :
    /\ \A p, q \in Procs : Completing(p, d) /\ Completing(q, d) => p = q
    /\ ledger # None /\ ledger.xp[Mission(d)] > 0 =>
         d \in claimed /\ \A p \in Procs : ~Completing(p, d)
    /\ \A q \in Procs : pc[q] = "write" /\ copy[q].xp[Mission(d)] > 0 =>
         d \in claimed /\ \A p \in Procs : Completing(p, d) => p = q

IInv == /\ TypeInv /\ LockInv /\ MadeInv /\ RowsInv
        /\ ProcsInv /\ LedgersInv /\ MissionInv

------------------------------------------------------------------------------
(* Consequences of the invariant.                                             *)

\* Processes of different kinds.
LEMMA Kinds ==
  /\ Requests \subseteq Procs /\ Events \subseteq Procs
  /\ Workers \subseteq Procs /\ Claims \subseteq Procs
  /\ \A p \in Requests \cup Events \cup Claims : p \notin Workers
BY ProcsAssumption DEF Procs

\* What was made and when the operator was active belong together.
LEMMA WorldOfState ==
  ASSUME TypeInv, MadeInv
  PROVE  World(Active, Made) /\ Posted \subseteq Active
<1>1. \A m \in made : /\ m[1] \in Threads /\ m[2] \in Instants /\ m[3] \in Instants
                      /\ m[2] <= now /\ m[3] <= now
  BY DEF TypeInv, MadeInv
<1>2. /\ now \in Instants /\ DayOf[now] \in Nat
      /\ \A i \in Instants : DayOf[i] \in Days /\ DayOf[i] \in Nat \ {0}
      /\ \A i \in Instants : i <= now => DayOf[i] <= DayOf[now]
  BY Calendar, LedgerAssumption DEF TypeInv, Instants
<1>3. Posted \subseteq Days /\ \A d \in Posted : d \in Nat \ {0} /\ d <= DayOf[now]
  BY LedgerAssumption DEF Posted, Days
<1>4. \A d \in Active : d \in Days /\ d \in Nat \ {0} /\ d <= DayOf[now]
  BY <1>1, <1>2, <1>3 DEF Active
<1>5. DaysTo(Active, DayOf[now])
  BY <1>2, <1>4 DEF DaysTo
<1>6. Made \subseteq Marks
  BY <1>1 DEF Made, Marks
<1>7. \A m \in Made : DayOf[m[2]] \in Active
  <2> TAKE m \in Made
  <2>1. PICK k \in made : m = <<k[1], k[2]>>
    BY DEF Made
  <2>2. m[2] = k[2]
    BY <2>1
  <2> QED BY <2>2 DEF Active
<1>8. Posted \subseteq Active
  BY DEF Active
<1> QED BY <1>4, <1>5, <1>6, <1>7, <1>8 DEF World

\* The rows tell of marks made on active days.
LEMMA RowsAreWithin ==
  ASSUME TypeInv, RowsInv
  PROVE  RowsWithin(rows, Active, Made)
<1> SUFFICES ASSUME NEW t \in Kept(rows)
             PROVE  <<t, rows[t].at>> \in Made /\ DayOf[rows[t].posted] \in Active
  BY DEF RowsWithin, TypeInv, Table
<1>1. <<t, rows[t].at, rows[t].posted>> \in made
  BY DEF Kept, RowsInv, TrueRow
<1> DEFINE m == <<t, rows[t].at, rows[t].posted>>
<1>2. m[1] = t /\ m[2] = rows[t].at /\ m[3] = rows[t].posted
  OBVIOUS
<1>3. <<t, rows[t].at>> \in Made
  BY <1>1, <1>2 DEF Made
<1>4. DayOf[rows[t].posted] \in Active
  BY <1>1, <1>2 DEF Active
<1> QED BY <1>3, <1>4

\* Time and marks only add to the active days.
LEMMA ActiveGrows ==
  ASSUME TypeInv, TypeInv', MadeInv', made \subseteq made', now <= now'
  PROVE  /\ Active \subseteq Active' /\ Active' \subseteq Days
         /\ Made \subseteq Made'
<1>1. DayOf[now] <= DayOf[now'] /\ DayOf[now] \in Nat /\ DayOf[now'] \in Nat
  BY Calendar, LedgerAssumption DEF TypeInv, Instants
<1>2. Posted \subseteq Posted'
  <2>1. \A d \in PostDays : d \in Nat
    BY LedgerAssumption
  <2>2. \A d \in PostDays : d <= DayOf[now] => d <= DayOf[now']
    BY <1>1, <2>1
  <2> QED BY <2>2 DEF Posted
<1>3. Active \subseteq Active'
  BY <1>2 DEF Active
<1>4. Made \subseteq Made'
  BY DEF Made
<1>5. (World(Active, Made))'
  BY WorldOfState, PTL
<1> QED BY <1>3, <1>4, <1>5 DEF World

------------------------------------------------------------------------------
(* Rows.                                                                      *)

\* What a noted row owes leaves it only when it is credited.
KeepsNoted == ~robbed =>
  \A t \in Threads : rows[t] # None /\ rows'[t] # None =>
    \A at \in rows[t].pending \ rows'[t].pending : Credited(t, at)

\* What a step that changes rows leaves behind.
RowsKept == rows' \in Table /\ RowsInv' /\ KeepsNoted

\* Trimming takes rows out and changes none.
LEMMA TrimmedKeeps ==
  ASSUME NEW R \in Table
  PROVE  /\ Trimmed(R) \in Table
         /\ \A t \in Threads : Trimmed(R)[t] = None \/ Trimmed(R)[t] = R[t]
BY DEF Trimmed, Table

\* A mark replaces the row of its thread, which keeps what it owes.
LEMMA MarkedKeeps ==
  ASSUME TypeInv, NEW t \in Threads, NEW r \in Replies, NEW p \in Instants,
         NEW auto \in BOOLEAN
  PROVE  LET n == Marked(rows, t, r, p, auto) IN
         /\ n \in Table
         /\ \A u \in Threads : u # t => n[u] = None \/ n[u] = rows[u]
         /\ n[t] # None =>
              /\ n[t].at = now /\ n[t].posted = p
              /\ n[t].pending = IF rows[t] # None THEN rows[t].pending ELSE {}
<1> DEFINE prior == rows[t]
           keep == prior # None
           row == [at |-> now, posted |-> p, auto |-> auto, reply |-> r,
                   failed      |-> keep /\ prior.failed,
                   pending     |-> IF keep THEN prior.pending ELSE {},
                   t24h        |-> keep /\ prior.t24h,
                   bonusFailed |-> keep /\ prior.bonusFailed]
           R == [rows EXCEPT ![t] = row]
<1>1. rows \in Table /\ now \in Instants /\ prior \in Row \cup {None}
  BY DEF TypeInv, Table
<1>2. row \in Row
  <2>1. CASE keep
    BY <1>1, <2>1 DEF Row
  <2>2. CASE ~keep
    BY <1>1, <2>2 DEF Row
  <2> QED BY <2>1, <2>2
<1>3. /\ row.at = now /\ row.posted = p
      /\ row.pending = IF rows[t] # None THEN rows[t].pending ELSE {}
  OBVIOUS
<1> HIDE DEF row
<1>4. R \in Table /\ R[t] = row /\ \A u \in Threads : u # t => R[u] = rows[u]
  BY <1>1, <1>2 DEF Table
<1>5. Marked(rows, t, r, p, auto) = Trimmed(R)
  BY DEF Marked, row
<1> HIDE DEF R
<1> QED BY <1>3, <1>4, <1>5, TrimmedKeeps

\* A mark: one more is made, and its row tells of it.
LEMMA MarkRowKeeps ==
  ASSUME TypeInv, MadeInv, RowsInv, NEW t \in Threads, NEW r \in Replies,
         NEW p \in 1 .. now, NEW auto \in BOOLEAN, MarkRow(t, r, p, auto), now' = now
  PROVE  /\ RowsKept /\ made \subseteq made' /\ MadeInv'
         /\ made' \subseteq Threads \X Instants \X Instants
         /\ <<t, now>> \in Made' /\ Made \subseteq Made'
<1>1. now \in Instants /\ p \in Instants /\ p <= now /\ now \in Nat
  BY LedgerAssumption DEF TypeInv, Instants
<1>2. /\ rows' = Marked(rows, t, r, p, auto)
      /\ made' = made \cup {<<t, now, p>>}
  BY DEF MarkRow
<1>3. /\ rows' \in Table
      /\ \A u \in Threads : u # t => rows'[u] = None \/ rows'[u] = rows[u]
      /\ rows'[t] # None =>
           /\ rows'[t].at = now /\ rows'[t].posted = p
           /\ rows'[t].pending = IF rows[t] # None THEN rows[t].pending ELSE {}
  BY <1>1, <1>2, MarkedKeeps
<1>4. made \subseteq made' /\ MadeInv'
      /\ made' \subseteq Threads \X Instants \X Instants
  BY <1>1, <1>2 DEF MadeInv, TypeInv
<1>5. <<t, now>> \in Made' /\ Made \subseteq Made'
  <2> DEFINE m == <<t, now, p>>
  <2>1. m \in made' /\ m[1] = t /\ m[2] = now
    BY <1>2
  <2> HIDE DEF m
  <2>2. <<t, now>> \in Made'
    BY <2>1 DEF Made
  <2>3. Made \subseteq Made'
    BY <1>2 DEF Made
  <2> QED BY <2>2, <2>3
<1>6. RowsInv'
  <2> SUFFICES ASSUME NEW u \in Threads, rows'[u] # None
               PROVE  TrueRow(u, rows[u])'
    BY DEF RowsInv
  <2>1. CASE u # t
    BY <1>3, <1>4, <1>5, <2>1 DEF RowsInv, TrueRow
  <2>2. CASE u = t
    BY <1>2, <1>3, <1>5, <2>2 DEF RowsInv, TrueRow
  <2> QED BY <2>1, <2>2
<1>7. KeepsNoted
  BY <1>3 DEF KeepsNoted
<1> QED BY <1>3, <1>4, <1>5, <1>6, <1>7 DEF RowsKept

\* A row rewritten in place: it still tells of marks made, and it lets go of
\* nothing that is not credited.
LEMMA RewrittenKeeps ==
  ASSUME TypeInv, RowsInv, NEW t \in Threads, NEW row, made' = made,
         rows' = IF rows[t] = None THEN rows ELSE [rows EXCEPT ![t] = row],
         rows[t] # None =>
           /\ row \in Row /\ TrueRow(t, row)
           /\ ~robbed => \A at \in rows[t].pending \ row.pending : Credited(t, at)
  PROVE  RowsKept
<1>1. CASE rows[t] = None
  <2>1. rows' = rows
    BY <1>1
  <2> QED BY <2>1 DEF RowsKept, TypeInv, RowsInv, TrueRow, Made, KeepsNoted
<1>2. CASE rows[t] # None
  <2>1. rows' = [rows EXCEPT ![t] = row]
    BY <1>2
  <2>2. rows' \in Table /\ rows'[t] = row
        /\ \A u \in Threads : u # t => rows'[u] = rows[u]
    BY <1>2, <2>1 DEF TypeInv, Table
  <2>3. RowsInv'
    BY <1>2, <2>2 DEF RowsInv, TrueRow, Made
  <2>4. KeepsNoted
    BY <1>2, <2>2 DEF KeepsNoted
  <2> QED BY <2>2, <2>3, <2>4 DEF RowsKept
<1> QED BY <1>1, <1>2

\* Rows that are left alone.
LEMMA UntouchedKeeps ==
  ASSUME TypeInv, RowsInv, rows' = rows, made' = made
  PROVE  RowsKept
BY DEF RowsKept, TypeInv, RowsInv, TrueRow, Made, KeepsNoted

------------------------------------------------------------------------------
(* Moves: the steps of one process that leave clock, ledger and lock alone.   *)

Moved(p) ==
  /\ UNCHANGED <<now, ledger, holder, copy, robbed>>
  /\ pc[p] # "write"
  /\ pc' \in [Procs -> Stages] /\ pc'[p] \in {"idle", "read", "tick", "credit"}
  /\ job' \in [Procs -> Job]
  /\ tick' \in [Workers -> Tick]
  /\ \A q \in Procs : q # p => pc'[q] = pc[q] /\ job'[q] = job[q]
  /\ \A w \in Workers : w # p => tick'[w] = tick[w]
  /\ faults' \in 0 .. MaxFaults
  /\ claimed' \subseteq Days
  /\ made \subseteq made' /\ Made \subseteq Made' /\ MadeInv'
  /\ made' \subseteq Threads \X Instants \X Instants
  /\ RowsKept
  /\ JobOK(p)'
  /\ p \in Workers => TickOK(p)'

\* The claims change by a claim and its return only; no other move starts or
\* ends the credit of a mission.
Aside(p) == claimed' = claimed /\ \A d \in Days : ~Completing(p, d)'

\* What is read off the kinds of jobs.
LEMMA JobKinds ==
  /\ \A m \in Marks : /\ MarkJob(m).kind = "mark" /\ MarkJob(m).thread = m[1]
                      /\ MarkJob(m).at = m[2] /\ MarkJob(m) \in Job
  /\ \A t \in Threads : /\ Bonus(t).kind = "bonus" /\ Bonus(t).thread = t
                        /\ Bonus(t) \in Job
  /\ \A d \in Days : /\ Mission(d).kind = "mission" /\ Mission(d).at = d
                     /\ Mission(d) \in Job
  /\ NoJob \in Job /\ NoJob.kind = "none"
<1>1. \A m \in Marks : m[1] \in Threads /\ m[2] \in Nat
  BY Calendar DEF Instants
<1>2. \A d \in Days : d \in Nat
  BY Calendar
<1> QED BY <1>1, <1>2 DEF MarkJob, Bonus, Mission, NoJob, Job, NoDay

\* A process that credits a mark credits one that was made.
LEMMA MarkJobsAreMade ==
  ASSUME TypeInv, MadeInv, NEW p \in Procs, JobOK(p), pc[p] \in Busy,
         job[p].kind = "mark"
  PROVE  /\ <<job[p].thread, job[p].at>> \in Made
         /\ job[p].thread \in Threads /\ job[p].at \in Instants
         /\ job[p] = MarkJob(<<job[p].thread, job[p].at>>)
<1>1. Made \subseteq Marks
  BY WorldOfState DEF World
<1>2. PICK m \in Made : job[p] = MarkJob(m)
  BY JobKinds DEF JobOK, TypeInv
<1>3. job[p].thread = m[1] /\ job[p].at = m[2] /\ m = <<m[1], m[2]>>
      /\ m[1] \in Threads /\ m[2] \in Instants
  BY <1>1, <1>2, JobKinds, Calendar
<1> QED BY <1>2, <1>3

\* A pasted mark.
LEMMA RequestMoves ==
  ASSUME IInv, NEW p \in Requests, NEW r \in Replies, Request(p, r)
  PROVE  Moved(p) /\ Aside(p)
<1>1. /\ p \in Procs /\ p \notin Workers /\ Parent[r] \in Threads
      /\ now \in 1 .. now /\ now \in Instants /\ pc[p] = "idle"
  BY Kinds, LedgerAssumption DEF IInv, TypeInv, Instants, Request
<1>2. /\ RowsKept /\ made \subseteq made' /\ MadeInv'
      /\ made' \subseteq Threads \X Instants \X Instants
      /\ <<Parent[r], now>> \in Made' /\ Made \subseteq Made'
  BY <1>1, MarkRowKeeps DEF Request, IInv
<1> DEFINE m == <<Parent[r], now>>
<1>3. m \in Marks
  BY <1>1 DEF Marks
<1> HIDE DEF m
<1>4. job' = [job EXCEPT ![p] = MarkJob(m)] /\ pc' = [pc EXCEPT ![p] = "credit"]
  BY DEF Request, Credit, Goto, m
<1>5. /\ job' \in [Procs -> Job] /\ job'[p] = MarkJob(m)
      /\ pc' \in [Procs -> Stages] /\ pc'[p] = "credit"
      /\ \A q \in Procs : q # p => pc'[q] = pc[q] /\ job'[q] = job[q]
  BY <1>1, <1>3, <1>4, JobKinds DEF IInv, TypeInv, Stages, Busy
<1>6. JobOK(p)'
  BY <1>2, <1>5 DEF JobOK, m
<1>7. Aside(p)
  BY <1>3, <1>5, ItemsAreDistinct DEF Aside, Completing, Request
<1> QED BY <1>1, <1>2, <1>5, <1>6, <1>7 DEF Moved, Request, IInv, TypeInv

\* A reported reply is looked up in the history.
LEMMA EventReadMoves ==
  ASSUME IInv, NEW p \in Events, NEW r \in Replies, EventRead(p, r)
  PROVE  Moved(p) /\ Aside(p)
<1>1. /\ p \in Procs /\ p \notin Workers /\ Parent[r] \in Threads /\ pc[p] = "idle"
      /\ now \in Nat
  BY Kinds, LedgerAssumption DEF IInv, TypeInv, Instants, EventRead
<1>2. PICK when \in Instants : when <= now /\
        job' = [job EXCEPT ![p] = [kind |-> r, thread |-> Parent[r], at |-> when]]
  BY DEF EventRead
<1>3. [kind |-> r, thread |-> Parent[r], at |-> when] \in Job
  BY <1>1, <1>2 DEF Job, Instants
<1>4. /\ job' \in [Procs -> Job]
      /\ job'[p] = [kind |-> r, thread |-> Parent[r], at |-> when]
      /\ pc' \in [Procs -> Stages] /\ pc'[p] = "read"
      /\ \A q \in Procs : q # p => pc'[q] = pc[q] /\ job'[q] = job[q]
  BY <1>1, <1>2, <1>3 DEF EventRead, Goto, IInv, TypeInv, Stages, Busy
<1>5. JobOK(p)'
  BY <1>1, <1>2, <1>4 DEF JobOK, Busy, EventRead, Instants
<1>6. RowsKept /\ Made' = Made /\ MadeInv'
  BY UntouchedKeeps DEF EventRead, IInv, Made, MadeInv
<1>7. Aside(p)
  BY <1>4 DEF Aside, Completing, Busy, EventRead
<1> QED BY <1>1, <1>4, <1>5, <1>6, <1>7 DEF Moved, EventRead, IInv, TypeInv

\* The marked reply, credited or left to the row alone.
LEMMA EventMarkMoves ==
  ASSUME IInv, NEW p \in Requests \cup Events, EventMark(p)
  PROVE  Moved(p) /\ Aside(p)
<1>1. /\ p \in Procs /\ p \notin Workers /\ pc[p] = "read"
      /\ now \in Instants
  BY Kinds DEF IInv, TypeInv, EventMark
<1> DEFINE t == job[p].thread
           m == <<t, now>>
<1>2. t \in Threads /\ job[p].kind \in Replies /\ job[p].at \in 1 .. now
  BY <1>1 DEF IInv, ProcsInv, JobOK
<1> HIDE DEF t
<1>3. /\ RowsKept /\ made \subseteq made' /\ MadeInv'
      /\ made' \subseteq Threads \X Instants \X Instants
      /\ m \in Made' /\ Made \subseteq Made'
  BY <1>2, MarkRowKeeps DEF EventMark, IInv, t
<1>4. m \in Marks
  BY <1>1, <1>2 DEF Marks
<1> HIDE DEF m
<1>5. CASE Credit(p, MarkJob(m))
  <2>1. /\ job' \in [Procs -> Job] /\ job'[p] = MarkJob(m)
        /\ pc' \in [Procs -> Stages] /\ pc'[p] = "credit"
        /\ \A q \in Procs : q # p => pc'[q] = pc[q] /\ job'[q] = job[q]
    BY <1>1, <1>4, <1>5, JobKinds DEF IInv, TypeInv, Stages, Busy, Credit, Goto
  <2>2. JobOK(p)'
    BY <1>3, <2>1 DEF JobOK
  <2>3. Aside(p)
    BY <1>4, <2>1, ItemsAreDistinct DEF Aside, Completing, EventMark
  <2> QED BY <1>1, <1>3, <2>1, <2>2, <2>3 DEF Moved, EventMark, IInv, TypeInv
<1>6. CASE Leave(p)
  <2>1. /\ job' \in [Procs -> Job]
        /\ pc' \in [Procs -> Stages] /\ pc'[p] = "idle"
        /\ \A q \in Procs : q # p => pc'[q] = pc[q] /\ job'[q] = job[q]
    BY <1>1, <1>6, JobKinds DEF IInv, TypeInv, Stages, Busy, Leave, Goto
  <2>2. JobOK(p)' /\ Aside(p)
    BY <2>1 DEF JobOK, Busy, Aside, Completing, EventMark
  <2> QED BY <1>1, <1>3, <2>1, <2>2 DEF Moved, EventMark, IInv, TypeInv
<1> QED BY <1>5, <1>6 DEF EventMark, m, t

\* A process that leaves has no job.
LEMMA LeavingMoves ==
  ASSUME TypeInv, NEW p \in Procs, Leave(p)
  PROVE  /\ job' \in [Procs -> Job]
         /\ pc' \in [Procs -> Stages] /\ pc'[p] = "idle"
         /\ \A q \in Procs : q # p => pc'[q] = pc[q] /\ job'[q] = job[q]
         /\ JobOK(p)' /\ \A d \in Days : ~Completing(p, d)'
<1>1. /\ job' \in [Procs -> Job]
      /\ pc' \in [Procs -> Stages] /\ pc'[p] = "idle"
      /\ \A q \in Procs : q # p => pc'[q] = pc[q] /\ job'[q] = job[q]
  BY JobKinds DEF TypeInv, Stages, Leave, Goto
<1> QED BY <1>1 DEF JobOK, Busy, Completing

\* A failed credit is noted on its row.
LEMMA NoteMoves ==
  ASSUME IInv, NEW p \in Requests \cup Events, Note(p)
  PROVE  Moved(p) /\ Aside(p)
<1>1. p \in Procs /\ p \notin Workers /\ pc[p] = "failed" /\ JobOK(p)
  BY Kinds DEF IInv, ProcsInv, Note
<1> DEFINE t == job[p].thread
           row == [rows[t] EXCEPT !.failed = TRUE, !.pending = @ \cup {job[p].at}]
<1>2. t \in Threads /\ <<t, job[p].at>> \in Made /\ job[p].at \in Instants
  BY <1>1, MarkJobsAreMade DEF IInv, Busy, Note
<1>3. rows[t] # None =>
        /\ row \in Row /\ TrueRow(t, row)
        /\ \A at \in rows[t].pending \ row.pending : Credited(t, at)
  <2> SUFFICES ASSUME rows[t] # None
               PROVE  /\ row \in Row /\ TrueRow(t, row)
                      /\ \A at \in rows[t].pending \ row.pending : Credited(t, at)
    OBVIOUS
  <2>1. rows[t] \in Row /\ TrueRow(t, rows[t])
    BY <1>2 DEF IInv, TypeInv, Table, RowsInv
  <2>2. /\ row \in Row /\ row.at = rows[t].at /\ row.posted = rows[t].posted
        /\ row.pending = rows[t].pending \cup {job[p].at}
    BY <1>2, <2>1 DEF Row
  <2> HIDE DEF row, t
  <2> QED BY <1>2, <2>1, <2>2 DEF TrueRow
<1>4. rows' = IF rows[t] = None THEN rows ELSE [rows EXCEPT ![t] = row]
  <2>1. rows \in [Threads -> Row \cup {None}]
    BY DEF IInv, TypeInv, Table
  <2>2. CASE rows[t] = None
    BY <2>2 DEF Note
  <2>3. CASE rows[t] # None
    <3>1. rows[t] \in Row
      BY <1>2, <2>1, <2>3
    <3>2. rows' = [rows EXCEPT ![t].failed = TRUE, ![t].pending = @ \cup {job[p].at}]
      BY <2>3 DEF Note
    <3> QED BY <1>2, <2>1, <2>3, <3>1, <3>2 DEF Row
  <2> QED BY <2>2, <2>3
<1> HIDE DEF row, t
<1>5. RowsKept
  BY <1>2, <1>3, <1>4, RewrittenKeeps DEF IInv, Note
<1>6. Made' = Made /\ MadeInv'
  BY DEF Note, IInv, Made, MadeInv
<1>7. /\ job' \in [Procs -> Job]
      /\ pc' \in [Procs -> Stages] /\ pc'[p] = "idle"
      /\ \A q \in Procs : q # p => pc'[q] = pc[q] /\ job'[q] = job[q]
      /\ JobOK(p)' /\ \A d \in Days : ~Completing(p, d)'
  BY <1>1, LeavingMoves DEF Note, IInv
<1> QED BY <1>1, <1>5, <1>6, <1>7 DEF Moved, Aside, Note, IInv, TypeInv

\* A note that is lost, a claim and the return of a claim leave the rows alone.
LEMMA NoteLostMoves ==
  ASSUME IInv, NEW p \in Requests \cup Events, NoteLost(p)
  PROVE  Moved(p) /\ Aside(p)
<1>1. p \in Procs /\ p \notin Workers /\ pc[p] = "failed"
  BY Kinds DEF NoteLost
<1>2. RowsKept /\ Made' = Made /\ MadeInv'
  BY UntouchedKeeps DEF NoteLost, IInv, Made, MadeInv
<1>3. faults' \in 0 .. MaxFaults
  BY LedgerAssumption DEF NoteLost, IInv, TypeInv
<1>4. /\ job' \in [Procs -> Job]
      /\ pc' \in [Procs -> Stages] /\ pc'[p] = "idle"
      /\ \A q \in Procs : q # p => pc'[q] = pc[q] /\ job'[q] = job[q]
      /\ JobOK(p)' /\ \A d \in Days : ~Completing(p, d)'
  BY <1>1, LeavingMoves DEF NoteLost, IInv
<1> QED BY <1>1, <1>2, <1>3, <1>4 DEF Moved, Aside, NoteLost, IInv, TypeInv

LEMMA ClaimMoves ==
  ASSUME IInv, NEW p \in Claims, Claim(p)
  PROVE  /\ Moved(p)
         /\ DayOf[now] \in Days \ claimed /\ claimed' = claimed \cup {DayOf[now]}
         /\ pc'[p] = "credit" /\ job'[p] = Mission(DayOf[now])
<1>1. p \in Procs /\ p \notin Workers /\ pc[p] = "idle" /\ DayOf[now] \in Days
  BY Kinds, Calendar DEF Claim, IInv, TypeInv
<1>2. RowsKept /\ Made' = Made /\ MadeInv'
  BY UntouchedKeeps DEF Claim, IInv, Made, MadeInv
<1>3. /\ job' \in [Procs -> Job] /\ job'[p] = Mission(DayOf[now])
      /\ pc' \in [Procs -> Stages] /\ pc'[p] = "credit"
      /\ \A q \in Procs : q # p => pc'[q] = pc[q] /\ job'[q] = job[q]
  BY <1>1, JobKinds DEF Claim, Credit, Goto, IInv, TypeInv, Stages, Busy
<1>4. DayOf[now] \in Days \ claimed /\ claimed' = claimed \cup {DayOf[now]}
  BY <1>1 DEF Claim
<1>5. JobOK(p)'
  BY <1>1, <1>3, <1>4 DEF JobOK
<1> QED BY <1>1, <1>2, <1>3, <1>4, <1>5 DEF Moved, Claim, IInv, TypeInv

LEMMA UnclaimMoves ==
  ASSUME IInv, NEW p \in Claims, Unclaim(p)
  PROVE  /\ Moved(p)
         /\ job[p].at \in Days /\ Completing(p, job[p].at)
         /\ claimed' = claimed \ {job[p].at}
         /\ \A d \in Days : ~Completing(p, d)'
<1>1. p \in Procs /\ p \notin Workers /\ pc[p] = "failed" /\ JobOK(p)
      /\ job[p].kind = "mission"
  BY Kinds DEF Unclaim, IInv, ProcsInv
<1>2. RowsKept /\ Made' = Made /\ MadeInv'
  BY UntouchedKeeps DEF Unclaim, IInv, Made, MadeInv
<1>3. /\ job' \in [Procs -> Job]
      /\ pc' \in [Procs -> Stages] /\ pc'[p] = "idle"
      /\ \A q \in Procs : q # p => pc'[q] = pc[q] /\ job'[q] = job[q]
      /\ JobOK(p)' /\ \A d \in Days : ~Completing(p, d)'
  BY <1>1, LeavingMoves DEF Unclaim, IInv
<1>4. Made \subseteq Marks
  BY WorldOfState DEF IInv, World
<1>5. PICK d \in claimed : job[p] = Mission(d)
  BY <1>1, <1>4, JobKinds DEF JobOK, Busy
<1>6. d \in Days /\ job[p].at = d
  BY <1>5, JobKinds DEF IInv, TypeInv
<1>7. job[p].at \in Days /\ Completing(p, job[p].at)
      /\ claimed' = claimed \ {job[p].at}
  BY <1>1, <1>5, <1>6 DEF Completing, Busy, Unclaim
<1> QED BY <1>1, <1>2, <1>3, <1>7 DEF Moved, Unclaim, IInv, TypeInv

------------------------------------------------------------------------------
(* The moves of the worker.                                                   *)

\* What the worker does next with its job: neither a mark nor a mission.
Turns(w) ==
  /\ job' \in [Procs -> Job] /\ pc' \in [Procs -> Stages]
  /\ pc'[w] \in {"idle", "tick", "credit"}
  /\ \A q \in Procs : q # w => pc'[q] = pc[q] /\ job'[q] = job[q]
  /\ JobOK(w)' /\ \A d \in Days : ~Completing(w, d)'
  /\ ~(pc'[w] \in Busy /\ job'[w].kind = "mark")

LEMMA TicksOn ==
  ASSUME TypeInv, NEW w \in Workers, NEW where \in {"tick", "idle"},
         pc' = [pc EXCEPT ![w] = where],
         job' = job \/ job' = [job EXCEPT ![w] = NoJob]
  PROVE  Turns(w)
<1>1. /\ job' \in [Procs -> Job] /\ pc' \in [Procs -> Stages] /\ pc'[w] = where
      /\ \A q \in Procs : q # w => pc'[q] = pc[q] /\ job'[q] = job[q]
  BY Kinds, JobKinds DEF TypeInv, Stages
<1> QED BY <1>1 DEF Turns, JobOK, Busy, Completing

LEMMA BonusTurns ==
  ASSUME TypeInv, NEW w \in Workers, NEW t \in Threads, Credit(w, Bonus(t))
  PROVE  Turns(w)
<1>1. /\ job' \in [Procs -> Job] /\ pc' \in [Procs -> Stages]
      /\ pc'[w] = "credit" /\ job'[w] = Bonus(t)
      /\ \A q \in Procs : q # w => pc'[q] = pc[q] /\ job'[q] = job[q]
  BY Kinds, JobKinds DEF TypeInv, Stages, Busy, Credit, Goto
<1>2. JobOK(w)'
  BY <1>1 DEF JobOK
<1>3. \A d \in Days : ~Completing(w, d)'
  BY <1>1, ItemsAreDistinct DEF Completing
<1>4. job'[w].kind # "mark"
  BY <1>1, JobKinds
<1> QED BY <1>1, <1>2, <1>3, <1>4 DEF Turns

LEMMA RetryBonusTurns ==
  ASSUME TypeInv, NEW w \in Workers, NEW t \in Threads, RetryBonus(w, t)
  PROVE  Turns(w)
<1>1. CASE Credit(w, Bonus(t))
  BY <1>1, BonusTurns
<1>2. CASE Goto(w, "tick") /\ job' = [job EXCEPT ![w] = NoJob]
  BY <1>2, TicksOn DEF Goto
<1> QED BY <1>1, <1>2 DEF RetryBonus

\* Such a turn is a move, whatever it does to rows and tick.
LEMMA TurnMoves ==
  ASSUME IInv, NEW w \in Workers, Turns(w), pc[w] # "write", RowsKept,
         UNCHANGED <<now, ledger, holder, copy, robbed, claimed, made>>,
         faults' = faults \/ faults' \in 0 .. MaxFaults,
         \/ tick' = tick
         \/ \E k \in Tick :
              /\ tick' = [tick EXCEPT ![w] = k]
              /\ \A t \in Threads : k.snap[t] # None => TrueRow(t, k.snap[t])
              /\ \A t \in k.retry : k.snap[t] # None
  PROVE  Moved(w) /\ Aside(w)
<1>1. Made' = Made /\ MadeInv' /\ w \in Procs
  BY Kinds DEF IInv, Made, MadeInv
<1>2. tick' \in [Workers -> Tick] /\ \A v \in Workers : v # w => tick'[v] = tick[v]
  BY DEF IInv, TypeInv
<1>3. /\ \A t \in Threads : tick'[w].snap[t] # None => TrueRow(t, tick'[w].snap[t])
      /\ \A t \in tick'[w].retry : tick'[w].snap[t] # None
  BY DEF IInv, TypeInv, ProcsInv, TickOK
<1>4. \A t \in Threads : tick'[w].snap[t] # None => TrueRow(t, tick[w].snap[t])'
  BY <1>1, <1>3 DEF TrueRow
<1>5. TickOK(w)'
  BY <1>3, <1>4 DEF TickOK, Turns
<1> QED BY <1>1, <1>2, <1>5 DEF Moved, Aside, Turns, Busy, IInv, TypeInv

LEMMA BeginTickMoves ==
  ASSUME IInv, NEW w \in Workers, BeginTick(w)
  PROVE  Moved(w) /\ Aside(w)
<1> DEFINE k == [due |-> DueListed, retry |-> RetriesListed, left |-> {},
                 snap |-> [t \in Threads |-> IF t \in RetriesListed THEN rows[t]
                                             ELSE None]]
<1>1. /\ DueListed \subseteq Threads /\ RetriesListed \subseteq Threads
      /\ \A t \in RetriesListed : rows[t] # None
  BY DEF DueListed, RetriesListed, Due, Flagged, Kept
<1>2. k \in Tick
  BY <1>1 DEF Tick, Table, IInv, TypeInv
<1>3. \A t \in Threads : k.snap[t] = IF t \in RetriesListed THEN rows[t] ELSE None
  OBVIOUS
<1>4. k.retry = RetriesListed
  OBVIOUS
<1>5. tick' = [tick EXCEPT ![w] = k]
  BY DEF BeginTick
<1> HIDE DEF k
<1>6. /\ \A t \in Threads : k.snap[t] # None => TrueRow(t, k.snap[t])
      /\ \A t \in k.retry : k.snap[t] # None
  BY <1>1, <1>3, <1>4 DEF IInv, RowsInv
<1>7. Turns(w)
  BY TicksOn DEF BeginTick, Goto, IInv
<1>8. RowsKept /\ pc[w] # "write"
  BY UntouchedKeeps DEF BeginTick, IInv
<1>9. faults' = faults \/ faults' \in 0 .. MaxFaults
  BY LedgerAssumption DEF BeginTick, IInv, TypeInv
<1> QED BY <1>2, <1>5, <1>6, <1>7, <1>8, <1>9, TurnMoves DEF BeginTick

LEMMA EndTickMoves ==
  ASSUME IInv, NEW w \in Workers, EndTick(w)
  PROVE  Moved(w) /\ Aside(w)
<1>1. NoTick \in Tick /\ NoTick.retry = {} /\ \A t \in Threads : NoTick.snap[t] = None
  BY DEF NoTick, Tick, Table
<1>2. Turns(w)
  BY TicksOn DEF EndTick, Goto, IInv
<1>3. RowsKept /\ pc[w] # "write"
  BY UntouchedKeeps DEF EndTick, IInv
<1>4. tick' = [tick EXCEPT ![w] = NoTick]
  BY DEF EndTick
<1> QED BY <1>1, <1>2, <1>3, <1>4, TurnMoves DEF EndTick

\* A sample writes its row and may credit the bonus.
LEMMA SampleMoves ==
  ASSUME IInv, NEW w \in Workers, NEW t \in Threads, Sample(w, t)
  PROVE  Moved(w) /\ Aside(w)
<1> DEFINE k == [tick[w] EXCEPT !.due = @ \ {t}]
<1>1. tick[w] \in Tick /\ pc[w] = "tick" /\ w \in Procs
  BY Kinds DEF IInv, TypeInv, Sample
<1>2. /\ k \in Tick /\ k.snap = tick[w].snap /\ k.retry = tick[w].retry
  BY <1>1 DEF Tick
<1>3. tick' = [tick EXCEPT ![w] = k]
  BY <1>1 DEF Sample, IInv, TypeInv
<1> HIDE DEF k
<1>4. /\ \A u \in Threads : k.snap[u] # None => TrueRow(u, k.snap[u])
      /\ \A u \in k.retry : k.snap[u] # None
  BY <1>2 DEF IInv, ProcsInv, TickOK
<1>5. CASE UNCHANGED <<rows, job, pc>>
  <2>1. pc' = [pc EXCEPT ![w] = "tick"]
    BY <1>1, <1>5 DEF IInv, TypeInv
  <2>2. Turns(w)
    BY <1>5, <2>1, TicksOn DEF IInv
  <2>3. RowsKept
    BY <1>5, UntouchedKeeps DEF Sample, IInv
  <2> QED BY <1>1, <1>2, <1>3, <1>4, <2>2, <2>3, TurnMoves DEF Sample
<1>6. CASE /\ rows[t] # None
           /\ rows' = [rows EXCEPT ![t].t24h = TRUE]
           /\ IF rows[t].auto THEN UNCHANGED <<job, pc>> ELSE Credit(w, Bonus(t))
  <2> DEFINE row == [rows[t] EXCEPT !.t24h = TRUE]
  <2>1. rows[t] \in Row /\ TrueRow(t, rows[t]) /\ rows \in [Threads -> Row \cup {None}]
    BY <1>6 DEF IInv, TypeInv, Table, RowsInv
  <2>2. /\ row \in Row /\ row.at = rows[t].at /\ row.posted = rows[t].posted
        /\ row.pending = rows[t].pending
    BY <2>1 DEF Row
  <2>3. rows' = [rows EXCEPT ![t] = row]
    BY <1>6, <2>1
  <2> HIDE DEF row
  <2>4. RowsKept
    <3>1. TrueRow(t, row) /\ rows[t].pending \ row.pending = {}
      BY <2>1, <2>2 DEF TrueRow
    <3> QED BY <1>6, <2>2, <2>3, <3>1, RewrittenKeeps DEF Sample, IInv
  <2>5. Turns(w)
    <3>1. CASE rows[t].auto
      <4>1. pc' = [pc EXCEPT ![w] = "tick"] /\ job' = job
        BY <1>1, <1>6, <3>1 DEF IInv, TypeInv
      <4> QED BY <4>1, TicksOn DEF IInv
    <3>2. CASE ~rows[t].auto
      BY <1>6, <3>2, BonusTurns DEF IInv
    <3> QED BY <3>1, <3>2
  <2> QED BY <1>1, <1>2, <1>3, <1>4, <2>4, <2>5, TurnMoves DEF Sample
<1> QED BY <1>5, <1>6 DEF Sample

\* The next noted instant of a listed row is replayed: what the row asks for is
\* still accounted for.
LEMMA ReplayMoves ==
  ASSUME IInv, NEW w \in Workers, NEW t \in Threads, NEW ats, pc[w] # "write",
         tick[w].snap[t] # None,
         \A at \in ats : <<t, at>> \in Made,
         ~robbed => \A at \in PendingOf(tick[w].snap[t]) : at \in ats \/ Credited(t, at),
         Replay(w, t, ats),
         UNCHANGED <<now, rows, ledger, holder, copy, robbed, claimed, faults, made>>
  PROVE  Moved(w) /\ Aside(w)
<1>1. PICK at \in ats :
        /\ tick' = [tick EXCEPT ![w].left = ats \ {at}, ![w].retry = @ \ {t}]
        /\ Credit(w, MarkJob(<<t, at>>))
  BY DEF Replay
<1> DEFINE k == [tick[w] EXCEPT !.left = ats \ {at}, !.retry = @ \ {t}]
           m == <<t, at>>
<1>2. tick[w] \in Tick /\ w \in Procs
  BY Kinds DEF IInv, TypeInv
<1>3. Made \subseteq Marks
  BY WorldOfState DEF IInv, World
<1>4. \A a \in ats : a \in Instants
  <2> TAKE a \in ats
  <2>1. <<t, a>> \in Marks
    BY <1>3
  <2> QED BY <2>1 DEF Marks
<1>5. m \in Made /\ m \in Marks /\ m[1] = t /\ m[2] = at
  BY <1>3
<1>6. /\ k \in Tick /\ k.snap = tick[w].snap /\ k.retry = tick[w].retry \ {t}
      /\ k.left = ats \ {at}
  BY <1>2, <1>4 DEF Tick
<1>7. tick' = [tick EXCEPT ![w] = k]
  BY <1>1, <1>2 DEF IInv, TypeInv
<1> HIDE DEF k, m
<1>8. /\ tick' \in [Workers -> Tick] /\ tick'[w] = k
      /\ \A v \in Workers : v # w => tick'[v] = tick[v]
  BY <1>6, <1>7 DEF IInv, TypeInv
<1>9. /\ job' \in [Procs -> Job] /\ pc' \in [Procs -> Stages]
      /\ pc'[w] = "credit" /\ job'[w] = MarkJob(m)
      /\ \A q \in Procs : q # w => pc'[q] = pc[q] /\ job'[q] = job[q]
  BY <1>1, <1>2, <1>5, JobKinds DEF IInv, TypeInv, Stages, Busy, Credit, Goto, m
<1>10. Made' = Made /\ MadeInv' /\ RowsKept
  BY UntouchedKeeps DEF IInv, Made, MadeInv
<1>11. JobOK(w)'
  BY <1>5, <1>9, <1>10 DEF JobOK
<1>12. \A d \in Days : ~Completing(w, d)'
  BY <1>5, <1>9, ItemsAreDistinct DEF Completing
<1>13. TickOK(w)'
  <2>1. \A u \in Threads : k.snap[u] # None => TrueRow(u, k.snap[u])
    BY <1>6 DEF IInv, ProcsInv, TickOK
  <2>2. \A u \in Threads : tick'[w].snap[u] # None => TrueRow(u, tick[w].snap[u])'
    BY <1>8, <1>10, <2>1 DEF TrueRow
  <2>3. \A u \in tick'[w].retry : tick'[w].snap[u] # None
    BY <1>6, <1>8 DEF IInv, ProcsInv, TickOK
  <2>4. job'[w].thread = t /\ job'[w].at = at
    BY <1>5, <1>9, JobKinds
  <2>5. Replaying(w)'
    <3>1. tick'[w].snap[t] # None /\ tick'[w].snap = tick[w].snap
          /\ tick'[w].left = ats \ {at}
      BY <1>6, <1>8
    <3>2. \A a \in tick'[w].left : <<t, a>> \in Made'
      BY <1>10, <3>1
    <3>3. ~robbed' => \A a \in PendingOf(tick'[w].snap[t]) :
            a \in tick'[w].left \/ a = at \/ Credited(t, a)'
      BY <3>1 DEF Credited
    <3> QED BY <1>9, <2>4, <3>1, <3>2, <3>3 DEF Replaying
  <2> QED BY <2>2, <2>3, <2>5 DEF TickOK
<1> QED BY <1>2, <1>8, <1>9, <1>10, <1>11, <1>12, <1>13
        DEF Moved, Aside, IInv, TypeInv

\* What a listed row asks for was made.
LEMMA AskedIsMade ==
  ASSUME NEW t, NEW row, TrueRow(t, row)
  PROVE  \A at \in PendingOf(row) : <<t, at>> \in Made
<1> DEFINE m == <<t, row.at, row.posted>>
<1>1. m \in made /\ m[1] = t /\ m[2] = row.at
  BY DEF TrueRow
<1> HIDE DEF m
<1>2. <<t, row.at>> \in Made
  BY <1>1 DEF Made
<1> QED BY <1>2 DEF PendingOf, TrueRow

LEMMA RetryMoves ==
  ASSUME IInv, NEW w \in Workers, NEW t \in Threads, Retry(w, t)
  PROVE  Moved(w) /\ Aside(w)
<1> DEFINE row == tick[w].snap[t]
<1>1. tick[w] \in Tick /\ pc[w] = "tick" /\ w \in Procs /\ TickOK(w)
  BY Kinds DEF IInv, TypeInv, Retry, ProcsInv
<1>2. row # None /\ TrueRow(t, row)
  BY <1>1 DEF Retry, TickOK
<1>3. CASE Replay(w, t, PendingOf(row))
  <2>1. \A at \in PendingOf(row) : <<t, at>> \in Made
    BY <1>2, AskedIsMade
  <2> QED BY <1>1, <1>2, <1>3, <2>1, ReplayMoves DEF Retry
<1>4. CASE /\ tick' = [tick EXCEPT ![w].retry = @ \ {t}]
           /\ RetryBonus(w, t)
  <2> DEFINE k == [tick[w] EXCEPT !.retry = @ \ {t}]
  <2>1. /\ k \in Tick /\ k.snap = tick[w].snap /\ k.retry = tick[w].retry \ {t}
    BY <1>1 DEF Tick
  <2>2. tick' = [tick EXCEPT ![w] = k]
    BY <1>1, <1>4 DEF IInv, TypeInv
  <2> HIDE DEF k
  <2>3. /\ \A u \in Threads : k.snap[u] # None => TrueRow(u, k.snap[u])
        /\ \A u \in k.retry : k.snap[u] # None
    BY <1>1, <2>1 DEF TickOK
  <2>4. Turns(w)
    BY <1>4, RetryBonusTurns DEF IInv
  <2>5. RowsKept
    BY UntouchedKeeps DEF Retry, IInv
  <2> QED BY <1>1, <2>1, <2>2, <2>3, <2>4, <2>5, TurnMoves DEF Retry
<1> QED BY <1>3, <1>4 DEF Retry

LEMMA ReplayNextMoves ==
  ASSUME IInv, NEW w \in Workers, ReplayNext(w)
  PROVE  Moved(w) /\ Aside(w)
<1>1. /\ w \in Procs /\ pc[w] = "credited" /\ job[w].kind = "mark"
      /\ JobOK(w) /\ TickOK(w)
  BY Kinds DEF ReplayNext, IInv, ProcsInv
<1> DEFINE t == job[w].thread
<1>2. t \in Threads
  BY <1>1, MarkJobsAreMade DEF IInv, Busy
<1>3. Replaying(w)
  BY <1>1 DEF TickOK, Busy
<1>4. /\ tick[w].snap[t] # None
      /\ \A at \in tick[w].left : <<t, at>> \in Made
      /\ ~robbed => \A at \in PendingOf(tick[w].snap[t]) :
           at \in tick[w].left \/ Credited(t, at)
  BY <1>1, <1>3 DEF Replaying
<1>5. Replay(w, t, tick[w].left)
  BY DEF ReplayNext
<1> HIDE DEF t
<1> QED BY <1>1, <1>2, <1>4, <1>5, ReplayMoves DEF ReplayNext

\* The instants replayed leave the row: they are all credited, unless a robbed
\* writer undid it.
LEMMA ClearMarkMoves ==
  ASSUME IInv, NEW w \in Workers, ClearMark(w)
  PROVE  Moved(w) /\ Aside(w)
<1>1. /\ w \in Procs /\ pc[w] = "credited" /\ job[w].kind = "mark"
      /\ tick[w].left = {} /\ JobOK(w) /\ TickOK(w)
  BY Kinds DEF ClearMark, IInv, ProcsInv
<1> DEFINE t == job[w].thread
           ats == PendingOf(tick[w].snap[t])
           row == Unnoted(rows[t], ats)
<1>2. t \in Threads
  BY <1>1, MarkJobsAreMade DEF IInv, Busy
<1>3. Replaying(w)
  BY <1>1 DEF TickOK, Busy
<1>4. ~robbed => \A at \in ats : Credited(t, at)
  BY <1>1, <1>3 DEF Replaying
<1>5. rows' = (IF rows[t] = None THEN rows ELSE [rows EXCEPT ![t] = row])
      /\ RetryBonus(w, t)
  BY DEF ClearMark, OnRow
<1>6. rows[t] # None =>
        /\ row \in Row /\ TrueRow(t, row)
        /\ ~robbed => \A at \in rows[t].pending \ row.pending : Credited(t, at)
  <2> SUFFICES ASSUME rows[t] # None
               PROVE  /\ row \in Row /\ TrueRow(t, row)
                      /\ ~robbed => \A at \in rows[t].pending \ row.pending : Credited(t, at)
    OBVIOUS
  <2>1. rows[t] \in Row /\ TrueRow(t, rows[t])
    BY <1>2 DEF IInv, TypeInv, Table, RowsInv
  <2> HIDE DEF ats, t
  <2>2. /\ row \in Row /\ row.at = rows[t].at /\ row.posted = rows[t].posted
        /\ \/ row.pending = rows[t].pending
           \/ row.pending = rows[t].pending \ ats
    <3>1. CASE ~rows[t].failed
      BY <2>1, <3>1 DEF Unnoted
    <3>2. CASE rows[t].failed
      <4>1. row = [rows[t] EXCEPT !.pending = @ \ ats,
                                  !.failed = (rows[t].pending \ ats # {})]
        BY <3>2 DEF Unnoted
      <4> HIDE DEF row
      <4> QED BY <2>1, <4>1 DEF Row
    <3> QED BY <3>1, <3>2
  <2> HIDE DEF row
  <2> QED BY <1>4, <2>1, <2>2 DEF TrueRow
<1> HIDE DEF row, ats, t
<1>7. RowsKept
  BY <1>2, <1>5, <1>6, RewrittenKeeps DEF IInv, ClearMark
<1>8. Turns(w)
  BY <1>2, <1>5, RetryBonusTurns DEF IInv
<1> QED BY <1>1, <1>7, <1>8, TurnMoves DEF ClearMark

\* A process that credits a bonus credits that of a thread.
LEMMA BonusJobs ==
  ASSUME TypeInv, MadeInv, NEW p \in Procs, JobOK(p), pc[p] \in Busy,
         job[p].kind = "bonus"
  PROVE  job[p].thread \in Threads /\ job[p] = Bonus(job[p].thread)
<1>1. Made \subseteq Marks
  BY WorldOfState DEF World
<1>2. PICK t \in Threads : job[p] = Bonus(t)
  BY <1>1, JobKinds DEF JobOK, TypeInv
<1> QED BY <1>2, JobKinds

\* The flag of the bonus is set or cleared on the row.
LEMMA FlaggedKeeps ==
  ASSUME IInv, NEW t \in Threads, NEW flag \in BOOLEAN, made' = made,
         OnRow(t, [rows[t] EXCEPT !.bonusFailed = flag])
  PROVE  RowsKept
<1> DEFINE row == [rows[t] EXCEPT !.bonusFailed = flag]
<1>1. rows[t] # None => /\ row \in Row /\ TrueRow(t, row)
                        /\ rows[t].pending \ row.pending = {}
  <2> SUFFICES ASSUME rows[t] # None
               PROVE  row \in Row /\ TrueRow(t, row) /\ rows[t].pending \ row.pending = {}
    OBVIOUS
  <2>1. rows[t] \in Row /\ TrueRow(t, rows[t])
    BY DEF IInv, TypeInv, Table, RowsInv
  <2>2. /\ row \in Row /\ row.at = rows[t].at /\ row.posted = rows[t].posted
        /\ row.pending = rows[t].pending
    BY <2>1 DEF Row
  <2> HIDE DEF row
  <2> QED BY <2>1, <2>2 DEF TrueRow
<1>2. rows' = IF rows[t] = None THEN rows ELSE [rows EXCEPT ![t] = row]
  BY DEF OnRow
<1> HIDE DEF row
<1> QED BY <1>1, <1>2, RewrittenKeeps DEF IInv

LEMMA ClearBonusMoves ==
  ASSUME IInv, NEW w \in Workers, ClearBonus(w)
  PROVE  Moved(w) /\ Aside(w)
<1>1. w \in Procs /\ pc[w] = "credited" /\ job[w].thread \in Threads
  BY Kinds, BonusJobs DEF ClearBonus, IInv, ProcsInv, Busy
<1>2. RowsKept
  BY <1>1, FlaggedKeeps DEF ClearBonus
<1>3. Turns(w)
  BY TicksOn DEF ClearBonus, Goto, IInv
<1> QED BY <1>1, <1>2, <1>3, TurnMoves DEF ClearBonus

LEMMA SurviveMarkMoves ==
  ASSUME IInv, NEW w \in Workers, SurviveMark(w)
  PROVE  Moved(w) /\ Aside(w)
<1>1. /\ w \in Procs /\ pc[w] = "failed" /\ job[w].thread \in Threads
      /\ TickOK(w) /\ tick[w] \in Tick
  BY Kinds, MarkJobsAreMade DEF SurviveMark, IInv, ProcsInv, Busy, TypeInv
<1> DEFINE k == [tick[w] EXCEPT !.left = {}]
<1>2. /\ k \in Tick /\ k.snap = tick[w].snap /\ k.retry = tick[w].retry
  BY <1>1 DEF Tick
<1>3. tick' = [tick EXCEPT ![w] = k]
  BY <1>1 DEF SurviveMark, IInv, TypeInv
<1> HIDE DEF k
<1>4. /\ \A u \in Threads : k.snap[u] # None => TrueRow(u, k.snap[u])
      /\ \A u \in k.retry : k.snap[u] # None
  BY <1>1, <1>2 DEF TickOK
<1>5. Turns(w)
  BY <1>1, RetryBonusTurns DEF SurviveMark, IInv
<1>6. RowsKept
  BY UntouchedKeeps DEF SurviveMark, IInv
<1> QED BY <1>1, <1>2, <1>3, <1>4, <1>5, <1>6, TurnMoves DEF SurviveMark

LEMMA SurviveBonusMoves ==
  ASSUME IInv, NEW w \in Workers, SurviveBonus(w)
  PROVE  Moved(w) /\ Aside(w)
<1>1. w \in Procs /\ pc[w] = "failed" /\ job[w].thread \in Threads
  BY Kinds, BonusJobs DEF SurviveBonus, IInv, ProcsInv, Busy
<1>2. RowsKept
  <2>1. CASE UNCHANGED rows
    BY <2>1, UntouchedKeeps DEF SurviveBonus, IInv
  <2>2. CASE OnRow(job[w].thread, [rows[job[w].thread] EXCEPT !.bonusFailed = TRUE])
    BY <1>1, <2>2, FlaggedKeeps DEF SurviveBonus
  <2> QED BY <2>1, <2>2 DEF SurviveBonus
<1>3. Turns(w)
  BY TicksOn DEF SurviveBonus, Goto, IInv
<1> QED BY <1>1, <1>2, <1>3, TurnMoves DEF SurviveBonus

------------------------------------------------------------------------------
(* Every step preserves the invariant and, until a lock is robbed, keeps what *)
(* is noted and lets the stored ledger only grow.                             *)

LedgerKept == ~robbed /\ ledger # None => ledger' # None /\ Grown(ledger, ledger')

StepKeeps == IInv' /\ KeepsNoted /\ LedgerKept /\ (robbed => robbed')

\* A process that a step leaves alone is still in order.
LEMMA IdleJobOK ==
  ASSUME TypeInv, NEW q \in Procs, JobOK(q), pc'[q] = pc[q], job'[q] = job[q],
         now <= now', now' \in Nat, Made \subseteq Made',
         \A d \in claimed : Completing(q, d) => d \in claimed'
  PROVE  JobOK(q)'
<1>1. now \in Nat
  BY DEF TypeInv, Instants
<1>2. pc[q] = "read" => job[q].at \in 1 .. now'
  BY <1>1 DEF JobOK
<1>3. \A d \in claimed : pc[q] \in Busy /\ job[q] = Mission(d) => d \in claimed'
  BY DEF Completing
<1> QED BY <1>2, <1>3 DEF JobOK

LEMMA IdleTickOK ==
  ASSUME NEW w \in Workers, TickOK(w), tick'[w] = tick[w], job'[w] = job[w],
         pc'[w] \in Busy => pc[w] \in Busy,
         ~robbed' /\ pc'[w] = "credited" /\ job[w].kind = "mark" =>
           Credited(job[w].thread, job[w].at)',
         made \subseteq made', Made \subseteq Made', robbed => robbed',
         ~robbed' => \A t, at : Credited(t, at) => Credited(t, at)'
  PROVE  TickOK(w)'
<1>1. \A t \in Threads : tick'[w].snap[t] # None => TrueRow(t, tick[w].snap[t])'
  BY DEF TickOK, TrueRow
<1>2. \A t \in tick'[w].retry : tick'[w].snap[t] # None
  BY DEF TickOK
<1>3. ASSUME pc'[w] \in Busy, job'[w].kind = "mark"
      PROVE  Replaying(w)'
  <2>1. Replaying(w)
    BY <1>3 DEF TickOK
  <2> QED BY <1>3, <2>1 DEF Replaying
<1> QED BY <1>1, <1>2, <1>3 DEF TickOK

\* Ledgers that a step leaves alone are still good.
LEMMA StillGood ==
  ASSUME IInv, TypeInv', MadeInv', made \subseteq made', now <= now',
         NEW s, GoodFor(s, Active, Made)
  PROVE  GoodFor(s, Active', Made')
<1>1. Active \subseteq Active' /\ Active' \subseteq Days /\ Made \subseteq Made'
  BY ActiveGrows DEF IInv
<1> QED BY <1>1, GoodInMore

\* The same ledger has been kept.
LEMMA SameLedgerKept ==
  ASSUME TypeInv, ledger' = ledger
  PROVE  LedgerKept
BY GrownByNothing DEF TypeInv, LedgerKept

\* A move keeps everything but, perhaps, the claims of missions.
LEMMA MoveKeeps ==
  ASSUME IInv, NEW p \in Procs, Moved(p), MissionInv',
         \A q \in Procs, d \in claimed : q # p /\ Completing(q, d) => d \in claimed'
  PROVE  StepKeeps
<1>1. TypeInv'
  BY DEF Moved, RowsKept, IInv, TypeInv
<1>2. LockInv'
  <2>1. pc'[p] # "write" /\ pc[p] # "write"
    BY DEF Moved
  <2> QED BY <2>1 DEF IInv, LockInv, Moved
<1>3. MadeInv' /\ RowsInv' /\ KeepsNoted
  BY DEF Moved, RowsKept
<1>4. ProcsInv'
  <2>1. ASSUME NEW q \in Procs
        PROVE  JobOK(q)'
    <3>1. CASE q = p
      BY <3>1 DEF Moved
    <3>2. CASE q # p
      <4>1. now \in Nat /\ now' = now
        BY DEF Moved, IInv, TypeInv, Instants
      <4> QED BY <3>2, <4>1, IdleJobOK DEF Moved, IInv, ProcsInv
    <3> QED BY <3>1, <3>2
  <2>2. ASSUME NEW w \in Workers
        PROVE  TickOK(w)'
    <3>1. CASE w = p
      BY <3>1 DEF Moved
    <3>2. CASE w # p
      <4>1. \A t, at : Credited(t, at) => Credited(t, at)'
        BY DEF Credited, Moved
      <4>2. w \in Procs /\ TickOK(w)
        BY Kinds DEF IInv, ProcsInv
      <4>3. pc'[w] = pc[w] /\ job'[w] = job[w] /\ tick'[w] = tick[w]
        BY <3>2, <4>2 DEF Moved
      <4>4. ~robbed /\ pc[w] = "credited" /\ job[w].kind = "mark" =>
              Credited(job[w].thread, job[w].at)
        BY <4>2 DEF TickOK, Replaying, Busy
      <4> QED BY <4>1, <4>2, <4>3, <4>4, IdleTickOK DEF Moved
    <3> QED BY <3>1, <3>2
  <2> QED BY <2>1, <2>2 DEF ProcsInv
<1>5. LedgersInv'
  <2>1. now <= now' /\ made \subseteq made' /\ ledger' = ledger /\ copy' = copy
        /\ robbed' = robbed
    BY DEF Moved, IInv, TypeInv, Instants
  <2>2. \A s : GoodFor(s, Active, Made) => GoodFor(s, Active', Made')
    BY <1>1, <1>3, <2>1, StillGood
  <2>3. \A q \in Procs : pc'[q] = "write" => pc[q] = "write" /\ job'[q] = job[q]
    BY DEF Moved
  <2> QED BY <2>1, <2>2, <2>3 DEF IInv, LedgersInv
<1>6. LedgerKept
  BY SameLedgerKept DEF Moved, IInv
<1> QED BY <1>1, <1>2, <1>3, <1>4, <1>5, <1>6 DEF Moved, IInv, StepKeeps

\* A move that has nothing to do with a mission.
LEMMA AsideKeeps ==
  ASSUME IInv, NEW p \in Procs, Moved(p), Aside(p)
  PROVE  StepKeeps
<1>1. \A q \in Procs, d \in Days : Completing(q, d)' => q # p /\ Completing(q, d)
  BY DEF Moved, Aside, Completing
<1>2. \A q \in Procs : pc'[q] = "write" => pc[q] = "write"
  BY DEF Moved
<1>3. ledger' = ledger /\ copy' = copy /\ claimed' = claimed
  BY DEF Moved, Aside
<1>4. MissionInv'
  BY <1>1, <1>2, <1>3 DEF IInv, MissionInv
<1> QED BY <1>3, <1>4, MoveKeeps

\* A claim: nobody completed that mission, and no ledger has its XP.
LEMMA ClaimKeeps ==
  ASSUME IInv, NEW p \in Claims, Claim(p)
  PROVE  StepKeeps
<1> DEFINE c == DayOf[now]
<1>1. /\ p \in Procs /\ Moved(p) /\ c \in Days \ claimed /\ claimed' = claimed \cup {c}
      /\ pc'[p] = "credit" /\ job'[p] = Mission(c)
  BY Kinds, ClaimMoves
<1> HIDE DEF c
<1>2. \A q \in Procs : ~Completing(q, c)
  <2> SUFFICES ASSUME NEW q \in Procs, Completing(q, c)
               PROVE  FALSE
    OBVIOUS
  <2>1. Made \subseteq Marks /\ claimed \subseteq Days
    BY WorldOfState DEF IInv, World, TypeInv
  <2>2. PICK d \in claimed : Mission(c) = Mission(d)
    BY <1>1, <2>1, ItemsAreDistinct DEF Completing, IInv, ProcsInv, JobOK
  <2> QED BY <1>1, <2>1, <2>2, ItemsAreDistinct
<1>3. \A q \in Procs, d \in Days :
        Completing(q, d)' => (q = p /\ d = c) \/ (q # p /\ Completing(q, d))
  BY <1>1, ItemsAreDistinct DEF Moved, Completing
<1>4. \A q \in Procs : pc'[q] = "write" => pc[q] = "write"
  BY DEF Moved, Claim, Credit, Goto, IInv, TypeInv
<1>5. ledger' = ledger /\ copy' = copy
  BY <1>1 DEF Moved
<1>6. ASSUME NEW d \in Days
      PROVE  /\ \A q, r \in Procs : Completing(q, d)' /\ Completing(r, d)' => q = r
             /\ ledger' # None /\ ledger'.xp[Mission(d)] > 0 =>
                  d \in claimed' /\ \A q \in Procs : ~Completing(q, d)'
             /\ \A q \in Procs : pc'[q] = "write" /\ copy'[q].xp[Mission(d)] > 0 =>
                  d \in claimed' /\ \A r \in Procs : Completing(r, d)' => r = q
  <2>1. CASE d = c
    <3>1. \A q \in Procs : Completing(q, d)' => q = p
      BY <1>2, <1>3, <2>1
    <3>2. ~(ledger # None /\ ledger.xp[Mission(d)] > 0)
      BY <1>1, <2>1 DEF IInv, MissionInv
    <3>3. \A q \in Procs : ~(pc[q] = "write" /\ copy[q].xp[Mission(d)] > 0)
      BY <1>1, <2>1 DEF IInv, MissionInv
    <3> QED BY <1>4, <1>5, <3>1, <3>2, <3>3
  <2>2. CASE d # c
    <3>1. \A q \in Procs : Completing(q, d)' => Completing(q, d)
      BY <1>3, <2>2
    <3> QED BY <1>1, <1>4, <1>5, <3>1 DEF IInv, MissionInv
  <2> QED BY <2>1, <2>2
<1>7. MissionInv'
  BY <1>6 DEF MissionInv
<1> QED BY <1>1, <1>7, MoveKeeps

\* The return of a claim: the mission has brought nothing.
LEMMA UnclaimKeeps ==
  ASSUME IInv, NEW p \in Claims, Unclaim(p)
  PROVE  StepKeeps
<1> DEFINE c == job[p].at
<1>1. /\ p \in Procs /\ Moved(p) /\ c \in Days /\ Completing(p, c)
      /\ claimed' = claimed \ {c} /\ \A d \in Days : ~Completing(p, d)'
  BY Kinds, UnclaimMoves
<1> HIDE DEF c
<1>2. \A q \in Procs, d \in Days : Completing(q, d)' => q # p /\ Completing(q, d)
  BY <1>1 DEF Moved, Completing
<1>3. \A q \in Procs : pc'[q] = "write" => pc[q] = "write" /\ q # p
  BY <1>1 DEF Moved
<1>4. ledger' = ledger /\ copy' = copy
  BY <1>1 DEF Moved
<1>5. ASSUME NEW d \in Days
      PROVE  /\ \A q, r \in Procs : Completing(q, d)' /\ Completing(r, d)' => q = r
             /\ ledger' # None /\ ledger'.xp[Mission(d)] > 0 =>
                  d \in claimed' /\ \A q \in Procs : ~Completing(q, d)'
             /\ \A q \in Procs : pc'[q] = "write" /\ copy'[q].xp[Mission(d)] > 0 =>
                  d \in claimed' /\ \A r \in Procs : Completing(r, d)' => r = q
  <2>1. CASE d = c
    <3>1. ~(ledger # None /\ ledger.xp[Mission(d)] > 0)
      BY <1>1, <2>1 DEF IInv, MissionInv
    <3>2. \A q \in Procs : pc[q] = "write" /\ copy[q].xp[Mission(d)] > 0 => q = p
      BY <1>1, <2>1 DEF IInv, MissionInv
    <3>3. \A q, r \in Procs : Completing(q, d)' /\ Completing(r, d)' => q = r
      BY <1>2 DEF IInv, MissionInv
    <3> QED BY <1>3, <1>4, <3>1, <3>2, <3>3
  <2>2. CASE d # c
    BY <1>1, <1>2, <1>3, <1>4, <2>2 DEF IInv, MissionInv
  <2> QED BY <2>1, <2>2
<1>6. MissionInv'
  BY <1>5 DEF MissionInv
<1>7. \A q \in Procs, d \in claimed : q # p /\ Completing(q, d) => d \in claimed'
  BY <1>1 DEF IInv, MissionInv, TypeInv
<1> QED BY <1>1, <1>6, <1>7, MoveKeeps

------------------------------------------------------------------------------
(* The steps that take the lock, write the ledger, fail and crash.            *)

(* What process p has computed, n, when it has taken the lock.                *)
Computed(p, n) ==
  /\ copy' = [copy EXCEPT ![p] = n]
  /\ GoodFor(n, Active, Made)
  /\ ledger' # None => GoodFor(ledger', Active, Made) /\ Grown(ledger', n)
  /\ ledger # None => ledger' = ledger
  /\ job[p].kind = "mark" => <<job[p].thread, job[p].at>> \in n.marks
  /\ \A d \in Days : n.xp[Mission(d)] > 0 =>
       (ledger # None /\ ledger.xp[Mission(d)] > 0) \/ job[p] = Mission(d)
  /\ ledger = None /\ ledger' # None => \A d \in Days : ledger'.xp[Mission(d)] = 0

LEMMA LoadComputes ==
  ASSUME IInv, NEW p \in Procs, Load(p)
  PROVE  \E n : Computed(p, n)
<1>1. /\ World(Active, Made) /\ RowsWithin(rows, Active, Made)
      /\ Posted \subseteq Active /\ Made \subseteq Marks /\ claimed \subseteq Days
      /\ ledger # None => GoodFor(ledger, Active, Made)
      /\ ledger # None => ledger \in Ledger
  BY WorldOfState, RowsAreWithin DEF IInv, World, LedgersInv, TypeInv
<1>2. JobOK(p) /\ pc[p] = "credit"
  BY DEF IInv, ProcsInv, Load, Take
<1>3. CASE \E m \in Made : job[p] = MarkJob(m)
  <2>1. PICK m \in Made : job[p] = MarkJob(m)
    BY <1>3
  <2>2. job[p].kind = "mark" /\ <<job[p].thread, job[p].at>> = m
    BY <1>1, <2>1, JobKinds, Calendar
  <2> DEFINE n == AfterMark(ledger, rows, m)
  <2>3. copy' = [copy EXCEPT ![p] = n] /\ ledger' = ledger
    BY <2>2 DEF Load
  <2>4. Follows(ledger, n, Active, Made) /\ m \in n.marks
    BY <1>1, AfterMarkFollows
  <2> HIDE DEF n
  <2>5. \A d \in Days : n.xp[Mission(d)] > 0 =>
          ledger # None /\ ledger.xp[Mission(d)] > 0
    BY <2>4 DEF Follows, SameMissions
  <2>6. Computed(p, n)
    BY <1>1, <2>2, <2>3, <2>4, <2>5 DEF Computed, Follows
  <2> QED BY <2>6
<1>4. CASE \E t \in Threads : job[p] = Bonus(t)
  <2>1. PICK t \in Threads : job[p] = Bonus(t)
    BY <1>4
  <2>2. job[p].kind = "bonus" /\ job[p].thread = t
    BY <2>1, JobKinds
  <2> DEFINE s == Loaded(ledger, rows, DayOf[now])
             n == ApplyBonus(s, t)
  <2>3. /\ copy' = [copy EXCEPT ![p] = n]
        /\ ledger' = IF ledger = None THEN s ELSE ledger
    BY <2>2 DEF Load
  <2>4. DayOf[now] \in Nat
    BY Calendar DEF IInv, TypeInv
  <2>5. Follows(ledger, s, Active, Made)
    BY <1>1, <2>4, LoadedFollows
  <2> HIDE DEF s
  <2>6. Follows(ledger, n, Active, Made) /\ Grown(s, n)
    BY <1>1, <2>5, BonusFollows
  <2> HIDE DEF n
  <2>7. \A d \in Days : n.xp[Mission(d)] > 0 =>
          ledger # None /\ ledger.xp[Mission(d)] > 0
    BY <2>6 DEF Follows, SameMissions
  <2>8. Computed(p, n)
    BY <1>1, <2>2, <2>3, <2>5, <2>6, <2>7 DEF Computed, Follows
  <2> QED BY <2>8
<1>5. CASE \E d \in claimed : job[p] = Mission(d)
  <2>1. PICK d \in claimed : job[p] = Mission(d)
    BY <1>5
  <2>2. job[p].kind = "mission" /\ job[p].at = d /\ d \in Days
    BY <1>1, <2>1, JobKinds
  <2> DEFINE s == Loaded(ledger, rows, d)
             n == ApplyMission(s, d)
  <2>3. /\ copy' = [copy EXCEPT ![p] = n]
        /\ ledger' = IF ledger = None THEN s ELSE ledger
    BY <2>2 DEF Load
  <2>4. d \in Nat
    BY <2>2, Calendar
  <2>5. Follows(ledger, s, Active, Made)
    BY <1>1, <2>4, LoadedFollows
  <2>6. ledger # None => ledger.xp[Mission(d)] = 0
    <3>1. Completing(p, d)
      BY <1>2, <2>1 DEF Completing, Busy
    <3>2. ledger # None => ~(ledger.xp[Mission(d)] > 0)
      BY <2>2, <3>1 DEF IInv, MissionInv
    <3>3. ledger # None => ledger.xp[Mission(d)] \in Nat
      BY <1>1, <2>2, ItemsAreDistinct DEF Ledger
    <3> QED BY <3>2, <3>3
  <2> HIDE DEF s
  <2>7. /\ GoodFor(n, Active, Made) /\ Grown(s, n)
        /\ ledger # None => Grown(ledger, n)
        /\ \A e \in Days : e # d => n.xp[Mission(e)] = s.xp[Mission(e)]
    <3>1. ledger # None => ledger \in Ledger
      BY <1>1
    <3>2. /\ GoodFor(ApplyMission(s, d), Active, Made) /\ Grown(s, ApplyMission(s, d))
          /\ ledger # None => Grown(ledger, ApplyMission(s, d))
          /\ PaysOnly(d, s, ApplyMission(s, d))
      <4>1. Unpaid(ledger, d)
        BY <2>6 DEF Unpaid
      <4> QED BY <2>2, <2>5, <3>1, <4>1, MissionFollows
    <3> QED BY <3>2 DEF PaysOnly
  <2> HIDE DEF n
  <2>8. \A e \in Days : n.xp[Mission(e)] > 0 =>
          (ledger # None /\ ledger.xp[Mission(e)] > 0) \/ job[p] = Mission(e)
    BY <2>1, <2>5, <2>7 DEF Follows, SameMissions
  <2>9. Computed(p, n)
    BY <1>1, <2>2, <2>3, <2>5, <2>7, <2>8 DEF Computed, Follows
  <2> QED BY <2>9
<1> QED BY <1>2, <1>3, <1>4, <1>5 DEF JobOK, Busy

LEMMA LoadKeeps ==
  ASSUME IInv, NEW p \in Procs, Load(p)
  PROVE  StepKeeps
<1>1. PICK n : Computed(p, n)
  BY LoadComputes
<1>2. /\ holder = None /\ holder' = p /\ pc[p] = "credit"
      /\ pc' = [pc EXCEPT ![p] = "write"]
      /\ UNCHANGED <<now, rows, job, robbed, tick, claimed, faults, made>>
  BY DEF Load, Take, Goto
<1>3. ~robbed => \A q \in Procs : pc[q] # "write"
  BY <1>2, ProcsAssumption DEF IInv, LockInv
<1>4. n \in Ledger /\ n # None
  BY <1>1, NoneAssumption DEF Computed, GoodFor
<1>5. ledger' \in Ledger \cup {None}
  BY <1>1 DEF Computed, GoodFor
<1>6. /\ pc' \in [Procs -> Stages] /\ pc'[p] = "write"
      /\ \A q \in Procs : q # p => pc'[q] = pc[q]
      /\ copy' \in [Procs -> Ledger \cup {None}] /\ copy'[p] = n
      /\ \A q \in Procs : q # p => copy'[q] = copy[q]
  BY <1>1, <1>2, <1>4 DEF Computed, IInv, TypeInv, Stages, Busy
<1>7. TypeInv'
  BY <1>2, <1>5, <1>6 DEF IInv, TypeInv
<1>8. LockInv'
  BY <1>2, <1>3, <1>4, <1>6, ProcsAssumption DEF IInv, LockInv
<1>9. MadeInv' /\ RowsInv' /\ KeepsNoted /\ Made' = Made /\ Active' = Active
  BY <1>2 DEF IInv, MadeInv, RowsInv, TrueRow, Made, KeepsNoted, Active, Posted
<1>10. LedgerKept
  BY <1>1, GrownByNothing DEF Computed, LedgerKept, IInv, TypeInv
<1>11. ProcsInv'
  <2>1. ASSUME NEW q \in Procs
        PROVE  JobOK(q)'
    <3>1. CASE q = p
      BY <1>2, <1>6, <1>9, <3>1 DEF IInv, ProcsInv, JobOK, Busy
    <3>2. CASE q # p
      BY <1>2, <1>6, <1>9, <3>2 DEF IInv, ProcsInv, JobOK
    <3> QED BY <3>1, <3>2
  <2>2. ASSUME NEW w \in Workers
        PROVE  TickOK(w)'
    <3>1. \A t, at : Credited(t, at) => Credited(t, at)'
      BY <1>1 DEF Credited, Computed
    <3>2. TickOK(w) /\ w \in Procs
      BY Kinds DEF IInv, ProcsInv
    <3>3. pc'[w] \in Busy => pc[w] \in Busy
      BY <1>2, <1>6, <3>2 DEF Busy
    <3>4. ~robbed' /\ pc'[w] = "credited" /\ job[w].kind = "mark" =>
            Credited(job[w].thread, job[w].at)'
      <4>1. pc'[w] = "credited" => pc[w] = "credited"
        BY <1>6, <3>2
      <4>2. ~robbed /\ pc[w] = "credited" /\ job[w].kind = "mark" =>
              Credited(job[w].thread, job[w].at)
        BY <3>2 DEF TickOK, Replaying, Busy
      <4> QED BY <1>2, <3>1, <4>1, <4>2
    <3> QED BY <1>2, <1>9, <3>1, <3>2, <3>3, <3>4, IdleTickOK
  <2> QED BY <2>1, <2>2 DEF ProcsInv
<1>12. LedgersInv'
  <2>1. ledger' # None => GoodFor(ledger', Active, Made)
    BY <1>1 DEF Computed
  <2>2. ASSUME NEW q \in Procs, pc'[q] = "write"
        PROVE  /\ GoodFor(copy'[q], Active, Made)
               /\ ~robbed /\ ledger' # None => Grown(ledger', copy'[q])
               /\ job[q].kind = "mark" => <<job[q].thread, job[q].at>> \in copy'[q].marks
    <3>1. CASE q = p
      BY <1>1, <1>6, <3>1 DEF Computed
    <3>2. CASE q # p
      BY <1>3, <1>6, <2>2, <3>2 DEF IInv, LedgersInv
    <3> QED BY <3>1, <3>2
  <2> QED BY <1>2, <1>9, <2>1, <2>2 DEF LedgersInv
<1>13. MissionInv'
  <2> SUFFICES ASSUME NEW d \in Days
               PROVE  /\ \A q, r \in Procs : Completing(q, d)' /\ Completing(r, d)' => q = r
                      /\ ledger' # None /\ ledger'.xp[Mission(d)] > 0 =>
                           d \in claimed' /\ \A q \in Procs : ~Completing(q, d)'
                      /\ \A q \in Procs : pc'[q] = "write" /\ copy'[q].xp[Mission(d)] > 0 =>
                           d \in claimed' /\ \A r \in Procs : Completing(r, d)' => r = q
    BY DEF MissionInv
  <2>1. \A q \in Procs : Completing(q, d)' => Completing(q, d)
    BY <1>2, <1>6 DEF Completing, Busy
  <2>2. ledger' # None /\ ledger'.xp[Mission(d)] > 0 =>
          ledger # None /\ ledger.xp[Mission(d)] > 0
    BY <1>1 DEF Computed
  <2>3. n.xp[Mission(d)] > 0 => d \in claimed /\ \A r \in Procs : Completing(r, d) => r = p
    <3>1. CASE ledger # None /\ ledger.xp[Mission(d)] > 0
      BY <3>1 DEF IInv, MissionInv
    <3>2. CASE job[p] = Mission(d)
      <4>1. Completing(p, d)
        BY <1>2, <3>2 DEF Completing, Busy
      <4>2. d \in claimed
        <5>1. Made \subseteq Marks /\ claimed \subseteq Days
          BY WorldOfState DEF IInv, World, TypeInv
        <5>2. PICK e \in claimed : Mission(d) = Mission(e)
          BY <1>2, <3>2, <5>1, ItemsAreDistinct DEF IInv, ProcsInv, JobOK, Busy
        <5> QED BY <5>1, <5>2, ItemsAreDistinct
      <4> QED BY <4>1, <4>2 DEF IInv, MissionInv
    <3> QED BY <1>1, <3>1, <3>2 DEF Computed
  <2>4. \A q \in Procs : pc'[q] = "write" /\ q # p => pc[q] = "write"
    BY <1>6
  <2> QED BY <1>2, <1>6, <2>1, <2>2, <2>3, <2>4 DEF IInv, MissionInv
<1> QED BY <1>2, <1>7, <1>8, <1>9, <1>10, <1>11, <1>12, <1>13 DEF IInv, StepKeeps

\* A worker's job is never a mission.
LEMMA WorkersCompleteNothing ==
  ASSUME IInv, NEW w \in Workers, NEW d \in Days
  PROVE  ~Completing(w, d)
<1> SUFFICES ASSUME Completing(w, d) PROVE FALSE
  OBVIOUS
<1>1. Made \subseteq Marks /\ claimed \subseteq Days /\ w \in Procs
  BY WorldOfState, Kinds DEF IInv, World, TypeInv
<1>2. JobOK(w) /\ pc[w] \in Busy /\ job[w] = Mission(d)
  BY <1>1 DEF IInv, ProcsInv, Completing
<1> QED BY <1>1, <1>2, ItemsAreDistinct DEF JobOK

LEMMA WriteKeeps ==
  ASSUME IInv, NEW p \in Procs, Write(p)
  PROVE  StepKeeps
<1>1. /\ pc[p] = "write" /\ ledger' = copy[p] /\ holder' = None
      /\ copy' = [copy EXCEPT ![p] = None]
      /\ UNCHANGED <<now, rows, robbed, tick, claimed, faults, made>>
  BY DEF Write
<1>2. /\ copy[p] \in Ledger /\ GoodFor(copy[p], Active, Made)
      /\ ~robbed /\ ledger # None => Grown(ledger, copy[p])
      /\ job[p].kind = "mark" => <<job[p].thread, job[p].at>> \in copy[p].marks
  BY <1>1 DEF IInv, LedgersInv, GoodFor
<1>3. ~robbed => \A q \in Procs : q # p => pc[q] # "write"
  BY <1>1 DEF IInv, LockInv
<1>4. /\ pc' \in [Procs -> Stages] /\ job' \in [Procs -> Job]
      /\ \A q \in Procs : q # p => pc'[q] = pc[q] /\ job'[q] = job[q]
      /\ p \in Workers => pc'[p] = "credited" /\ job'[p] = job[p]
      /\ p \notin Workers => pc'[p] = "idle"
  <2>1. CASE p \in Workers
    BY <2>1 DEF Write, Goto, IInv, TypeInv, Stages, Busy
  <2>2. CASE p \notin Workers
    BY <2>2, LeavingMoves DEF Write, IInv
  <2> QED BY <2>1, <2>2
<1>5. /\ copy' \in [Procs -> Ledger \cup {None}] /\ copy'[p] = None
      /\ \A q \in Procs : q # p => copy'[q] = copy[q]
  BY <1>1 DEF IInv, TypeInv
<1>6. TypeInv'
  BY <1>1, <1>2, <1>4, <1>5 DEF IInv, TypeInv
<1>7. /\ \A q \in Procs : pc'[q] = "write" => q # p /\ pc[q] = "write"
      /\ ~robbed => \A q \in Procs : pc'[q] # "write"
  BY <1>3, <1>4
<1>8. LockInv'
  BY <1>1, <1>4, <1>5, <1>7, ProcsAssumption DEF IInv, LockInv
<1>9. MadeInv' /\ RowsInv' /\ KeepsNoted /\ Made' = Made /\ Active' = Active
  BY <1>1 DEF IInv, MadeInv, RowsInv, TrueRow, Made, KeepsNoted, Active, Posted
<1>10. ledger' # None
  BY <1>1, <1>2, NoneAssumption
<1>11. LedgerKept
  BY <1>1, <1>2, <1>10 DEF LedgerKept
<1>12. ~robbed => \A t, at : Credited(t, at) => Credited(t, at)'
  BY <1>1, <1>2, <1>10 DEF Credited, Grown
<1>13. ProcsInv'
  <2>1. ASSUME NEW q \in Procs
        PROVE  JobOK(q)'
    <3>1. CASE q = p
      BY <1>1, <1>4, <1>9, <3>1 DEF IInv, ProcsInv, JobOK, Busy
    <3>2. CASE q # p
      BY <1>1, <1>4, <1>9, <3>2 DEF IInv, ProcsInv, JobOK
    <3> QED BY <3>1, <3>2
  <2>2. ASSUME NEW w \in Workers
        PROVE  TickOK(w)'
    <3>1. TickOK(w) /\ w \in Procs
      BY Kinds DEF IInv, ProcsInv
    <3>2. job'[w] = job[w] /\ (pc'[w] \in Busy => pc[w] \in Busy)
      BY <1>1, <1>4, <3>1 DEF Busy
    <3>3. ~robbed' /\ pc'[w] = "credited" /\ job[w].kind = "mark" =>
            Credited(job[w].thread, job[w].at)'
      <4>1. CASE w = p
        BY <1>1, <1>2, <1>10, <3>2, <4>1 DEF Credited
      <4>2. CASE w # p
        <5>1. pc'[w] = pc[w]
          BY <1>4, <3>1, <4>2
        <5>2. ~robbed /\ pc[w] = "credited" /\ job[w].kind = "mark" =>
                Credited(job[w].thread, job[w].at)
          BY <3>1 DEF TickOK, Replaying, Busy
        <5> QED BY <1>1, <1>12, <3>2, <5>1, <5>2
      <4> QED BY <4>1, <4>2
    <3> QED BY <1>1, <1>9, <1>12, <3>1, <3>2, <3>3, IdleTickOK
  <2> QED BY <2>1, <2>2 DEF ProcsInv
<1>14. LedgersInv'
  BY <1>1, <1>2, <1>4, <1>5, <1>7, <1>9 DEF IInv, LedgersInv
<1>15. MissionInv'
  <2> SUFFICES ASSUME NEW d \in Days
               PROVE  /\ \A q, r \in Procs : Completing(q, d)' /\ Completing(r, d)' => q = r
                      /\ ledger'.xp[Mission(d)] > 0 =>
                           d \in claimed' /\ \A q \in Procs : ~Completing(q, d)'
                      /\ \A q \in Procs : pc'[q] = "write" /\ copy'[q].xp[Mission(d)] > 0 =>
                           d \in claimed' /\ \A r \in Procs : Completing(r, d)' => r = q
    BY DEF MissionInv
  <2>1. \A q \in Procs : Completing(q, d)' => q # p /\ Completing(q, d)
    <3>1. ASSUME NEW q \in Procs, Completing(q, d)'
          PROVE  q # p /\ Completing(q, d)
      <4>1. CASE q = p /\ p \notin Workers
        BY <1>4, <3>1, <4>1 DEF Completing, Busy
      <4>2. CASE q = p /\ p \in Workers
        <5>1. Completing(p, d)
          BY <1>1, <1>4, <3>1, <4>2 DEF Completing, Busy
        <5> QED BY <4>2, <5>1, WorkersCompleteNothing
      <4>3. CASE q # p
        BY <1>4, <3>1, <4>3 DEF Completing
      <4> QED BY <4>1, <4>2, <4>3
    <3> QED BY <3>1
  <2>2. copy[p].xp[Mission(d)] > 0 =>
          d \in claimed /\ \A r \in Procs : Completing(r, d) => r = p
    BY <1>1 DEF IInv, MissionInv
  <2>3. \A q \in Procs : pc'[q] = "write" => pc[q] = "write" /\ copy'[q] = copy[q]
    BY <1>5, <1>7
  <2> QED BY <1>1, <2>1, <2>2, <2>3 DEF IInv, MissionInv
<1> QED BY <1>6, <1>8, <1>9, <1>11, <1>13, <1>14, <1>15, <1>1 DEF IInv, StepKeeps

\* A step that only gives up: some processes forget what they were about to
\* write, nothing is written, and nobody takes the lock.
LEMMA GivingUpKeeps ==
  ASSUME IInv, NEW G,
         UNCHANGED <<now, rows, ledger, robbed, claimed, made>>,
         faults' \in 0 .. MaxFaults, holder' \in Procs \cup {None, Orphan},
         pc' \in [Procs -> Stages], job' \in [Procs -> Job],
         copy' \in [Procs -> Ledger \cup {None}], tick' \in [Workers -> Tick],
         \A q \in Procs : q \notin G =>
           pc'[q] = pc[q] /\ job'[q] = job[q] /\ copy'[q] = copy[q]
             /\ (holder' = q => holder = q)
             /\ (~robbed /\ holder = q => holder' = q),
         \A q \in Procs : q \in G =>
           /\ pc'[q] \in {"idle", "failed"} /\ copy'[q] = None /\ holder' # q
           /\ pc'[q] = "failed" => pc[q] \in Busy /\ job'[q] = job[q],
         \A w \in Workers : tick'[w] = tick[w] \/ (tick'[w] = NoTick /\ pc'[w] = "idle")
  PROVE  StepKeeps
<1>1. TypeInv'
  BY DEF IInv, TypeInv
<1>2. LockInv'
  BY DEF IInv, LockInv
<1>3. MadeInv' /\ RowsInv' /\ KeepsNoted /\ Made' = Made /\ Active' = Active
  BY DEF IInv, MadeInv, RowsInv, TrueRow, Made, KeepsNoted, Active, Posted
<1>4. LedgerKept
  BY SameLedgerKept DEF IInv
<1>5. ProcsInv'
  <2>1. ASSUME NEW q \in Procs
        PROVE  JobOK(q)'
    <3>1. CASE q \in G
      BY <1>3, <3>1 DEF IInv, ProcsInv, JobOK, Busy
    <3>2. CASE q \notin G
      BY <1>3, <3>2 DEF IInv, ProcsInv, JobOK
    <3> QED BY <3>1, <3>2
  <2>2. ASSUME NEW w \in Workers
        PROVE  TickOK(w)'
    <3>1. TickOK(w) /\ w \in Procs
      BY Kinds DEF IInv, ProcsInv
    <3>2. CASE tick'[w] = NoTick /\ pc'[w] = "idle"
      BY <3>2 DEF TickOK, NoTick, Busy
    <3>3. CASE w \in G /\ tick'[w] = tick[w] /\ pc'[w] = "idle"
      <4>1. \A t \in Threads : tick'[w].snap[t] # None => TrueRow(t, tick[w].snap[t])'
        BY <1>3, <3>1, <3>3 DEF TickOK, TrueRow
      <4> QED BY <3>1, <3>3, <4>1 DEF TickOK, Busy
    <3>4. CASE tick'[w] = tick[w] /\ (w \notin G \/ pc'[w] = "failed")
      <4>1. job'[w] = job[w] /\ (pc'[w] \in Busy => pc[w] \in Busy)
        BY <3>1, <3>4
      <4>2. \A t, at : Credited(t, at) => Credited(t, at)'
        BY DEF Credited
      <4>3. pc'[w] = "credited" => pc[w] = "credited"
        BY <3>1, <3>4
      <4>4. ~robbed /\ pc[w] = "credited" /\ job[w].kind = "mark" =>
              Credited(job[w].thread, job[w].at)
        BY <3>1 DEF TickOK, Replaying, Busy
      <4> QED BY <1>3, <3>1, <3>4, <4>1, <4>2, <4>3, <4>4, IdleTickOK
    <3> QED BY <3>1, <3>2, <3>3, <3>4
  <2> QED BY <2>1, <2>2 DEF ProcsInv
<1>6. \A q \in Procs : pc'[q] = "write" =>
        pc[q] = "write" /\ job'[q] = job[q] /\ copy'[q] = copy[q]
  OBVIOUS
<1>7. LedgersInv'
  BY <1>3, <1>6 DEF IInv, LedgersInv
<1>8. \A q \in Procs, d \in Days : Completing(q, d)' => Completing(q, d)
  BY DEF Completing, Busy
<1>9. MissionInv'
  BY <1>6, <1>8 DEF IInv, MissionInv
<1> QED BY <1>1, <1>2, <1>3, <1>4, <1>5, <1>7, <1>9 DEF IInv, StepKeeps

LEMMA FailKeeps ==
  ASSUME IInv, NEW p \in Procs, Fail(p)
  PROVE  StepKeeps
<1> DEFINE G == {p}
<1>1. /\ pc[p] \in Busy /\ pc' = [pc EXCEPT ![p] = "failed"]
      /\ copy' = [copy EXCEPT ![p] = None]
      /\ holder' = IF pc[p] = "write" THEN None ELSE holder
      /\ UNCHANGED <<now, rows, ledger, job, robbed, tick, claimed, made>>
  BY DEF Fail, Goto, Busy
<1>2. faults' \in 0 .. MaxFaults
  BY LedgerAssumption DEF Fail, IInv, TypeInv
<1>3. /\ holder' \in Procs \cup {None, Orphan} /\ pc' \in [Procs -> Stages]
      /\ copy' \in [Procs -> Ledger \cup {None}]
      /\ job' \in [Procs -> Job] /\ tick' \in [Workers -> Tick]
  BY <1>1 DEF IInv, TypeInv, Stages, Busy
<1>4. \A q \in Procs : q \notin G =>
        pc'[q] = pc[q] /\ job'[q] = job[q] /\ copy'[q] = copy[q]
          /\ (holder' = q => holder = q)
          /\ (~robbed /\ holder = q => holder' = q)
  BY <1>1, ProcsAssumption DEF IInv, TypeInv, LockInv
<1>5. \A q \in Procs : q \in G =>
        /\ pc'[q] \in {"idle", "failed"} /\ copy'[q] = None /\ holder' # q
        /\ pc'[q] = "failed" => pc[q] \in Busy /\ job'[q] = job[q]
  BY <1>1, ProcsAssumption DEF IInv, TypeInv, LockInv
<1>6. \A w \in Workers : tick'[w] = tick[w] \/ (tick'[w] = NoTick /\ pc'[w] = "idle")
  BY <1>1
<1> HIDE DEF G
<1> QED BY <1>1, <1>2, <1>3, <1>4, <1>5, <1>6, GivingUpKeeps

LEMMA CrashKeeps ==
  ASSUME IInv, NEW G, Crash(G)
  PROVE  StepKeeps
<1>1. /\ pc' = [p \in Procs |-> IF p \in G THEN "idle" ELSE pc[p]]
      /\ job' = [p \in Procs |-> IF p \in G THEN NoJob ELSE job[p]]
      /\ copy' = [p \in Procs |-> IF p \in G THEN None ELSE copy[p]]
      /\ tick' = [w \in Workers |-> IF w \in G THEN NoTick ELSE tick[w]]
      /\ holder' = IF holder \in G THEN Orphan ELSE holder
      /\ UNCHANGED <<now, rows, ledger, robbed, claimed, made>>
  BY DEF Crash
<1>2. faults' \in 0 .. MaxFaults
  BY LedgerAssumption DEF Crash, IInv, TypeInv
<1>3. NoTick \in Tick
  BY DEF NoTick, Tick, Table
<1>4. holder' \in Procs \cup {None, Orphan}
  BY <1>1 DEF IInv, TypeInv
<1>5. /\ pc' \in [Procs -> Stages] /\ copy' \in [Procs -> Ledger \cup {None}]
  BY <1>1 DEF IInv, TypeInv, Stages, Busy
<1>6. job' \in [Procs -> Job] /\ tick' \in [Workers -> Tick]
  BY <1>1, <1>3, JobKinds DEF IInv, TypeInv
<1>7. \A q \in Procs : q \notin G =>
        pc'[q] = pc[q] /\ job'[q] = job[q] /\ copy'[q] = copy[q]
          /\ (holder' = q => holder = q)
          /\ (~robbed /\ holder = q => holder' = q)
  BY <1>1, ProcsAssumption
<1>8. \A q \in Procs : q \in G =>
        /\ pc'[q] \in {"idle", "failed"} /\ copy'[q] = None /\ holder' # q
        /\ pc'[q] = "failed" => pc[q] \in Busy /\ job'[q] = job[q]
  BY <1>1, ProcsAssumption
<1>9. \A w \in Workers : tick'[w] = tick[w] \/ (tick'[w] = NoTick /\ pc'[w] = "idle")
  <2> TAKE w \in Workers
  <2>1. w \in Procs
    BY Kinds
  <2>2. w \in G => tick'[w] = NoTick /\ pc'[w] = "idle"
    BY <1>1, <2>1
  <2>3. w \notin G => tick'[w] = tick[w]
    BY <1>1
  <2> QED BY <2>2, <2>3
<1> QED BY <1>1, <1>2, <1>4, <1>5, <1>6, <1>7, <1>8, <1>9, GivingUpKeeps

\* A waiter that has looked at the lock and one that removes it: nothing but the
\* lock changes, and if it was that of a process at work, a lock is robbed.
LEMMA StealKeeps ==
  ASSUME IInv, NEW p \in Procs, FindOrphan(p) \/ StealDir(p)
  PROVE  StepKeeps
<1>1. /\ pc[p] \in {"credit", "steal"}
      /\ pc' = [pc EXCEPT ![p] = "steal"] \/ pc' = [pc EXCEPT ![p] = "credit"]
      /\ UNCHANGED <<now, rows, ledger, job, copy, tick, claimed, faults, made>>
  BY DEF FindOrphan, StealDir, Goto
<1>2. /\ robbed' \in BOOLEAN /\ (robbed => robbed')
      /\ \/ holder' = holder
         \/ holder' = None /\ (~robbed' => holder \notin Procs)
  BY DEF FindOrphan, StealDir, IInv, TypeInv
<1>3. /\ pc' \in [Procs -> Stages] /\ pc'[p] \in {"credit", "steal"}
      /\ \A q \in Procs : q # p => pc'[q] = pc[q]
  BY <1>1 DEF IInv, TypeInv, Stages, Busy
<1>4. TypeInv'
  BY <1>1, <1>2, <1>3 DEF IInv, TypeInv
<1>5. LockInv'
  BY <1>1, <1>2, <1>3, ProcsAssumption DEF IInv, LockInv
<1>6. MadeInv' /\ RowsInv' /\ KeepsNoted /\ Made' = Made /\ Active' = Active
  BY <1>1 DEF IInv, MadeInv, RowsInv, TrueRow, Made, KeepsNoted, Active, Posted
<1>7. LedgerKept
  BY <1>1, SameLedgerKept DEF IInv
<1>8. \A q \in Procs : /\ pc'[q] \in Busy <=> pc[q] \in Busy
                       /\ pc'[q] = "credited" <=> pc[q] = "credited"
                       /\ pc'[q] = "write" <=> pc[q] = "write"
                       /\ pc'[q] = "read" <=> pc[q] = "read"
  BY <1>1, <1>3 DEF Busy
<1>9. ProcsInv'
  <2>1. ASSUME NEW q \in Procs
        PROVE  JobOK(q)'
    BY <1>1, <1>6, <1>8 DEF IInv, ProcsInv, JobOK
  <2>2. ASSUME NEW w \in Workers
        PROVE  TickOK(w)'
    <3>1. TickOK(w) /\ w \in Procs
      BY Kinds DEF IInv, ProcsInv
    <3>2. ~robbed' /\ pc'[w] = "credited" /\ job[w].kind = "mark" =>
            Credited(job[w].thread, job[w].at)'
      BY <1>1, <1>2, <1>8, <3>1 DEF TickOK, Replaying, Busy, Credited
    <3>3. \A t, at : Credited(t, at) => Credited(t, at)'
      BY <1>1 DEF Credited
    <3> QED BY <1>1, <1>2, <1>6, <1>8, <3>1, <3>2, <3>3, IdleTickOK
  <2> QED BY <2>1, <2>2 DEF ProcsInv
<1>10. LedgersInv'
  BY <1>1, <1>2, <1>6, <1>8 DEF IInv, LedgersInv
<1>11. \A q \in Procs, d \in Days : Completing(q, d)' <=> Completing(q, d)
  BY <1>1, <1>8 DEF Completing
<1>12. MissionInv'
  BY <1>1, <1>8, <1>11 DEF IInv, MissionInv
<1> QED BY <1>2, <1>4, <1>5, <1>6, <1>7, <1>9, <1>10, <1>12 DEF IInv, StepKeeps

\* The clock goes on: the days the operator was active on only become more.
LEMMA PassKeeps ==
  ASSUME IInv, Pass
  PROVE  StepKeeps
<1>1. /\ now' = now + 1 /\ now < MaxInstant
      /\ UNCHANGED <<rows, ledger, holder, pc, job, copy, robbed, tick, claimed, faults,
                   made>>
  BY DEF Pass
<1>2. now' \in Instants /\ now \in Nat /\ now' \in Nat /\ now <= now'
  BY <1>1, LedgerAssumption DEF IInv, TypeInv, Instants
<1>3. TypeInv'
  BY <1>1, <1>2 DEF IInv, TypeInv
<1>4. LockInv' /\ RowsInv' /\ KeepsNoted /\ Made' = Made
  BY <1>1 DEF IInv, LockInv, RowsInv, TrueRow, Made, KeepsNoted
<1>5. MadeInv'
  <2>1. \A m \in made : m[2] \in Nat /\ m[3] \in Nat
    BY DEF IInv, TypeInv, Instants
  <2> QED BY <1>1, <1>2, <2>1 DEF IInv, MadeInv
<1>6. \A q \in Procs, d \in Days : Completing(q, d)' <=> Completing(q, d)
  BY <1>1 DEF Completing
<1>7. MissionInv'
  BY <1>1, <1>6 DEF IInv, MissionInv
<1>8. ProcsInv'
  <2>1. ASSUME NEW q \in Procs
        PROVE  JobOK(q)'
    BY <1>1, <1>2, <1>4, IdleJobOK DEF IInv, ProcsInv
  <2>2. ASSUME NEW w \in Workers
        PROVE  TickOK(w)'
    <3>1. TickOK(w)
      BY DEF IInv, ProcsInv
    <3> QED BY <1>1, <1>4, <3>1 DEF TickOK, Replaying, TrueRow, Credited
  <2> QED BY <2>1, <2>2 DEF ProcsInv
<1>9. \A s : GoodFor(s, Active, Made) => GoodFor(s, Active', Made')
  BY <1>1, <1>2, <1>3, <1>5, StillGood
<1>10. LedgersInv'
  BY <1>1, <1>9 DEF IInv, LedgersInv
<1>11. LedgerKept
  BY <1>1, SameLedgerKept DEF IInv
<1> QED BY <1>1, <1>3, <1>4, <1>5, <1>7, <1>8, <1>10, <1>11 DEF IInv, StepKeeps

\* Nothing happens.
LEMMA StutterKeeps ==
  ASSUME IInv, UNCHANGED vars
  PROVE  StepKeeps
<1>1. UNCHANGED <<now, rows, ledger, holder, pc, job, copy, robbed, tick, claimed,
                  faults, made>>
  BY DEF vars
<1>2. LedgerKept
  BY <1>1, SameLedgerKept DEF IInv
<1>3. KeepsNoted
  BY <1>1 DEF KeepsNoted
<1>4. TypeInv' /\ LockInv' /\ MadeInv' /\ RowsInv' /\ Made' = Made /\ Active' = Active
  BY <1>1 DEF IInv, TypeInv, LockInv, MadeInv, RowsInv, TrueRow, Made, Active, Posted
<1>5. \A q \in Procs, d \in Days : Completing(q, d)' <=> Completing(q, d)
  BY <1>1 DEF Completing
<1>6. MissionInv'
  BY <1>1, <1>5 DEF IInv, MissionInv
<1>7. LedgersInv'
  BY <1>1, <1>4 DEF IInv, LedgersInv
<1>8. ProcsInv'
  BY <1>1, <1>4 DEF IInv, ProcsInv, JobOK, TickOK, Replaying, TrueRow, Credited
<1> QED BY <1>1, <1>2, <1>3, <1>4, <1>6, <1>7, <1>8 DEF IInv, StepKeeps

\* Every step.
LEMMA NextKeeps ==
  ASSUME IInv, [Next]_vars
  PROVE  StepKeeps
<1>1. CASE \E p \in Procs : Step(p)
  BY <1>1, LoadKeeps, WriteKeeps, FailKeeps, StealKeeps DEF Step
<1>2. ASSUME NEW p \in Requests \cup Events, MarkStep(p)
      PROVE  StepKeeps
  <2>1. Moved(p) /\ Aside(p)
    <3>1. Brings[p] \subseteq Replies
      BY LedgerAssumption
    <3> QED BY <1>2, <3>1, RequestMoves, EventReadMoves, EventMarkMoves, NoteMoves,
               NoteLostMoves DEF MarkStep
  <2> QED BY <2>1, Kinds, AsideKeeps
<1>3. CASE \E p \in Claims : ClaimStep(p)
  BY <1>3, ClaimKeeps, UnclaimKeeps DEF ClaimStep
<1>4. ASSUME NEW w \in Workers, TickStep(w)
      PROVE  StepKeeps
  <2>1. Moved(w) /\ Aside(w)
    BY <1>4, BeginTickMoves, EndTickMoves, RetryMoves, SampleMoves, ReplayNextMoves,
       ClearMarkMoves, ClearBonusMoves, SurviveMarkMoves, SurviveBonusMoves DEF TickStep
  <2> QED BY <2>1, Kinds, AsideKeeps
<1>5. CASE \E G \in {Requests \cup Claims, Events, Workers} : Crash(G)
  BY <1>5, CrashKeeps
<1>6. CASE Pass
  BY <1>6, PassKeeps
<1>7. CASE UNCHANGED vars
  BY <1>7, StutterKeeps
<1> QED BY <1>1, <1>2, <1>3, <1>4, <1>5, <1>6, <1>7 DEF Next

\* Nothing has been marked, credited or claimed at the start.
LEMMA InitKeeps ==
  ASSUME Init
  PROVE  IInv
<1>1. NoTick \in Tick /\ NoTick.retry = {} /\ \A t \in Threads : NoTick.snap[t] = None
  BY DEF NoTick, Tick, Table
<1>2. 1 \in Instants /\ faults \in 0 .. MaxFaults
  BY LedgerAssumption DEF Init, Instants
<1>3. TypeInv
  BY <1>1, <1>2, JobKinds DEF Init, TypeInv, Table, Stages
<1>4. LockInv
  BY ProcsAssumption DEF Init, LockInv
<1>5. MadeInv /\ RowsInv /\ ledger = None /\ \A p \in Procs : pc[p] = "idle"
  BY DEF Init, MadeInv, RowsInv
<1>6. ProcsInv
  <2>1. \A p \in Procs : JobOK(p)
    BY <1>5 DEF JobOK, Busy
  <2>2. \A w \in Workers : tick[w] = NoTick /\ w \in Procs
    BY Kinds DEF Init
  <2>3. \A w \in Workers : TickOK(w)
    BY <1>1, <1>5, <2>2 DEF TickOK, Busy
  <2> QED BY <2>1, <2>3 DEF ProcsInv
<1>7. LedgersInv
  BY <1>5 DEF LedgersInv
<1>8. MissionInv
  BY <1>5 DEF MissionInv, Completing, Busy
<1> QED BY <1>3, <1>4, <1>5, <1>6, <1>7, <1>8 DEF IInv

LEMMA InvariantHolds == Spec => []IInv
<1>1. Init => IInv
  BY InitKeeps
<1>2. IInv /\ [Next]_vars => IInv'
  BY NextKeeps DEF StepKeeps
<1> QED BY <1>1, <1>2, PTL DEF Spec

------------------------------------------------------------------------------
(* What follows.                                                              *)

\* Rows, ledger and processes stay well typed, and until a lock is robbed only its
\* holder has a computed ledger at hand (gamification.ts:311).
THEOREM MarkLedgerTypeCorrect == Spec => []LedgerTypeOK
<1>1. IInv => LedgerTypeOK
  BY DEF IInv, TypeInv, LockInv, LedgerTypeOK, Table
<1> QED BY <1>1, InvariantHolds, PTL

\* No mark is paid above the tier of the run of active days that ends on its
\* own day, by its request, a replay, an overlapping tick or the seed
\* (gamification.ts:326).
THEOREM MarksPaidAtTheirTier == Spec => []PaidAtMostItsTier
<1>1. IInv => PaidAtMostItsTier
  BY DEF IInv, LedgersInv, GoodFor, Paid, PaidAtMostItsTier
<1> QED BY <1>1, InvariantHolds, PTL

\* Ids and XP tell the same story; a mission's XP is there once and only while
\* the mission is claimed (dailyMissions.ts:104).
THEOREM LedgerBooksBalance == Spec => []BooksBalance
<1>1. IInv => BooksBalance
  BY DEF IInv, LedgersInv, MissionInv, GoodFor, Balanced, BooksBalance
<1> QED BY <1>1, InvariantHolds, PTL

\* The streak of the ledger is no longer than the days the operator was really
\* active on, and the longest one is no shorter (gamificationXp.ts:341).
THEOREM StreaksAreEarned == Spec => []StreakIsEarned
<1>1. IInv => StreakIsEarned
  BY DEF IInv, LedgersInv, GoodFor, Earned, StreakIsEarned
<1> QED BY <1>1, InvariantHolds, PTL

\* No step takes back XP, a recorded mark or bonus, the longest streak or the
\* last marked day, though writers die at work and the lock they leave behind is
\* stolen: only a waiter that removes the lock of a process at work, having
\* taken it for the dead one's, brings that about (gamification.ts:311,
\* fileLock.ts:19).
THEOREM LedgerOnlyGrows == Spec => LedgerGrows
<1>1. IInv /\ [Next]_vars =>
        [~robbed' /\ ledger # None =>
           /\ ledger' # None
           /\ ledger.marks \subseteq ledger'.marks
           /\ ledger.bonus \subseteq ledger'.bonus
           /\ \A i \in Items : ledger.xp[i] <= ledger'.xp[i]
           /\ ledger.longest <= ledger'.longest
           /\ ledger.last <= ledger'.last]_vars
  BY NextKeeps DEF StepKeeps, LedgerKept, Grown
<1> QED BY <1>1, InvariantHolds, PTL DEF Spec, LedgerGrows

\* Until then a noted instant leaves its row only when the ledger has it
\* (interactionSync.ts:96, statsWorker.ts:250).
THEOREM NotedStaysNoted == Spec => NotedUntilCredited
<1>1. IInv /\ [Next]_vars =>
        [~robbed' => \A t \in Threads : rows[t] # None /\ rows'[t] # None =>
           \A at \in rows[t].pending \ rows'[t].pending :
             ledger # None /\ <<t, at>> \in ledger.marks]_vars
  BY NextKeeps DEF StepKeeps, KeepsNoted, Credited
<1> QED BY <1>1, InvariantHolds, PTL DEF Spec, NotedUntilCredited

==============================================================================
