------------------------------- MODULE StreakXp -------------------------------
(***************************************************************************)
(* The arithmetic of the marks ledger (server/src/desk/gamificationXp.ts): *)
(* the XP tier of a streak, the streak of a set of UTC days, its overlay   *)
(* on a stored streak and the step of one mark.  A day is a number from 1; *)
(* NoDay stands for a ledger without a marked day.  The replays the code   *)
(* writes as loops over sorted days are stated here by what they compute:  *)
(* the length of the run of consecutive days that ends on a day.           *)
(***************************************************************************)
EXTENDS Naturals, FiniteSets

NoDay == 0

Larger(a, b) == IF a > b THEN a ELSE b

(* STREAK_XP_TIERS: the XP of one mark at a streak of n days. *)
MarkXp(n) ==
  IF n >= 30 THEN 5
  ELSE IF n >= 14 THEN 4
  ELSE IF n >= 7 THEN 3
  ELSE IF n >= 3 THEN 2
  ELSE 1

(* The days of the run of consecutive days of S that ends on d, and its    *)
(* length.                                                                 *)
RunDays(S, d) == {k \in S : k <= d /\ (k .. d) \subseteq S}
Run(S, d) == Cardinality(RunDays(S, d))

LastOf(S) == IF S = {} THEN NoDay ELSE CHOOSE d \in S : \A k \in S : k <= d

(* streakFromUtcDays: the run that ends on the last day counts as current  *)
(* only while that day is today or yesterday.                              *)
CurrentOf(S, today) ==
  LET last == LastOf(S) IN
  IF S # {} /\ (last = today \/ last + 1 = today) THEN Run(S, last) ELSE 0

LongestOf(S) ==
  IF S = {} THEN 0
  ELSE LET best == CHOOSE d \in S : \A k \in S : Run(S, k) <= Run(S, d)
       IN  Run(S, best)

(* overlayStreakFromDays: the streak of the days replaces the stored one   *)
(* when it ends later, or on the same day and is longer.                   *)
OverlayWins(s, S, today) ==
  \/ LastOf(S) > s.last
  \/ LastOf(S) = s.last /\ CurrentOf(S, today) > s.streak

Overlay(s, S, today) ==
  IF S = {} THEN s
  ELSE [s EXCEPT
          !.streak  = IF OverlayWins(s, S, today) THEN CurrentOf(S, today) ELSE @,
          !.last    = IF OverlayWins(s, S, today) THEN LastOf(S) ELSE @,
          !.longest = Larger(@, LongestOf(S))]

(* What could go wrong: a gap between two days does not end the streak. *)
StreakWithoutGap(s, d) ==
  IF s.last = NoDay THEN 1
  ELSE IF s.last = d THEN Larger(1, s.streak)
  ELSE Larger(1, s.streak) + 1

(* applyMarkToGamification: the streak after a mark on day d, for a d that *)
(* is not before the last marked day.                                      *)
StreakAfter(s, d) ==
  IF s.last = NoDay THEN 1
  ELSE IF s.last = d THEN Larger(1, s.streak)
  ELSE IF s.last + 1 = d THEN Larger(1, s.streak) + 1
  ELSE 1

(* backdatedMarkXp: a mark replayed after a later day was marked earns the *)
(* tier of the run of credited days that ends on its own day.              *)
BackdatedXp(days, d) == MarkXp(Run({k \in days : k <= d} \cup {d}, d))

===============================================================================
