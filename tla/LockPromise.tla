----------------------------- MODULE LockPromise -----------------------------
(***************************************************************************)
(* What withFileLock promises its callers: one of them inside at a time,   *)
(* until a waiter removes the lock of a caller that is still inside.  That *)
(* happens only once some lock has been kept for more than a minute: a     *)
(* lock directory of that age is taken for the remains of a crash, and of  *)
(* several waiters that saw it each may remove what it finds later.  Who   *)
(* died inside is not inside any more: his lock keeps nobody out for ever. *)
(***************************************************************************)
CONSTANT Procs

VARIABLES
  holders,  \* the callers whose function is running
  lapsed,   \* some lock has been kept for more than a minute
  robbed    \* some caller's lock was removed while it was inside

lockVars == <<holders, lapsed, robbed>>

LockInit == holders = {} /\ lapsed = FALSE /\ robbed = FALSE

Enter(p) ==
  /\ p \notin holders
  /\ holders = {} \/ robbed
  /\ holders' = holders \cup {p}
  /\ UNCHANGED <<lapsed, robbed>>

Depart(p) ==
  /\ p \in holders
  /\ holders' = holders \ {p}
  /\ UNCHANGED <<lapsed, robbed>>

Lapse == lapsed' = TRUE /\ UNCHANGED <<holders, robbed>>

Rob ==
  /\ lapsed
  /\ holders # {}
  /\ robbed' = TRUE
  /\ UNCHANGED <<holders, lapsed>>

LockNext == Lapse \/ Rob \/ \E p \in Procs : Enter(p) \/ Depart(p)

LockSpec == LockInit /\ [][LockNext]_lockVars

===============================================================================
