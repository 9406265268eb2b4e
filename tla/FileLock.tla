------------------------------- MODULE FileLock -------------------------------
(***************************************************************************)
(* The lock of one file (server/src/platform/fileLock.ts): a directory     *)
(* beside it.  Who makes the directory runs; who finds it waits and tries  *)
(* again, removes it once it looks abandoned, and gives up after a while.  *)
(* The callers are handlers of several processes; every call of the file   *)
(* system is awaited, so others run between any two of them.               *)
(***************************************************************************)
EXTENDS Naturals

CONSTANTS
  Procs,     \* callers
  None,      \* no lock directory
  Patience,  \* tries before the age of the directory is looked at (50)
  Limit      \* tries before the caller gives up (200)

ASSUME LockAssumption ==
  /\ None \notin Procs
  /\ Patience \in Nat
  /\ Limit \in Nat
  /\ Patience < Limit

VARIABLES
  dir,     \* who made the lock directory that is there, or None
  old,     \* it was made more than a minute ago
  lapsed,  \* history: some lock directory has reached that age
  robbed,  \* history: one was removed while the caller it stood for was in
  at,      \* where each caller is: outside, at a call of the file system, or in
  tries    \* retries of its loop

lockState == <<dir, old, lapsed, robbed, at, tries>>

Places == {"out", "mkdir", "stat", "rmdir", "sleep", "in", "threw"}

LockedInit ==
  /\ dir = None
  /\ old = FALSE
  /\ lapsed = FALSE
  /\ robbed = FALSE
  /\ at = [p \in Procs |-> "out"]
  /\ tries = [p \in Procs |-> 0]

At(p, place) == at' = [at EXCEPT ![p] = place]

(* The call: the loop starts at its first try. *)
Ask(p) ==
  /\ at[p] = "out"
  /\ At(p, "mkdir")
  /\ tries' = [tries EXCEPT ![p] = 0]
  /\ UNCHANGED <<dir, old, lapsed, robbed>>

(* mkdir makes the directory or finds one (EEXIST): then the caller gives  *)
(* up, looks at its age, or sleeps, by the number of its tries.            *)
MakeDir(p) ==
  /\ at[p] = "mkdir"
  /\ \/ /\ dir = None
        /\ dir' = p
        /\ old' = FALSE
        /\ At(p, "in")
     \/ /\ dir # None
        /\ At(p, IF tries[p] > Limit THEN "threw"
                 ELSE IF tries[p] > Patience THEN "stat" ELSE "sleep")
        /\ UNCHANGED <<dir, old>>
  /\ UNCHANGED <<lapsed, robbed, tries>>

(* What could go wrong: a lock directory is removed whatever its age. *)
StatAnyAge(p) ==
  /\ at[p] = "stat"
  /\ At(p, IF dir # None THEN "rmdir" ELSE "sleep")
  /\ UNCHANGED <<dir, old, lapsed, robbed, tries>>

(* stat: a directory of more than a minute is removed next; one that has   *)
(* gone meanwhile fails the stat, which is swallowed.                      *)
StatDir(p) ==
  /\ at[p] = "stat"
  /\ At(p, IF dir # None /\ old THEN "rmdir" ELSE "sleep")
  /\ UNCHANGED <<dir, old, lapsed, robbed, tries>>

(* rmdir removes whatever lock directory is there by then: the one whose   *)
(* age was looked at, or one made since, by a caller that is at work.      *)
StealDir(p) ==
  /\ at[p] = "rmdir"
  /\ robbed' = (robbed \/ (dir # None /\ at[dir] = "in"))
  /\ dir' = None
  /\ old' = FALSE
  /\ tries' = [tries EXCEPT ![p] = @ + 1]
  /\ At(p, "mkdir")
  /\ UNCHANGED lapsed

(* What could go wrong: a wait is not counted as a try. *)
WakeUncounted(p) ==
  /\ at[p] = "sleep"
  /\ At(p, "mkdir")
  /\ UNCHANGED <<dir, old, lapsed, robbed, tries>>

WakeUp(p) ==
  /\ at[p] = "sleep"
  /\ tries' = [tries EXCEPT ![p] = @ + 1]
  /\ At(p, "mkdir")
  /\ UNCHANGED <<dir, old, lapsed, robbed>>

(* finally: the directory is removed, made by this caller or not. *)
Unlock(p) ==
  /\ at[p] = "in"
  /\ dir' = None
  /\ old' = FALSE
  /\ At(p, "out")
  /\ UNCHANGED <<lapsed, robbed, tries>>

(* A minute passes for the directory that is there. *)
Age ==
  /\ dir # None /\ ~old
  /\ old' = TRUE
  /\ lapsed' = TRUE
  /\ UNCHANGED <<dir, robbed, at, tries>>

(* The process of a caller dies; its lock directory stays. *)
Die(p) ==
  /\ at' = [at EXCEPT ![p] = "out"]
  /\ tries' = [tries EXCEPT ![p] = 0]
  /\ UNCHANGED <<dir, old, lapsed, robbed>>

Wait(p) == MakeDir(p) \/ StatDir(p) \/ StealDir(p) \/ WakeUp(p)

Inside == {p \in Procs : at[p] = "in"}

Promise == INSTANCE LockPromise WITH holders <- Inside
PromiseSpec == Promise!LockSpec

===============================================================================
