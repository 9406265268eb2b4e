---------------------------- MODULE LedgerAdoption ----------------------------
(***************************************************************************)
(* The one-time adoption of the ledger that predates accounts, as a client *)
(* of the file lock (resolveGamificationPath and its callers in            *)
(* server/src/desk/gamification.ts).  Every request first finds the path   *)
(* of its user's ledger; while the user has none, it may copy the old one  *)
(* there, under the lock of a marker file.  Then it credits the ledger,    *)
(* under the lock of the ledger itself; a bonus or a mission looks for the *)
(* path a second time inside that lock.  The marker's lock is the one of   *)
(* FileLock; of a ledger's own lock only what LockPromise says is used:    *)
(* one caller inside, until one is robbed.                                 *)
(***************************************************************************)
EXTENDS FileLock, FiniteSets

CONSTANTS
  Users,
  UserOf,   \* the user each caller acts for
  Nested,   \* the callers that credit a bonus or a mission
  MaxDies   \* bound: processes that die

LedgerFile == [old : BOOLEAN, credits : SUBSET Procs]

ASSUME AdoptionAssumption ==
  /\ None \notin LedgerFile
  /\ UserOf \in [Procs -> Users]
  /\ Nested \subseteq Procs
  /\ MaxDies \in Nat

VARIABLES
  file,    \* each user's ledger: whether it is the old one, and its credits
  marker,  \* the marker of the adoption exists
  inside,  \* the callers inside the lock of each user's ledger
  raided,  \* history: users whose ledger's lock was removed under its holder
  step,    \* where each caller is
  copy,    \* the ledger it is about to write
  dies

adoptionState == <<file, marker, inside, raided, step, copy, dies>>
vars == <<lockState, adoptionState>>

Seeded == [old |-> FALSE, credits |-> {}]
Adopted == [old |-> TRUE, credits |-> {}]

Steps == {"idle", "user?", "marker?", "mark", "copy", "leave", "own", "again",
          "read", "write", "failed", "credited"}

Init ==
  /\ LockedInit
  /\ file = [u \in Users |-> None]
  /\ marker = FALSE
  /\ inside = [u \in Users |-> {}]
  /\ raided = {}
  /\ step = [p \in Procs |-> "idle"]
  /\ copy = [p \in Procs |-> None]
  /\ dies = 0

Goto(p, where) == step' = [step EXCEPT ![p] = where]

(* The path is found: the caller goes for its user's lock, or has it. *)
Found(p) == Goto(p, IF p \in inside[UserOf[p]] THEN "read" ELSE "own")

(* What could go wrong: a marker that exists is taken for an answer before *)
(* its lock is had.                                                        *)
ResolveByMarker(p) ==
  /\ step[p] \in {"idle", "again"}
  /\ IF file[UserOf[p]] # None \/ marker
     THEN Found(p) /\ UNCHANGED lockState
     ELSE Goto(p, "user?") /\ Ask(p)
  /\ UNCHANGED <<file, marker, inside, raided, copy, dies>>

(* Outside any lock: a ledger of the user's own is the path; otherwise the *)
(* old ledger may be adopted.                                              *)
Resolve(p) ==
  /\ step[p] \in {"idle", "again"}
  /\ IF file[UserOf[p]] # None
     THEN Found(p) /\ UNCHANGED lockState
     ELSE Goto(p, "user?") /\ Ask(p)
  /\ UNCHANGED <<file, marker, inside, raided, copy, dies>>

(* Under the marker's lock both files are looked at again. *)
RecheckUser(p) ==
  /\ step[p] = "user?" /\ at[p] = "in"
  /\ Goto(p, IF file[UserOf[p]] # None THEN "leave" ELSE "marker?")
  /\ UNCHANGED <<lockState, file, marker, inside, raided, copy, dies>>

RecheckMarker(p) ==
  /\ step[p] = "marker?"
  /\ Goto(p, IF marker THEN "leave" ELSE "mark")
  /\ UNCHANGED <<lockState, file, marker, inside, raided, copy, dies>>

(* What could go wrong: the old ledger is copied before the marker says so. *)
AdoptFileFirst(p) ==
  /\ \/ /\ step[p] = "mark"
        /\ file' = [file EXCEPT ![UserOf[p]] = Adopted]
        /\ Goto(p, "copy")
        /\ UNCHANGED marker
     \/ /\ step[p] = "copy"
        /\ marker' = TRUE
        /\ Goto(p, "leave")
        /\ UNCHANGED file
  /\ UNCHANGED <<lockState, inside, raided, copy, dies>>

(* Two awaited writes: the marker first, then the copy of the old ledger.  *)
AdoptLegacy(p) ==
  /\ \/ /\ step[p] = "mark"
        /\ marker' = TRUE
        /\ Goto(p, "copy")
        /\ UNCHANGED file
     \/ /\ step[p] = "copy"
        /\ file' = [file EXCEPT ![UserOf[p]] = Adopted]
        /\ Goto(p, "leave")
        /\ UNCHANGED marker
  /\ UNCHANGED <<lockState, inside, raided, copy, dies>>

Leave(p) ==
  /\ step[p] = "leave"
  /\ Unlock(p)
  /\ Found(p)
  /\ UNCHANGED <<file, marker, inside, raided, copy, dies>>

(* The marker's lock could not be had: the request fails. *)
Threw(p) ==
  /\ at[p] = "threw"
  /\ step[p] = "user?"
  /\ Goto(p, "failed")
  /\ inside' = [u \in Users |-> inside[u] \ {p}]
  /\ UNCHANGED <<lockState, file, marker, raided, copy, dies>>

(* The user's own lock. *)
Own(p) ==
  LET u == UserOf[p] IN
  /\ step[p] = "own"
  /\ inside[u] = {} \/ u \in raided
  /\ inside' = [inside EXCEPT ![u] = @ \cup {p}]
  /\ Goto(p, IF p \in Nested THEN "again" ELSE "read")
  /\ UNCHANGED <<lockState, file, marker, raided, copy, dies>>

(* It is removed by another waiter, under the caller that is inside. *)
Raid(u) ==
  /\ inside[u] # {} /\ u \notin raided
  /\ raided' = raided \cup {u}
  /\ UNCHANGED <<lockState, file, marker, inside, step, copy, dies>>

(* The ledger is read, or seeded when there is none; a bonus or a mission  *)
(* writes what it seeded at once.                                          *)
Read(p) ==
  LET u == UserOf[p]
      found == IF file[u] = None THEN Seeded ELSE file[u]
  IN
  /\ step[p] = "read"
  /\ copy' = [copy EXCEPT ![p] = [found EXCEPT !.credits = @ \cup {p}]]
  /\ file' = IF p \in Nested THEN [file EXCEPT ![u] = found] ELSE file
  /\ Goto(p, "write")
  /\ UNCHANGED <<lockState, marker, inside, raided, dies>>

Write(p) ==
  /\ step[p] = "write"
  /\ file' = [file EXCEPT ![UserOf[p]] = copy[p]]
  /\ copy' = [copy EXCEPT ![p] = None]
  /\ inside' = [inside EXCEPT ![UserOf[p]] = @ \ {p}]
  /\ Goto(p, "credited")
  /\ UNCHANGED <<lockState, marker, raided, dies>>

(* The process dies.  The marker's lock directory stays; the lock of a     *)
(* ledger keeps its promise, and the dead are not inside.                  *)
Crash(p) ==
  /\ step[p] \notin {"idle", "failed", "credited"}
  /\ dies < MaxDies
  /\ dies' = dies + 1
  /\ Die(p)
  /\ Goto(p, "failed")
  /\ copy' = [copy EXCEPT ![p] = None]
  /\ inside' = [u \in Users |-> inside[u] \ {p}]
  /\ UNCHANGED <<file, marker, raided>>

Locking(p) == step[p] = "user?" /\ Wait(p) /\ UNCHANGED adoptionState

Run(p) ==
  \/ Resolve(p) \/ RecheckUser(p) \/ RecheckMarker(p)
  \/ AdoptLegacy(p) \/ Leave(p) \/ Threw(p)
  \/ Own(p) \/ Read(p) \/ Write(p)

Next ==
  \/ \E p \in Procs : Locking(p) \/ Run(p) \/ Crash(p)
  \/ \E u \in Users : Raid(u)
  \/ Age /\ UNCHANGED adoptionState

(* A call of the file system returns and a timer fires; nothing makes a    *)
(* request come.                                                           *)
Going(p) == step[p] # "idle" /\ Run(p)

Fairness == \A p \in Procs : WF_vars(Locking(p)) /\ WF_vars(Going(p))

Spec == Init /\ [][Next]_vars /\ Fairness
-------------------------------------------------------------------------------
(***************************************************************************)
(* Properties.                                                             *)
(***************************************************************************)
(* Types, and that no lock outlives its request: a caller that has ended   *)
(* is inside no lock, and until a ledger's lock is raided one caller is    *)
(* inside it at most.                                                      *)
AdoptionTypeOK ==
  /\ dir \in Procs \cup {None}
  /\ at \in [Procs -> Places]
  /\ \A p \in Procs : tries[p] \in 0 .. Limit + 1
  /\ file \in [Users -> LedgerFile \cup {None}]
  /\ step \in [Procs -> Steps]
  /\ \A p \in Procs : step[p] \in {"failed", "credited"} =>
       at[p] # "in" /\ \A u \in Users : p \notin inside[u]
  /\ \A u \in Users \ raided : \A p, q \in inside[u] : p = q

(* The old ledger is adopted by one user only: whoever asks together,      *)
(* whoever dies between its two writes and leaves the lock of the marker   *)
(* to be stolen by the next, and whatever becomes of the locks of the      *)
(* ledgers.  Only a waiter that removes the lock of a caller still inside  *)
(* could break it (gamification.ts:190 and 214).                           *)
OneAdopter ==
  ~robbed => Cardinality({u \in Users : file[u] # None /\ file[u].old}) <= 1

(* No writer undoes another: not the adoption a credit that came first,    *)
(* nor a credit the adoption, although the two are written under different *)
(* locks, and though whoever was at either has died and its lock is stolen *)
(* (gamification.ts:192).                                                  *)
NothingOverwritten ==
  [][~robbed' => \A u \in Users \ raided' : file[u] # None =>
       /\ file'[u] # None
       /\ file[u].old => file'[u].old
       /\ file[u].credits \subseteq file'[u].credits]_vars

(* Every request ends, with its credit or with an error: beside a lock     *)
(* directory nobody will ever remove, and though a bonus waits for the     *)
(* marker's lock while it holds its ledger's (fileLock.ts:16).             *)
RequestsEnd ==
  \A p \in Procs : step[p] # "idle" ~> step[p] \in {"failed", "credited"}

===============================================================================
