----------------------------- MODULE ScoutProfile -----------------------------
(***************************************************************************)
(* The Scout profile of each user: a file derived from the evidence in the *)
(* platform database (server/src/scout/scoutProfileStore.ts), rebuilt by a *)
(* hook on every change of evidence (scoutProfileProjection.ts) and, when  *)
(* a read finds it stale or missing, by the read.  The database and the    *)
(* files are shared by all processes; only an await lets others run.       *)
(*                                                                         *)
(* The profile of given evidence is that evidence: reduceScoutProfile is a *)
(* function of its snapshot.  Of the file's lock, what LockPromise says is *)
(* used: one holder at a time.  A pass that repairs evidence before a      *)
(* rebuild (reconcileScoutEvidence) may change it in any way.              *)
(***************************************************************************)
EXTENDS Naturals

CONSTANTS
  Users,
  Procs,
  Installed,  \* the processes that have loaded the store, and so the hook
  Facts,      \* what the evidence of a user can say
  NoFacts,    \* what it says at first
  None,       \* no valid file; nobody
  Attempts,   \* snapshots a rebuild takes before it gives up (REBUILD_ATTEMPTS)
  Readers,    \* bound: where whose profile is read
  MaxRev,     \* bound: changes of a user's evidence
  Changes,    \* bound: those of each
  MaxFaults   \* bound: failures, crashes and files lost

Revs == 0 .. MaxRev
Profile == [rev : Revs, facts : Facts]
Jobs == {"hook", "read"} \X Procs \X Users

ASSUME ProfileAssumption ==
  /\ Installed \subseteq Procs
  /\ NoFacts \in Facts
  /\ Attempts \in Nat \ {0}
  /\ Readers \subseteq Procs \X Users
  /\ MaxRev \in Nat /\ MaxFaults \in Nat
  /\ Changes \in [Users -> 0 .. MaxRev]
  /\ None \notin Profile \cup Jobs

VARIABLES
  facts,   \* scout_evidence, per user
  rev,     \* scout_evidence_revisions
  file,    \* data/scout-profile: the published profile
  lock,    \* who holds the lock of each file
  job,     \* each rebuild of a hook and each read, where it is
  log,     \* history: what the evidence said at each revision
  hooked,  \* history: the last revision recorded where the hook is installed
           \* and not hushed
  failed,  \* history: a rebuild of the hook failed, its process died, or
           \* the file was lost
  faults

vars == <<facts, rev, file, lock, job, log, hooked, failed, faults>>

Kind(j) == j[1]
ProcOf(j) == j[2]
UserOf(j) == j[3]

Steps == {"idle", "waiting", "repair", "stored?", "ask", "look", "publish",
          "done", "threw"}

(* base: the revision a read began with; got: the snapshot of a rebuild,   *)
(* and in the end the profile it returns.                                  *)
Start == [rev |-> 0, facts |-> NoFacts]
Idle == [step |-> "idle", base |-> 0, got |-> Start, tries |-> 0, dirty |-> FALSE]

Init ==
  /\ facts = [u \in Users |-> NoFacts]
  /\ rev = [u \in Users |-> 0]
  /\ file = [u \in Users |-> None]
  /\ lock = [u \in Users |-> None]
  /\ job = [j \in Jobs |-> Idle]
  /\ log = [u \in Users |-> [r \in Revs |-> NoFacts]]
  /\ hooked = [u \in Users |-> 0]
  /\ failed = [u \in Users |-> FALSE]
  /\ faults = 0

Fault == faults < MaxFaults /\ faults' = faults + 1

Goto(j, step) == job' = [job EXCEPT ![j].step = step]

Snapshot(u) == [rev |-> rev[u], facts |-> facts[u]]
-------------------------------------------------------------------------------
(* Changes of evidence.                                                    *)

(* The counter of withoutScoutProfileProjectionNotifications: it belongs   *)
(* to the process, not to the user whose evidence is repaired.             *)
Suppressed(p) == \E u \in Users : job[<<"hook", p, u>>].step = "repair"

(* What could go wrong: only an idle hook takes notice. *)
NotifyIdle(p, u) ==
  LET h == <<"hook", p, u>> IN
  IF p \in Installed /\ ~Suppressed(p) /\ job[h].step = "idle"
  THEN job' = [job EXCEPT ![h].step = "waiting"]
  ELSE UNCHANGED job

(* A first change schedules the rebuild; later ones make it run again. *)
Notify(p, u) ==
  LET h == <<"hook", p, u>> IN
  IF p \in Installed /\ ~Suppressed(p)
  THEN job' = IF job[h].step = "idle" THEN [job EXCEPT ![h].step = "waiting"]
              ELSE [job EXCEPT ![h].dirty = TRUE]
  ELSE UNCHANGED job

(* The notification of a change of u is lost for good: a repair of another *)
(* user keeps it from being given, and no rebuild of u is still to begin,  *)
(* or to take its first snapshot.                                          *)
Hushed(p, u) ==
  LET h == job[<<"hook", p, u>>] IN
  /\ \E v \in Users \ {u} : job[<<"hook", p, v>>].step = "repair"
  /\ h.step \notin {"waiting", "repair", "ask"} /\ ~h.dirty

(* One transaction: rows change and the revision moves, or neither. *)
Change(p, u, f) ==
  /\ f # facts[u]
  /\ rev[u] < Changes[u]
  /\ facts' = [facts EXCEPT ![u] = f]
  /\ rev' = [rev EXCEPT ![u] = @ + 1]
  /\ log' = [log EXCEPT ![u][rev'[u]] = f]
  /\ Notify(p, u)

(* An action or a note of the user is recorded by a process. *)
Record(p, u, f) ==
  /\ Change(p, u, f)
  /\ hooked' = IF p \in Installed /\ ~Hushed(p, u) THEN [hooked EXCEPT ![u] = rev'[u]]
               ELSE hooked
  /\ UNCHANGED <<file, lock, failed, faults>>

(* A pass of repair changes the evidence of its user. *)
Repair(j, f) ==
  /\ job[j].step = "repair"
  /\ Change(ProcOf(j), UserOf(j), f)
  /\ UNCHANGED <<file, lock, hooked, failed, faults>>
-------------------------------------------------------------------------------
(* The end of a rebuild.  The hook runs once more if it was told to        *)
(* meanwhile; a read has its answer or its error.                          *)
Ended(j, step, result) ==
  IF Kind(j) = "read" THEN [job[j] EXCEPT !.step = step, !.got = result]
  ELSE IF job[j].dirty THEN [Idle EXCEPT !.step = "repair"]
  ELSE Idle

Free(j) == lock' = [lock EXCEPT ![UserOf(j)] = IF @ = j THEN None ELSE @]

Return(j, result) ==
  /\ job' = [job EXCEPT ![j] = Ended(j, "done", result)]
  /\ Free(j)
  /\ UNCHANGED failed

Throw(j) ==
  /\ job' = [job EXCEPT ![j] = Ended(j, "threw", Start)]
  /\ Free(j)
  /\ failed' = IF Kind(j) = "hook" THEN [failed EXCEPT ![UserOf(j)] = TRUE] ELSE failed

(* The timer of the hook fires. *)
Fire(j) ==
  /\ job[j].step = "waiting"
  /\ job' = [job EXCEPT ![j] = [Idle EXCEPT !.step = "repair"]]
  /\ UNCHANGED <<facts, rev, file, lock, log, hooked, failed, faults>>

(* A read of the profile: the revision first, then, an await later, the    *)
(* file.                                                                   *)
ReadBegins(j) ==
  /\ Kind(j) = "read" /\ <<ProcOf(j), UserOf(j)>> \in Readers
  /\ job[j].step \in {"idle", "done", "threw"}
  /\ job' = [job EXCEPT ![j] = [Idle EXCEPT !.step = "stored?", !.base = rev[UserOf(j)]]]
  /\ UNCHANGED <<facts, rev, file, lock, log, hooked, failed, faults>>

(* What could go wrong: any valid file is served. *)
ReadAnyStored(j) ==
  LET stored == file[UserOf(j)] IN
  /\ job[j].step = "stored?"
  /\ IF stored # None THEN job' = [job EXCEPT ![j].step = "done", ![j].got = stored]
     ELSE Goto(j, "repair")
  /\ UNCHANGED <<facts, rev, file, lock, log, hooked, failed, faults>>

(* A file of that revision is served; without a file the evidence is       *)
(* repaired first.                                                         *)
ReadStored(j) ==
  LET stored == file[UserOf(j)] IN
  /\ job[j].step = "stored?"
  /\ IF stored = None THEN Goto(j, "repair")
     ELSE IF stored.rev = job[j].base
     THEN job' = [job EXCEPT ![j].step = "done", ![j].got = stored]
     ELSE Goto(j, "ask")
  /\ UNCHANGED <<facts, rev, file, lock, log, hooked, failed, faults>>

RepairEnds(j) ==
  /\ job[j].step = "repair"
  /\ Goto(j, "ask")
  /\ UNCHANGED <<facts, rev, file, lock, log, hooked, failed, faults>>

(* What could go wrong: a rebuild does not wait for the lock. *)
EnterAnyway(j) ==
  LET u == UserOf(j) IN
  /\ job[j].step = "ask"
  /\ lock' = [lock EXCEPT ![u] = j]
  /\ job' = [job EXCEPT ![j].step = "look", ![j].got = Snapshot(u), ![j].tries = 0]
  /\ UNCHANGED <<facts, rev, file, log, hooked, failed, faults>>

(* The lock is had and the first snapshot taken. *)
Enter(j) ==
  LET u == UserOf(j) IN
  /\ job[j].step = "ask"
  /\ lock[u] = None
  /\ lock' = [lock EXCEPT ![u] = j]
  /\ job' = [job EXCEPT ![j].step = "look", ![j].got = Snapshot(u), ![j].tries = 0]
  /\ UNCHANGED <<facts, rev, file, log, hooked, failed, faults>>

(* The file has been read: it may be kept, replaced by the snapshot while  *)
(* that is still current, or a newer snapshot is taken.                    *)
Look(j) ==
  LET u == UserOf(j)
      got == job[j].got
      kept == file[u] # None /\ file[u].rev = got.rev
  IN
  /\ job[j].step = "look"
  /\ \/ kept /\ Return(j, file[u])
     \/ /\ ~kept /\ rev[u] = got.rev
        /\ Goto(j, "publish")
        /\ UNCHANGED <<lock, failed>>
     \/ /\ ~kept /\ rev[u] # got.rev /\ job[j].tries + 1 >= Attempts
        /\ Throw(j)
     \/ /\ ~kept /\ rev[u] # got.rev /\ job[j].tries + 1 < Attempts
        /\ job' = [job EXCEPT ![j].got = Snapshot(u), ![j].tries = @ + 1]
        /\ UNCHANGED <<lock, failed>>
  /\ UNCHANGED <<facts, rev, file, log, hooked, faults>>

(* The rename, some awaits later. *)
Publish(j) ==
  /\ job[j].step = "publish"
  /\ file' = [file EXCEPT ![UserOf(j)] = job[j].got]
  /\ Return(j, job[j].got)
  /\ UNCHANGED <<facts, rev, log, hooked, faults>>

(* A repair, the lock, or the writing of the file fails. *)
Fails(j) ==
  /\ job[j].step \in {"repair", "ask", "publish"}
  /\ Fault
  /\ Throw(j)
  /\ UNCHANGED <<facts, rev, file, log, hooked>>

(* A process dies; the locks it held are free once they may be stolen. *)
Crash(p) ==
  /\ Fault
  /\ job' = [j \in Jobs |-> IF ProcOf(j) = p THEN Idle ELSE job[j]]
  /\ lock' = [u \in Users |-> IF lock[u] # None /\ ProcOf(lock[u]) = p THEN None
                              ELSE lock[u]]
  /\ failed' = [u \in Users |-> failed[u] \/ job[<<"hook", p, u>>].step # "idle"]
  /\ UNCHANGED <<facts, rev, file, log, hooked>>

(* A file is removed, or no longer valid for the version that runs. *)
Lose(u) ==
  /\ Fault
  /\ file' = [file EXCEPT ![u] = None]
  /\ failed' = [failed EXCEPT ![u] = TRUE]
  /\ UNCHANGED <<facts, rev, lock, job, log, hooked>>

Run(j) ==
  \/ Fire(j) \/ ReadStored(j) \/ RepairEnds(j)
  \/ Enter(j) \/ Look(j) \/ Publish(j)

Next ==
  \/ \E p \in Procs, u \in Users, f \in Facts : Record(p, u, f)
  \/ \E j \in Jobs :
       Run(j) \/ ReadBegins(j) \/ Fails(j) \/ (\E f \in Facts : Repair(j, f))
  \/ \E p \in Procs : Crash(p)
  \/ \E u \in Users : Lose(u)

(* Timers fire and what is awaited comes: a rebuild or a read that has     *)
(* begun goes on.  Nothing makes evidence change or a read begin.          *)
Fairness == \A j \in Jobs : WF_vars(Run(j))

Spec == Init /\ [][Next]_vars /\ Fairness
-------------------------------------------------------------------------------
(***************************************************************************)
(* Properties.                                                             *)
(***************************************************************************)
(* Types, and that the lock of a file is held by whoever rebuilds it. *)
ProfileTypeOK ==
  /\ facts \in [Users -> Facts]
  /\ rev \in [Users -> Revs]
  /\ file \in [Users -> Profile \cup {None}]
  /\ lock \in [Users -> Jobs \cup {None}]
  /\ job \in [Jobs -> [step : Steps, base : Revs, got : Profile,
                       tries : 0 .. Attempts, dirty : BOOLEAN]]
  /\ log \in [Users -> [Revs -> Facts]]
  /\ hooked \in [Users -> Revs]
  /\ failed \in [Users -> BOOLEAN]
  /\ faults \in 0 .. MaxFaults
  /\ \A j \in Jobs : job[j].step \in {"look", "publish"} <=> lock[UserOf(j)] = j

(* A published profile says what the evidence said at the revision it      *)
(* carries, which is what lets a read serve it for its number alone        *)
(* (scoutProfileStore.ts:407).                                             *)
FileIsTrue ==
  \A u \in Users : file[u] # None =>
    file[u].rev <= rev[u] /\ file[u].facts = log[u][file[u].rev]

(* A slower rebuild, of this process or another, never puts an older       *)
(* profile in the place of a newer one (scoutProfileStore.ts:345).         *)
NeverOlder ==
  [][\A u \in Users : file[u] # None /\ file'[u] # None =>
       file[u].rev <= file'[u].rev]_vars

(* What a read returns is at least as new as the evidence when the read    *)
(* began, though the file is read later, may be replaced meanwhile and may *)
(* come from another process; and it is true (scoutProfileStore.ts:405).   *)
ReadIsFresh ==
  \A j \in Jobs : job[j].step = "done" =>
    /\ job[j].base <= job[j].got.rev
    /\ job[j].got.facts = log[UserOf(j)][job[j].got.rev]

(* A change recorded where the hook is installed is in the file in the end *)
(* unless a rebuild failed or the file was lost: one made while a rebuild  *)
(* runs is not lost with it (scoutProfileProjection.ts:106), nor one that  *)
(* the repair of its own user keeps silent.  Exempted (Hushed): one that   *)
(* the repair of another user kept silent (scoutProfileProjection.ts:102), *)
(* which only the next change or the next read brings into the file.       *)
ChangesProjected ==
  \A u \in Users, r \in Revs :
    (hooked[u] >= r) ~> (r = 0 \/ failed[u] \/ (file[u] # None /\ file[u].rev >= r))
===============================================================================
