-------------------------- MODULE ScoutProfileProofs --------------------------
(***************************************************************************)
(* Proofs about ScoutProfile, for any users, processes, facts and number   *)
(* of attempts, revisions and faults: a published profile is true and      *)
(* never replaced by an older one, and what a read returns is fresh.       *)
(*                                                                         *)
(* The argument: evidence never changes at a revision that has been; only  *)
(* the holder of its lock puts a profile into a file; and what the holder  *)
(* has is a snapshot taken after the lock, so no older than the file and   *)
(* no older than the evidence when its read began.                         *)
(***************************************************************************)
EXTENDS ScoutProfile, TLAPS

-------------------------------------------------------------------------------
(* The invariant, in parts.                                                *)

Job == [step : Steps, base : Revs, got : Profile, tries : 0 .. Attempts, dirty : BOOLEAN]

TypeInv ==
  /\ facts \in [Users -> Facts]
  /\ rev \in [Users -> Revs]
  /\ file \in [Users -> Profile \cup {None}]
  /\ lock \in [Users -> Jobs \cup {None}]
  /\ job \in [Jobs -> Job]
  /\ log \in [Users -> [Revs -> Facts]]
  /\ hooked \in [Users -> Revs]
  /\ failed \in [Users -> BOOLEAN]
  /\ faults \in 0 .. MaxFaults

(* A job works on the file if and only if it has the lock. *)
Working(j) == job[j].step \in {"look", "publish"}
LockInv == \A j \in Jobs : Working(j) <=> lock[UserOf(j)] = j

(* The log ends with what the evidence says. *)
LogInv == \A u \in Users : log[u][rev[u]] = facts[u]

(* A profile was true when it was taken. *)
TrueBy(now, past, profile) ==
  profile.rev <= now /\ past[profile.rev] = profile.facts

FilesInv == \A u \in Users : file[u] # None => TrueBy(rev[u], log[u], file[u])

(* What a job has is true and not older than the evidence when it began,   *)
(* nor, while it has the lock, than the file.                              *)
Fresh(j) ==
  /\ TrueBy(rev[UserOf(j)], log[UserOf(j)], job[j].got)
  /\ job[j].base <= job[j].got.rev

JobInv(j) ==
  /\ job[j].base <= rev[UserOf(j)]
  /\ Working(j) \/ job[j].step = "done" => Fresh(j)
  /\ Working(j) /\ file[UserOf(j)] # None => file[UserOf(j)].rev <= job[j].got.rev

JobsInv == \A j \in Jobs : JobInv(j)

IInv == TypeInv /\ LockInv /\ LogInv /\ FilesInv /\ JobsInv
-------------------------------------------------------------------------------
(* Jobs and results.                                                       *)

\* A job has a kind, a process and a user, and is made of them.
LEMMA JobParts ==
  /\ \A j \in Jobs : /\ Kind(j) \in {"hook", "read"} /\ ProcOf(j) \in Procs
                     /\ UserOf(j) \in Users
  /\ \A p \in Procs, u \in Users :
       LET h == <<"hook", p, u>> IN h \in Jobs /\ UserOf(h) = u
BY DEF Jobs, Kind, ProcOf, UserOf

\* Nobody is no job, and no file is no profile.
LEMMA NoneIsNothing == None \notin Jobs /\ None \notin Profile
BY ProfileAssumption

\* A job at rest, and one that ended, is a job.
LEMMA IdleIsJob == Start \in Profile /\ Idle \in Job
<1>1. 0 \in Revs /\ 0 \in 0 .. Attempts /\ NoFacts \in Facts
  BY ProfileAssumption DEF Revs
<1>2. Start \in Profile
  BY <1>1 DEF Start, Profile
<1> QED BY <1>1, <1>2 DEF Idle, Job, Steps

LEMMA EndIsJob ==
  ASSUME NEW j \in Jobs, job[j] \in Job, NEW step \in {"done", "threw"},
         NEW result \in Profile
  PROVE  LET e == Ended(j, step, result) IN
         /\ e \in Job
         /\ e.step \notin {"look", "publish"}
         /\ e.base = job[j].base \/ e.base = 0
         /\ e.step = "done" => step = "done" /\ e.got = result /\ e.base = job[j].base
<1>1. CASE Kind(j) = "read"
  BY <1>1 DEF Ended, Job, Steps
<1>2. CASE Kind(j) # "read"
  BY <1>2, IdleIsJob DEF Ended, Idle, Job, Steps
<1> QED BY <1>1, <1>2

\* What the database says now is a profile.
LEMMA SnapshotIsProfile ==
  ASSUME TypeInv, NEW u \in Users
  PROVE  Snapshot(u) \in Profile
BY DEF TypeInv, Snapshot, Profile
-------------------------------------------------------------------------------
(* Three kinds of step.                                                    *)

\* A notification moves no job to or from the file, and gives it nothing.
LEMMA NotifyKeeps ==
  ASSUME job \in [Jobs -> Job], NEW p \in Procs, NEW u \in Users, Notify(p, u)
  PROVE  /\ job' \in [Jobs -> Job]
         /\ \A j \in Jobs :
              /\ job'[j].base = job[j].base /\ job'[j].got = job[j].got
              /\ job'[j].step = job[j].step
                   \/ (job[j].step = "idle" /\ job'[j].step = "waiting")
<1> DEFINE h == <<"hook", p, u>>
<1>1. \/ (job' = [job EXCEPT ![h].step = "waiting"] /\ job[h].step = "idle")
      \/ job' = [job EXCEPT ![h].dirty = TRUE]
      \/ UNCHANGED job
  BY Zenon DEF Notify
<1>2. h \in Jobs
  BY JobParts
<1> HIDE DEF h
<1>3. job[h] \in Job
  BY <1>2
<1>4. /\ [job[h] EXCEPT !.step = "waiting"] \in Job
      /\ [job[h] EXCEPT !.dirty = TRUE] \in Job
  BY <1>3 DEF Job, Steps
<1>5. ASSUME NEW x \in Job, job' = [job EXCEPT ![h] = x],
             x.base = job[h].base, x.got = job[h].got,
             x.step = job[h].step \/ (job[h].step = "idle" /\ x.step = "waiting")
      PROVE  /\ job' \in [Jobs -> Job]
             /\ \A j \in Jobs :
                  /\ job'[j].base = job[j].base /\ job'[j].got = job[j].got
                  /\ job'[j].step = job[j].step
                       \/ (job[j].step = "idle" /\ job'[j].step = "waiting")
  <2>1. job' \in [Jobs -> Job]
    BY <1>5
  <2>2. \A j \in Jobs : job'[j] = IF j = h THEN x ELSE job[j]
    BY <1>5
  <2> QED BY <1>5, <2>1, <2>2
<1>6. CASE job' = [job EXCEPT ![h].step = "waiting"] /\ job[h].step = "idle"
  <2>1. job' = [job EXCEPT ![h] = [job[h] EXCEPT !.step = "waiting"]]
    BY <1>6
  <2>2. LET x == [job[h] EXCEPT !.step = "waiting"] IN
        x.base = job[h].base /\ x.got = job[h].got /\ x.step = "waiting"
    BY <1>3 DEF Job
  <2> QED BY <1>4, <1>5, <1>6, <2>1, <2>2
<1>7. CASE job' = [job EXCEPT ![h].dirty = TRUE]
  <2>1. job' = [job EXCEPT ![h] = [job[h] EXCEPT !.dirty = TRUE]]
    BY <1>7
  <2>2. LET x == [job[h] EXCEPT !.dirty = TRUE] IN
        x.base = job[h].base /\ x.got = job[h].got /\ x.step = job[h].step
    BY <1>3 DEF Job
  <2> QED BY <1>4, <1>5, <2>1, <2>2
<1>8. CASE UNCHANGED job
  BY <1>8
<1> QED BY <1>1, <1>6, <1>7, <1>8

\* A change of evidence writes the log beyond what any profile has of it.
LEMMA ChangeKeeps ==
  ASSUME IInv, NEW p \in Procs, NEW u \in Users, NEW f \in Facts, Change(p, u, f),
         UNCHANGED <<file, lock, failed>>,
         hooked' = hooked \/ hooked' = [hooked EXCEPT ![u] = rev'[u]],
         UNCHANGED faults
  PROVE  IInv'
<1>1. TypeInv /\ LockInv /\ LogInv /\ FilesInv /\ JobsInv
  BY DEF IInv
<1>2. /\ facts' = [facts EXCEPT ![u] = f]
      /\ rev' = [rev EXCEPT ![u] = @ + 1]
      /\ log' = [log EXCEPT ![u][rev'[u]] = f]
      /\ rev[u] < Changes[u]
      /\ Notify(p, u)
  BY DEF Change
<1>3. rev'[u] = rev[u] + 1 /\ rev[u] + 1 \in Revs /\ rev[u] \in Revs
  <2>1. Changes[u] \in 0 .. MaxRev /\ MaxRev \in Nat
    BY ProfileAssumption
  <2> QED BY <1>1, <1>2, <2>1 DEF TypeInv, Revs
<1>4. /\ job' \in [Jobs -> Job]
      /\ \A j \in Jobs :
           /\ job'[j].base = job[j].base /\ job'[j].got = job[j].got
           /\ job'[j].step = job[j].step
                \/ (job[j].step = "idle" /\ job'[j].step = "waiting")
  BY <1>1, <1>2, NotifyKeeps DEF TypeInv
<1>5. \A v \in Users : v # u =>
        facts'[v] = facts[v] /\ rev'[v] = rev[v] /\ log'[v] = log[v]
  BY <1>1, <1>2 DEF TypeInv
<1>6. facts'[u] = f /\ log'[u] = [log[u] EXCEPT ![rev[u] + 1] = f]
  BY <1>1, <1>2, <1>3 DEF TypeInv
<1>7. log[u] \in [Revs -> Facts]
  BY <1>1 DEF TypeInv
<1>8. TypeInv'
  <2>1. rev' \in [Users -> Revs] /\ facts' \in [Users -> Facts]
    BY <1>1, <1>2, <1>3 DEF TypeInv
  <2>2. log' \in [Users -> [Revs -> Facts]]
    BY <1>1, <1>2, <1>3, <1>7 DEF TypeInv
  <2>3. hooked' \in [Users -> Revs]
    BY <1>1, <1>3 DEF TypeInv
  <2> QED BY <1>1, <1>4, <2>1, <2>2, <2>3 DEF TypeInv
<1>9. LogInv'
  BY <1>1, <1>3, <1>5, <1>6, <1>7 DEF LogInv
<1>10. \A v \in Users, x \in Profile :
         TrueBy(rev[v], log[v], x) => TrueBy(rev'[v], log'[v], x)
  <2> SUFFICES ASSUME NEW v \in Users, NEW x \in Profile, TrueBy(rev[v], log[v], x)
               PROVE  TrueBy(rev'[v], log'[v], x)
    OBVIOUS
  <2>1. CASE v # u
    BY <2>1, <1>5
  <2>2. CASE v = u
    <3>1. x.rev \in Revs /\ x.rev <= rev[u] /\ log[u][x.rev] = x.facts
      BY <2>2 DEF TrueBy, Profile
    <3>2. x.rev # rev[u] + 1 /\ x.rev <= rev[u] + 1
      BY <3>1, <1>3 DEF Revs
    <3>3. log'[u][x.rev] = log[u][x.rev]
      BY <1>6, <1>7, <3>1, <3>2
    <3> QED BY <1>3, <2>2, <3>1, <3>2, <3>3 DEF TrueBy
  <2> QED BY <2>1, <2>2
<1>11. FilesInv'
  BY <1>1, <1>10 DEF FilesInv, TypeInv
<1>12. LockInv'
  BY <1>1, <1>4 DEF LockInv, Working
<1>13. JobsInv'
  <2> SUFFICES ASSUME NEW j \in Jobs PROVE JobInv(j)'
    BY DEF JobsInv
  <2> DEFINE v == UserOf(j)
  <2>1. v \in Users
    BY JobParts
  <2>2. rev[v] \in Revs /\ rev'[v] \in Revs /\ rev[v] <= rev'[v]
    BY <1>3, <1>5, <2>1, <1>1 DEF TypeInv, Revs
  <2>3. JobInv(j) /\ job[j] \in Job
    BY <1>1 DEF JobsInv, TypeInv
  <2>4. job[j].base \in Revs /\ job[j].got \in Profile
    BY <2>3 DEF Job
  <2>5. job'[j].base <= rev'[v]
    BY <1>4, <2>2, <2>3, <2>4 DEF JobInv, Revs
  <2>6. Working(j)' = Working(j) /\ (job'[j].step = "done" <=> job[j].step = "done")
    BY <1>4 DEF Working
  <2>7. job'[j].base = job[j].base /\ job'[j].got = job[j].got
    BY <1>4
  <2>8. Working(j)' \/ job'[j].step = "done" => Fresh(j)'
    <3>1. Fresh(j) => TrueBy(rev'[v], log'[v], job[j].got)
      BY <1>10, <2>1, <2>4 DEF Fresh
    <3> QED BY <2>3, <2>6, <2>7, <3>1 DEF JobInv, Fresh
  <2>9. Working(j)' /\ file'[v] # None => file'[v].rev <= job'[j].got.rev
    BY <2>3, <2>6, <2>7 DEF JobInv
  <2> HIDE DEF v
  <2> QED BY <2>5, <2>8, <2>9 DEF JobInv, v
<1> QED BY <1>8, <1>9, <1>11, <1>12, <1>13 DEF IInv

\* A step of one job keeps what the others rely on.
LEMMA MoveKeeps ==
  ASSUME IInv, NEW j \in Jobs, NEW x \in Job, job' = [job EXCEPT ![j] = x],
         UNCHANGED <<facts, rev, log, hooked>>,
         file' \in [Users -> Profile \cup {None}], FilesInv',
         lock' \in [Users -> Jobs \cup {None}],
         failed' \in [Users -> BOOLEAN], faults' \in 0 .. MaxFaults,
         x.step \in {"look", "publish"} <=> lock'[UserOf(j)] = j,
         \A k \in Jobs \ {j} : lock'[UserOf(k)] = k <=> lock[UserOf(k)] = k,
         \A k \in Jobs \ {j} : Working(k) => file'[UserOf(k)] = file[UserOf(k)],
         JobInv(j)'
  PROVE  IInv'
<1>1. TypeInv /\ LockInv /\ LogInv /\ FilesInv /\ JobsInv
  BY DEF IInv
<1>2. job' \in [Jobs -> Job] /\ job'[j] = x /\ \A k \in Jobs \ {j} : job'[k] = job[k]
  BY <1>1 DEF TypeInv
<1>3. TypeInv'
  BY <1>1, <1>2 DEF TypeInv
<1>4. LockInv'
  BY <1>1, <1>2 DEF LockInv, Working
<1>5. LogInv'
  BY <1>1 DEF LogInv
<1>6. \A k \in Jobs \ {j} : JobInv(k)'
  BY <1>1, <1>2 DEF JobsInv, JobInv, Fresh, Working
<1> QED BY <1>3, <1>4, <1>5, <1>6 DEF IInv, JobsInv

\* The same, when the file stays.
LEMMA StayKeeps ==
  ASSUME IInv, NEW j \in Jobs, NEW x \in Job, job' = [job EXCEPT ![j] = x],
         UNCHANGED <<facts, rev, log, hooked, file>>,
         lock' \in [Users -> Jobs \cup {None}],
         failed' \in [Users -> BOOLEAN], faults' \in 0 .. MaxFaults,
         x.step \in {"look", "publish"} <=> lock'[UserOf(j)] = j,
         \A k \in Jobs \ {j} : lock'[UserOf(k)] = k <=> lock[UserOf(k)] = k,
         JobInv(j)'
  PROVE  IInv'
<1>1. FilesInv' /\ file' \in [Users -> Profile \cup {None}]
  BY DEF IInv, FilesInv, TypeInv
<1> QED BY <1>1, MoveKeeps

\* The same, when only the job changes, and does not work on the file.
LEMMA AsideKeeps ==
  ASSUME IInv, NEW j \in Jobs, NEW x \in Job, job' = [job EXCEPT ![j] = x],
         UNCHANGED <<facts, rev, log, hooked, file, lock, failed, faults>>,
         ~Working(j), x.step \notin {"look", "publish"}, JobInv(j)'
  PROVE  IInv'
<1>1. TypeInv /\ LockInv
  BY DEF IInv
<1>2. lock[UserOf(j)] # j
  BY <1>1 DEF LockInv
<1> QED BY <1>1, <1>2, StayKeeps DEF TypeInv

\* Who frees its lock has it no more, and takes it from nobody else.
LEMMA FreeIsOwn ==
  ASSUME TypeInv, NEW j \in Jobs, Free(j)
  PROVE  /\ lock' \in [Users -> Jobs \cup {None}]
         /\ lock'[UserOf(j)] # j
         /\ \A k \in Jobs \ {j} : lock'[UserOf(k)] = k <=> lock[UserOf(k)] = k
<1>1. UserOf(j) \in Users /\ \A k \in Jobs : UserOf(k) \in Users
  BY JobParts
<1>2. lock' = [lock EXCEPT ![UserOf(j)] = IF lock[UserOf(j)] = j THEN None
                                          ELSE lock[UserOf(j)]]
  BY DEF Free
<1>3. lock \in [Users -> Jobs \cup {None}]
  BY DEF TypeInv
<1> QED BY <1>1, <1>2, <1>3, NoneIsNothing

\* A rebuild that throws keeps the invariant.
LEMMA ThrowKeeps ==
  ASSUME IInv, NEW j \in Jobs, Throw(j), UNCHANGED <<facts, rev, file, log, hooked>>,
         faults' \in 0 .. MaxFaults
  PROVE  IInv'
<1>1. TypeInv /\ JobInv(j) /\ job[j] \in Job /\ UserOf(j) \in Users
  BY JobParts DEF IInv, JobsInv, TypeInv
<1> DEFINE x == Ended(j, "threw", Start)
<1>2. /\ x \in Job /\ x.step \notin {"look", "publish", "done"}
      /\ x.base = job[j].base \/ x.base = 0
  BY <1>1, EndIsJob, IdleIsJob
<1>3. job' = [job EXCEPT ![j] = x] /\ Free(j)
  BY DEF Throw
<1>4. failed' \in [Users -> BOOLEAN]
  BY <1>1 DEF Throw, TypeInv
<1> HIDE DEF x
<1>5. job'[j] = x
  BY <1>1, <1>3 DEF TypeInv
<1>6. rev[UserOf(j)] \in Revs
  BY <1>1 DEF TypeInv
<1>7. JobInv(j)'
  BY <1>1, <1>2, <1>5, <1>6 DEF JobInv, Working, Revs
<1> QED BY <1>1, <1>2, <1>3, <1>4, <1>7, FreeIsOwn, StayKeeps
-------------------------------------------------------------------------------
(* The actions.                                                            *)

LEMMA RecordKeeps ==
  ASSUME IInv, NEW p \in Procs, NEW u \in Users, NEW f \in Facts, Record(p, u, f)
  PROVE  IInv'
BY ChangeKeeps DEF Record

LEMMA RepairKeeps ==
  ASSUME IInv, NEW j \in Jobs, NEW f \in Facts, Repair(j, f)
  PROVE  IInv'
BY JobParts, ChangeKeeps DEF Repair

\* What one job needs of the invariant.
LEMMA OneJob ==
  ASSUME IInv, NEW j \in Jobs
  PROVE  /\ job \in [Jobs -> Job] /\ job[j] \in Job /\ JobInv(j)
         /\ Working(j) <=> lock[UserOf(j)] = j
         /\ UserOf(j) \in Users /\ rev[UserOf(j)] \in Revs
         /\ file[UserOf(j)] \in Profile \cup {None}
         /\ file[UserOf(j)] # None =>
              TrueBy(rev[UserOf(j)], log[UserOf(j)], file[UserOf(j)])
BY JobParts DEF IInv, JobsInv, TypeInv, LockInv, FilesInv

LEMMA FireKeeps ==
  ASSUME IInv, NEW j \in Jobs, Fire(j)
  PROVE  IInv'
<1> DEFINE x == [Idle EXCEPT !.step = "repair"]
<1>1. x \in Job /\ x.step = "repair" /\ x.base = 0
  BY IdleIsJob DEF Idle, Job, Steps
<1>2. job' = [job EXCEPT ![j] = x] /\ job[j].step = "waiting"
      /\ UNCHANGED <<facts, rev, file, lock, log, hooked, failed, faults>>
  BY DEF Fire
<1> HIDE DEF x
<1>3. job'[j] = x
  BY <1>2, OneJob
<1>4. ~Working(j) /\ JobInv(j)'
  BY <1>1, <1>2, <1>3, OneJob DEF Working, JobInv, Revs
<1> QED BY <1>1, <1>2, <1>4, AsideKeeps

LEMMA ReadBeginsKeeps ==
  ASSUME IInv, NEW j \in Jobs, ReadBegins(j)
  PROVE  IInv'
<1> DEFINE x == [Idle EXCEPT !.step = "stored?", !.base = rev[UserOf(j)]]
<1>1. x \in Job /\ x.step = "stored?" /\ x.base = rev[UserOf(j)]
  BY IdleIsJob, OneJob DEF Idle, Job, Steps
<1>2. job' = [job EXCEPT ![j] = x] /\ job[j].step \in {"idle", "done", "threw"}
      /\ UNCHANGED <<facts, rev, file, lock, log, hooked, failed, faults>>
  BY DEF ReadBegins
<1> HIDE DEF x
<1>3. job'[j] = x
  BY <1>2, OneJob
<1>4. ~Working(j) /\ JobInv(j)'
  BY <1>1, <1>2, <1>3, OneJob DEF Working, JobInv, Revs
<1> QED BY <1>1, <1>2, <1>4, AsideKeeps

\* Going on to a step at which nothing is had yet.
LEMMA GotoKeeps ==
  ASSUME IInv, NEW j \in Jobs, NEW step \in {"repair", "ask"}, Goto(j, step), ~Working(j),
         UNCHANGED <<facts, rev, file, lock, log, hooked, failed, faults>>
  PROVE  IInv'
<1> DEFINE x == [job[j] EXCEPT !.step = step]
<1>1. x \in Job /\ x.step = step /\ x.base = job[j].base
  BY OneJob DEF Job, Steps
<1>2. job' = [job EXCEPT ![j] = x]
  BY DEF Goto
<1> HIDE DEF x
<1>3. job'[j] = x
  BY <1>2, OneJob
<1>4. JobInv(j)'
  BY <1>1, <1>3, OneJob DEF Working, JobInv
<1> QED BY <1>1, <1>2, <1>4, AsideKeeps

LEMMA RepairEndsKeeps ==
  ASSUME IInv, NEW j \in Jobs, RepairEnds(j)
  PROVE  IInv'
BY GotoKeeps DEF RepairEnds, Working

LEMMA ReadStoredKeeps ==
  ASSUME IInv, NEW j \in Jobs, ReadStored(j)
  PROVE  IInv'
<1> DEFINE stored == file[UserOf(j)]
           x == [job[j] EXCEPT !.step = "done", !.got = stored]
<1>1. job[j].step = "stored?" /\ ~Working(j)
      /\ UNCHANGED <<facts, rev, file, lock, log, hooked, failed, faults>>
  BY DEF ReadStored, Working
<1>2. CASE Goto(j, "repair") \/ Goto(j, "ask")
  BY <1>1, <1>2, GotoKeeps
<1>3. CASE /\ stored # None /\ stored.rev = job[j].base
           /\ job' = [job EXCEPT ![j].step = "done", ![j].got = stored]
  <2>1. stored \in Profile /\ x \in Job /\ x.step = "done" /\ x.got = stored
        /\ x.base = job[j].base
    BY <1>3, OneJob DEF Job, Steps
  <2>2. job' = [job EXCEPT ![j] = x]
    BY <1>3, OneJob
  <2>3. TrueBy(rev[UserOf(j)], log[UserOf(j)], stored) /\ stored.rev \in Nat
    BY <1>3, <2>1, OneJob DEF Profile, Revs
  <2> HIDE DEF x
  <2>4. job'[j] = x
    BY <2>2, OneJob
  <2>5. JobInv(j)'
    <3>1. job[j].base <= rev[UserOf(j)]
      BY OneJob DEF JobInv
    <3>2. Fresh(j)'
      BY <1>1, <1>3, <2>1, <2>3, <2>4 DEF Fresh
    <3>3. ~Working(j)'
      BY <2>1, <2>4 DEF Working
    <3> QED BY <1>1, <2>1, <2>4, <3>1, <3>2, <3>3 DEF JobInv
  <2> QED BY <1>1, <2>1, <2>2, <2>5, AsideKeeps
<1>4. Goto(j, "repair") \/ Goto(j, "ask")
        \/ (/\ stored # None /\ stored.rev = job[j].base
            /\ job' = [job EXCEPT ![j].step = "done", ![j].got = stored])
  BY Zenon DEF ReadStored
<1> QED BY <1>2, <1>3, <1>4

\* A snapshot is true, and not older than the file or than what a job began with.
LEMMA SnapshotIsTrue ==
  ASSUME IInv, NEW j \in Jobs
  PROVE  LET s == Snapshot(UserOf(j)) IN
         /\ s \in Profile /\ job[j].base <= s.rev
         /\ TrueBy(rev[UserOf(j)], log[UserOf(j)], s)
         /\ file[UserOf(j)] # None => file[UserOf(j)].rev <= s.rev
<1>1. Snapshot(UserOf(j)).rev = rev[UserOf(j)]
      /\ Snapshot(UserOf(j)).facts = log[UserOf(j)][rev[UserOf(j)]]
  BY OneJob DEF Snapshot, IInv, LogInv
<1>2. rev[UserOf(j)] <= rev[UserOf(j)]
  BY OneJob DEF Revs
<1> QED BY <1>1, <1>2, OneJob, SnapshotIsProfile DEF TrueBy, JobInv, IInv

LEMMA EnterKeeps ==
  ASSUME IInv, NEW j \in Jobs, Enter(j)
  PROVE  IInv'
<1> DEFINE s == Snapshot(UserOf(j))
           x == [job[j] EXCEPT !.step = "look", !.got = s, !.tries = 0]
<1>1. x \in Job /\ x.step = "look" /\ x.got = s /\ x.base = job[j].base
  <2>1. s \in Profile
    BY SnapshotIsTrue
  <2>2. 0 \in 0 .. Attempts /\ job[j] \in Job
    BY OneJob, ProfileAssumption
  <2> HIDE DEF s
  <2> QED BY <2>1, <2>2 DEF Job, Steps
<1>2. /\ lock[UserOf(j)] = None /\ lock' = [lock EXCEPT ![UserOf(j)] = j]
      /\ job' = [job EXCEPT ![j] = x]
      /\ UNCHANGED <<facts, rev, file, log, hooked, failed, faults>>
  BY OneJob DEF Enter
<1> HIDE DEF x, s
<1>3. job'[j] = x
  BY <1>2, OneJob
<1>4. JobInv(j)'
  BY <1>1, <1>2, <1>3, OneJob, SnapshotIsTrue DEF JobInv, Fresh, s
<1>5. /\ lock' \in [Users -> Jobs \cup {None}] /\ lock'[UserOf(j)] = j
      /\ \A k \in Jobs \ {j} : lock'[UserOf(k)] = k <=> lock[UserOf(k)] = k
  BY <1>2, JobParts, NoneIsNothing DEF IInv, TypeInv
<1>6. failed' \in [Users -> BOOLEAN] /\ faults' \in 0 .. MaxFaults
  BY <1>2 DEF IInv, TypeInv
<1> QED BY <1>1, <1>2, <1>4, <1>5, <1>6, StayKeeps

\* A rebuild that returns what is true and fresh, and in the file by then.
LEMMA ReturnKeeps ==
  ASSUME IInv, NEW j \in Jobs, NEW got \in Profile, Return(j, got), Working(j),
         UNCHANGED <<facts, rev, log, hooked, faults>>,
         file' = file \/ file' = [file EXCEPT ![UserOf(j)] = got],
         TrueBy(rev[UserOf(j)], log[UserOf(j)], got), job[j].base <= got.rev
  PROVE  IInv'
<1> DEFINE x == Ended(j, "done", got)
           u == UserOf(j)
<1>1. /\ x \in Job /\ x.step \notin {"look", "publish"}
      /\ x.base = job[j].base \/ x.base = 0
      /\ x.step = "done" => x.got = got /\ x.base = job[j].base
  BY OneJob, EndIsJob
<1>2. job' = [job EXCEPT ![j] = x] /\ Free(j) /\ UNCHANGED failed
  BY DEF Return
<1> HIDE DEF x
<1>3. job'[j] = x
  BY <1>2, OneJob
<1>4. file' \in [Users -> Profile \cup {None}]
      /\ \A v \in Users : file'[v] = file[v] \/ (v = u /\ file'[v] = got)
  BY OneJob DEF IInv, TypeInv
<1>5. FilesInv'
  BY <1>4 DEF IInv, FilesInv
<1>6. \A k \in Jobs \ {j} : Working(k) => file'[UserOf(k)] = file[UserOf(k)]
  BY <1>4, JobParts DEF IInv, LockInv
<1>7. JobInv(j)'
  BY <1>1, <1>3, OneJob DEF JobInv, Fresh, Working, Revs
<1>8. failed' \in [Users -> BOOLEAN] /\ faults' \in 0 .. MaxFaults
  BY <1>2 DEF IInv, TypeInv
<1>9. TypeInv
  BY DEF IInv
<1> HIDE DEF u
<1> QED BY <1>1, <1>2, <1>4, <1>5, <1>6, <1>7, <1>8, <1>9, FreeIsOwn, MoveKeeps

LEMMA LookKeeps ==
  ASSUME IInv, NEW j \in Jobs, Look(j)
  PROVE  IInv'
<1> DEFINE u == UserOf(j)
           got == job[j].got
           kept == file[u] # None /\ file[u].rev = got.rev
           s == Snapshot(u)
<1>1. job[j].step = "look" /\ Working(j)
      /\ UNCHANGED <<facts, rev, file, log, hooked, faults>>
  BY DEF Look, Working
<1>2. Fresh(j) /\ (file[u] # None => file[u].rev <= got.rev) /\ job[j].base <= rev[u]
  BY <1>1, OneJob DEF JobInv
<1>3. lock \in [Users -> Jobs \cup {None}] /\ failed \in [Users -> BOOLEAN]
      /\ faults \in 0 .. MaxFaults
  BY DEF IInv, TypeInv
<1>4. CASE kept /\ Return(j, file[u])
  <2>1. file[u] \in Profile /\ TrueBy(rev[u], log[u], file[u])
        /\ job[j].base <= file[u].rev
    BY <1>2, <1>4, OneJob DEF Fresh
  <2> QED BY <1>1, <1>4, <2>1, ReturnKeeps
<1>5. CASE Goto(j, "publish") /\ UNCHANGED <<lock, failed>>
  <2> DEFINE x == [job[j] EXCEPT !.step = "publish"]
  <2>1. x \in Job /\ x.step = "publish" /\ x.got = got /\ x.base = job[j].base
    BY OneJob DEF Job, Steps
  <2>2. job' = [job EXCEPT ![j] = x]
    BY <1>5 DEF Goto
  <2> HIDE DEF x
  <2>3. job'[j] = x
    BY <2>2, OneJob
  <2>4. JobInv(j)'
    BY <1>1, <1>2, <2>1, <2>3 DEF JobInv, Fresh
  <2>5. lock[u] = j
    BY <1>1, OneJob
  <2> QED BY <1>1, <1>3, <1>5, <2>1, <2>2, <2>4, <2>5, StayKeeps
<1>6. CASE Throw(j)
  BY <1>1, <1>3, <1>6, ThrowKeeps
<1>7. CASE /\ job[j].tries + 1 < Attempts
           /\ job' = [job EXCEPT ![j].got = s, ![j].tries = @ + 1]
           /\ UNCHANGED <<lock, failed>>
  <2> DEFINE x == [job[j] EXCEPT !.got = s, !.tries = @ + 1]
  <2>1. s \in Profile /\ TrueBy(rev[u], log[u], s) /\ job[j].base <= s.rev
        /\ (file[u] # None => file[u].rev <= s.rev)
    BY SnapshotIsTrue
  <2>2. job' = [job EXCEPT ![j] = x]
    BY <1>7, OneJob
  <2> HIDE DEF s
  <2>3. x \in Job /\ x.step = "look" /\ x.got = s /\ x.base = job[j].base
    <3>1. job[j].tries \in Nat /\ job[j].tries + 1 \in 0 .. Attempts
      BY <1>7, OneJob, ProfileAssumption DEF Job
    <3> QED BY <1>1, <2>1, <3>1, OneJob DEF Job
  <2> HIDE DEF x
  <2>4. job'[j] = x
    BY <2>2, OneJob
  <2>5. JobInv(j)'
    BY <1>1, <1>2, <2>1, <2>3, <2>4 DEF JobInv, Fresh
  <2>6. lock[u] = j
    BY <1>1, OneJob
  <2> QED BY <1>1, <1>3, <1>7, <2>2, <2>3, <2>5, <2>6, StayKeeps
<1> QED BY <1>4, <1>5, <1>6, <1>7 DEF Look

LEMMA PublishKeeps ==
  ASSUME IInv, NEW j \in Jobs, Publish(j)
  PROVE  IInv'
<1>1. Working(j)
  BY DEF Publish, Working
<1>2. Fresh(j) /\ job[j].got \in Profile
  BY <1>1, OneJob DEF JobInv, Job
<1> QED BY <1>1, <1>2, ReturnKeeps DEF Publish, Fresh

LEMMA FailsKeeps ==
  ASSUME IInv, NEW j \in Jobs, Fails(j)
  PROVE  IInv'
<1>1. faults' \in 0 .. MaxFaults
  BY ProfileAssumption DEF IInv, TypeInv, Fails, Fault
<1> QED BY <1>1, ThrowKeeps DEF Fails

LEMMA CrashKeeps ==
  ASSUME IInv, NEW p \in Procs, Crash(p)
  PROVE  IInv'
<1>1. TypeInv /\ LockInv /\ LogInv /\ FilesInv /\ JobsInv
  BY DEF IInv
<1>2. faults' \in 0 .. MaxFaults
  BY <1>1, ProfileAssumption DEF TypeInv, Crash, Fault
<1>3. job' = [j \in Jobs |-> IF ProcOf(j) = p THEN Idle ELSE job[j]]
  BY DEF Crash
<1>4. job' \in [Jobs -> Job]
  BY <1>1, <1>3, IdleIsJob DEF TypeInv
<1>5. Idle.step = "idle" /\ Idle.base = 0
  BY DEF Idle
<1>6. lock' \in [Users -> Jobs \cup {None}]
  BY <1>1 DEF Crash, TypeInv
<1>7. \A j \in Jobs : lock'[UserOf(j)] = j <=> lock[UserOf(j)] = j /\ ProcOf(j) # p
  BY <1>1, JobParts, NoneIsNothing DEF Crash, TypeInv
<1>8. failed' \in [Users -> BOOLEAN]
  <2>1. \A u \in Users : (failed[u] \/ job[<<"hook", p, u>>].step # "idle") \in BOOLEAN
    BY <1>1 DEF TypeInv
  <2> QED BY <2>1, <1>1 DEF Crash, TypeInv
<1>9. TypeInv'
  BY <1>1, <1>2, <1>4, <1>6, <1>8 DEF TypeInv, Crash
<1>10. LockInv'
  BY <1>1, <1>3, <1>5, <1>7 DEF LockInv, Working
<1>11. LogInv' /\ FilesInv'
  BY <1>1 DEF LogInv, FilesInv, Crash
<1>12. JobsInv'
  <2> SUFFICES ASSUME NEW j \in Jobs PROVE JobInv(j)'
    BY DEF JobsInv
  <2>1. CASE ProcOf(j) = p
    BY <1>3, <1>5, <2>1, OneJob DEF JobInv, Working, Crash, Revs
  <2>2. CASE ProcOf(j) # p
    BY <1>3, <2>2, OneJob DEF JobInv, Working, Fresh, Crash
  <2> QED BY <2>1, <2>2
<1> QED BY <1>9, <1>10, <1>11, <1>12 DEF IInv

LEMMA LoseKeeps ==
  ASSUME IInv, NEW u \in Users, Lose(u)
  PROVE  IInv'
<1>1. TypeInv /\ LockInv /\ LogInv /\ FilesInv /\ JobsInv
  BY DEF IInv
<1>2. faults' \in 0 .. MaxFaults /\ failed' \in [Users -> BOOLEAN]
      /\ file' \in [Users -> Profile \cup {None}]
  BY <1>1, ProfileAssumption DEF TypeInv, Lose, Fault
<1>3. UNCHANGED <<facts, rev, lock, job, log, hooked>>
      /\ \A v \in Users : file'[v] # None => file'[v] = file[v]
  BY <1>1 DEF Lose, TypeInv
<1>4. TypeInv'
  BY <1>1, <1>2, <1>3 DEF TypeInv
<1>5. LockInv' /\ LogInv' /\ FilesInv'
  BY <1>1, <1>3 DEF LockInv, LogInv, FilesInv, Working
<1>6. JobsInv'
  BY <1>1, <1>3, JobParts DEF JobsInv, JobInv, Fresh, Working
<1> QED BY <1>4, <1>5, <1>6 DEF IInv
-------------------------------------------------------------------------------
(* The theorems.                                                           *)

LEMMA InitHolds == Init => IInv
<1> SUFFICES ASSUME Init PROVE IInv
  OBVIOUS
<1>1. 0 \in Revs /\ NoFacts \in Facts /\ 0 \in 0 .. MaxFaults
  BY ProfileAssumption DEF Revs
<1>2. TypeInv
  BY <1>1, IdleIsJob DEF Init, TypeInv
<1>3. Idle.step = "idle" /\ Idle.base = 0
  BY DEF Idle
<1>4. LockInv
  BY <1>3, JobParts, NoneIsNothing DEF Init, LockInv, Working
<1>5. LogInv /\ FilesInv
  BY <1>1 DEF Init, LogInv, FilesInv
<1>6. JobsInv
  BY <1>1, <1>3, JobParts DEF Init, JobsInv, JobInv, Working
<1> QED BY <1>2, <1>4, <1>5, <1>6 DEF IInv

LEMMA StutterKeeps == IInv /\ UNCHANGED vars => IInv'
BY DEF IInv, TypeInv, LockInv, LogInv, FilesInv, JobsInv, JobInv, Fresh, Working, vars

LEMMA NextKeeps == IInv /\ [Next]_vars => IInv'
BY RecordKeeps, RepairKeeps, FireKeeps, ReadBeginsKeeps, ReadStoredKeeps, RepairEndsKeeps,
   EnterKeeps, LookKeeps, PublishKeeps, FailsKeeps, CrashKeeps, LoseKeeps, StutterKeeps
   DEF Next, Run

\* The invariant holds in every behaviour.
THEOREM AlwaysHeld == Spec => []IInv
BY InitHolds, NextKeeps, PTL DEF Spec

\* Types, and that whoever works on a file has its lock.
THEOREM ProfileTypesCorrect == Spec => []ProfileTypeOK
<1>1. IInv => ProfileTypeOK
  BY DEF IInv, TypeInv, LockInv, Working, Job, ProfileTypeOK
<1> QED BY <1>1, AlwaysHeld, PTL

\* A published profile says what the evidence said at its revision.
THEOREM FilesStayTrue == Spec => []FileIsTrue
<1>1. IInv => FileIsTrue
  BY DEF IInv, FilesInv, TrueBy, FileIsTrue
<1> QED BY <1>1, AlwaysHeld, PTL

\* What a read returns is true and no older than the evidence when it began.
THEOREM ReadsAreFresh == Spec => []ReadIsFresh
<1>1. IInv => ReadIsFresh
  BY DEF IInv, JobsInv, JobInv, Fresh, TrueBy, ReadIsFresh
<1> QED BY <1>1, AlwaysHeld, PTL

\* No file is replaced by an older profile.
THEOREM FilesNeverOlder == Spec => NeverOlder
<1> DEFINE Kept == \A u \in Users : file[u] # None /\ file'[u] # None =>
                     file[u].rev <= file'[u].rev
<1>1. \A u \in Users : IInv /\ file[u] # None => file[u].rev <= file[u].rev
  BY DEF IInv, TypeInv, Profile, Revs
<1>2. ASSUME IInv, NEW j \in Jobs, Publish(j) PROVE Kept
  <2>1. /\ file' = [file EXCEPT ![UserOf(j)] = job[j].got] /\ Working(j)
        /\ file \in [Users -> Profile \cup {None}]
    BY <1>2 DEF Publish, Working, IInv, TypeInv
  <2>2. file[UserOf(j)] # None => file[UserOf(j)].rev <= job[j].got.rev
    BY <1>2, <2>1, OneJob DEF JobInv
  <2> QED BY <1>1, <1>2, <2>1, <2>2
<1>3. ASSUME IInv, NEW u \in Users, Lose(u) PROVE Kept
  <2>1. \A v \in Users : file'[v] # None => file'[v] = file[v]
    BY <1>3 DEF Lose, IInv, TypeInv
  <2> QED BY <1>1, <1>3, <2>1
<1>4. ASSUME IInv, UNCHANGED file PROVE Kept
  BY <1>1, <1>4
<1>5. IInv /\ Next => Kept
  <2> SUFFICES ASSUME IInv, Next PROVE Kept
    OBVIOUS
  <2>1. \/ UNCHANGED file
        \/ \E j \in Jobs : Publish(j)
        \/ \E u \in Users : Lose(u)
    BY DEF Next, Run, Record, Repair, Fire, ReadBegins, ReadStored, RepairEnds,
       Enter, Look, Fails, Crash
  <2> QED BY <1>2, <1>3, <1>4, <2>1
<1>6. IInv /\ [Next]_vars => [Kept]_vars
  BY <1>5 DEF vars
<1> QED BY <1>6, AlwaysHeld, PTL DEF Spec, NeverOlder
===============================================================================
