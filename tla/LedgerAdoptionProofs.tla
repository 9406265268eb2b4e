------------------------- MODULE LedgerAdoptionProofs -------------------------
(***************************************************************************)
(* Proofs about LedgerAdoption, for any callers, users and bounds.  Until  *)
(* a caller is robbed of its lock, whoever is inside the marker's lock     *)
(* made the directory that is there: a caller that dies inside leaves the  *)
(* directory, and nobody is in when it is stolen.  So what a caller has    *)
(* read inside still holds when it writes; and a caller gets past the      *)
(* marker's lock only with a ledger or a marker to show for it, so no      *)
(* credit runs beside an adoption of the same user.                        *)
(***************************************************************************)
EXTENDS LedgerAdoption, FiniteSetTheorems, TLAPS

TypeInv ==
  /\ dir \in Procs \cup {None}
  /\ old \in BOOLEAN
  /\ lapsed \in BOOLEAN
  /\ robbed \in BOOLEAN
  /\ at \in [Procs -> Places]
  /\ tries \in [Procs -> 0 .. Limit + 1]
  /\ file \in [Users -> LedgerFile \cup {None}]
  /\ marker \in BOOLEAN
  /\ inside \in [Users -> SUBSET Procs]
  /\ raided \in SUBSET Users
  /\ step \in [Procs -> Steps]
  /\ copy \in [Procs -> LedgerFile \cup {None}]
  /\ dies \in Nat

(* A caller that may try again has a try left. *)
TriesInv == \A p \in Procs : at[p] \in {"stat", "rmdir", "sleep"} => tries[p] <= Limit

(* Where a caller is in the lock's loop follows from where it is. *)
PlaceInv ==
  \A p \in Procs :
    /\ step[p] \in {"idle", "own", "again", "read", "write", "credited"} => at[p] = "out"
    /\ step[p] \in {"marker?", "mark", "copy", "leave"} => at[p] = "in"
    /\ step[p] = "user?" => at[p] # "out"
    /\ step[p] = "failed" => at[p] # "in"

(* A directory that may be removed for its age has reached it. *)
LapseInv ==
  /\ old => lapsed
  /\ \A p \in Procs : at[p] = "rmdir" => lapsed

(* Inside a ledger's lock are callers of its user that are at work in it,  *)
(* and until it is raided one at most.                                     *)
OwnerInv ==
  /\ \A u \in Users : \A p \in inside[u] :
       /\ UserOf[p] = u
       /\ step[p] \notin {"idle", "own", "failed", "credited"}
  /\ \A p \in Procs : step[p] \in {"again", "read", "write"} => p \in inside[UserOf[p]]
  /\ \A p \in Procs : step[p] = "write" => copy[p] # None
  /\ \A u \in Users \ raided : \A p, q \in inside[u] : p = q

(* Whoever is inside made the directory that is there. *)
LockInv == \A p \in Procs : at[p] = "in" => dir = p

(* The user whose ledger is the old one, or is about to be once more. *)
HasOld(u) == file[u] # None /\ file[u].old
Heir(u) ==
  \/ HasOld(u)
  \/ \E p \in Procs : step[p] = "write" /\ UserOf[p] = u /\ copy[p].old
Past == {"leave", "own", "again", "read", "write"}

(* What a caller has seen inside the marker's lock still holds. *)
AdoptInv ==
  /\ \A u \in Users : Heir(u) => marker
  /\ \A u, v \in Users : Heir(u) /\ Heir(v) => u = v
  /\ \A p \in Procs : step[p] \in Past => file[UserOf[p]] # None \/ marker
  /\ \A p \in Procs : step[p] = "marker?" => file[UserOf[p]] = None \/ marker
  /\ \A p \in Procs : step[p] = "mark" => file[UserOf[p]] = None /\ ~marker
  /\ \A p \in Procs : step[p] = "copy" =>
       /\ marker
       /\ file[UserOf[p]] = None
       /\ \A u \in Users : ~Heir(u)
       /\ \A q \in Procs : UserOf[q] = UserOf[p] => step[q] \notin Past

(* What a caller is about to write holds all that the file holds, while    *)
(* its ledger's lock is not raided.                                        *)
CopyInv ==
  \A p \in Procs :
    step[p] = "write" /\ UserOf[p] \notin raided /\ file[UserOf[p]] # None =>
      /\ file[UserOf[p]].old => copy[p].old
      /\ file[UserOf[p]].credits \subseteq copy[p].credits

IInv ==
  /\ TypeInv
  /\ TriesInv
  /\ PlaceInv
  /\ LapseInv
  /\ OwnerInv
  /\ ~robbed => LockInv /\ AdoptInv /\ CopyInv

-----------------------------------------------------------------------------
(* Types.                                                                    *)

(* A ledger with one more credit is a ledger. *)
LEMMA CreditedLedger ==
  ASSUME NEW led \in LedgerFile, NEW p \in Procs
  PROVE  LET new == [led EXCEPT !.credits = @ \cup {p}] IN
         /\ new \in LedgerFile
         /\ new.old = led.old
         /\ new.credits = led.credits \cup {p}
BY DEF LedgerFile

(* So are the seeded ledger and the old one; None is none. *)
LEMMA FirstLedgers ==
  /\ Seeded \in LedgerFile /\ ~Seeded.old /\ Seeded.credits = {}
  /\ Adopted \in LedgerFile /\ Adopted.old
BY DEF Seeded, Adopted, LedgerFile

(* Every step keeps the types. *)
LEMMA TypeStep ==
  ASSUME TypeInv, TriesInv, Next
  PROVE  TypeInv'
<1> USE LockAssumption, AdoptionAssumption
<1>1. ASSUME NEW p \in Procs, Resolve(p) PROVE TypeInv'
  BY <1>1 DEF TypeInv, TriesInv, Places, Steps, Resolve, Ask, Found, Goto, At, lockState
<1>2. ASSUME NEW p \in Procs, RecheckUser(p) PROVE TypeInv'
  BY <1>2 DEF TypeInv, TriesInv, Places, Steps, RecheckUser, Goto, lockState
<1>3. ASSUME NEW p \in Procs, RecheckMarker(p) PROVE TypeInv'
  BY <1>3 DEF TypeInv, TriesInv, Places, Steps, RecheckMarker, Goto, lockState
<1>4. ASSUME NEW p \in Procs, AdoptLegacy(p) PROVE TypeInv'
  <2>1. step' \in [Procs -> Steps] /\ marker' \in BOOLEAN
    BY <1>4 DEF TypeInv, Steps, AdoptLegacy, Goto
  <2>2. file' \in [Users -> LedgerFile \cup {None}]
    BY <1>4, FirstLedgers DEF TypeInv, AdoptLegacy
  <2> QED BY <1>4, <2>1, <2>2 DEF TypeInv, AdoptLegacy, lockState
<1>5. ASSUME NEW u \in Users, Raid(u) PROVE TypeInv'
  BY <1>5 DEF TypeInv, TriesInv, Places, Steps, Raid, lockState
<1>6. ASSUME NEW p \in Procs, Leave(p) PROVE TypeInv'
  BY <1>6 DEF TypeInv, TriesInv, Places, Steps, Leave, Unlock, Found, Goto, At
<1>7. ASSUME NEW p \in Procs, Threw(p) PROVE TypeInv'
  BY <1>7 DEF TypeInv, TriesInv, Places, Steps, Threw, Goto, lockState
<1>8. ASSUME NEW p \in Procs, Own(p) PROVE TypeInv'
  BY <1>8 DEF TypeInv, TriesInv, Places, Steps, Own, Goto, lockState
<1>9. ASSUME NEW p \in Procs, Read(p) PROVE TypeInv'
  <2> DEFINE led == IF file[UserOf[p]] = None THEN Seeded ELSE file[UserOf[p]]
  <2>1. led \in LedgerFile
    BY FirstLedgers DEF TypeInv
  <2>2. [led EXCEPT !.credits = @ \cup {p}] \in LedgerFile
    BY <2>1, CreditedLedger
  <2>3. /\ copy' = [copy EXCEPT ![p] = [led EXCEPT !.credits = @ \cup {p}]]
        /\ file' = file \/ file' = [file EXCEPT ![UserOf[p]] = led]
        /\ step' = [step EXCEPT ![p] = "write"]
        /\ UNCHANGED <<dir, old, lapsed, robbed, at, tries, marker, inside, raided, dies>>
    BY <1>9 DEF Read, Goto, lockState
  <2> HIDE DEF led
  <2> QED BY <2>1, <2>2, <2>3 DEF TypeInv, Steps
<1>10. ASSUME NEW p \in Procs, Write(p) PROVE TypeInv'
  BY <1>10 DEF TypeInv, TriesInv, Places, Steps, Write, Goto, lockState
<1>11. ASSUME NEW p \in Procs, Crash(p) PROVE TypeInv'
  BY <1>11 DEF TypeInv, TriesInv, Places, Steps, Crash, Die, Goto
<1>12. ASSUME NEW p \in Procs, Locking(p) PROVE TypeInv'
  <2>1. at'[p] \in Places /\ at' = [at EXCEPT ![p] = at'[p]]
    BY <1>12 DEF TypeInv, Places, Locking, Wait, MakeDir, StatDir, StealDir, WakeUp, At
  <2>2. tries' = tries \/ (tries[p] <= Limit /\ tries' = [tries EXCEPT ![p] = tries[p] + 1])
    BY <1>12 DEF TriesInv, Locking, Wait, MakeDir, StatDir, StealDir, WakeUp
  <2>3. tries' \in [Procs -> 0 .. Limit + 1]
    BY <2>2 DEF TypeInv
  <2>4. at' \in [Procs -> Places]
    BY <2>1 DEF TypeInv
  <2>5. dir' \in Procs \cup {None} /\ old' \in BOOLEAN /\ lapsed' = lapsed /\ robbed' \in BOOLEAN
    BY <1>12 DEF TypeInv, Locking, Wait, MakeDir, StatDir, StealDir, WakeUp
  <2> QED BY <1>12, <2>3, <2>4, <2>5 DEF TypeInv, Locking, adoptionState
<1>13. CASE Age /\ UNCHANGED adoptionState
  BY <1>13 DEF TypeInv, TriesInv, Places, Steps, Age, adoptionState
<1> QED BY <1>1, <1>2, <1>3, <1>4, <1>5, <1>6, <1>7, <1>8, <1>9, <1>10, <1>11, <1>12, <1>13 DEF Next, Run

(* Every step leaves a waiting caller a try. *)
LEMMA TriesStep ==
  ASSUME TypeInv, TriesInv, Next
  PROVE  TriesInv'
<1> USE LockAssumption, AdoptionAssumption
<1>1. ASSUME NEW p \in Procs, Resolve(p) PROVE TriesInv'
  BY <1>1 DEF TypeInv, TriesInv, Places, Resolve, Ask, Found, Goto, At, lockState
<1>2. ASSUME NEW p \in Procs, RecheckUser(p) PROVE TriesInv'
  BY <1>2 DEF TypeInv, TriesInv, Places, RecheckUser, Goto, lockState
<1>3. ASSUME NEW p \in Procs, RecheckMarker(p) PROVE TriesInv'
  BY <1>3 DEF TypeInv, TriesInv, Places, RecheckMarker, Goto, lockState
<1>4. ASSUME NEW p \in Procs, AdoptLegacy(p) PROVE TriesInv'
  BY <1>4, FirstLedgers DEF TypeInv, TriesInv, Places, AdoptLegacy, Goto, lockState
<1>5. ASSUME NEW u \in Users, Raid(u) PROVE TriesInv'
  BY <1>5 DEF TypeInv, TriesInv, Places, Raid, lockState
<1>6. ASSUME NEW p \in Procs, Leave(p) PROVE TriesInv'
  BY <1>6 DEF TypeInv, TriesInv, Places, Leave, Unlock, Found, Goto, At
<1>7. ASSUME NEW p \in Procs, Threw(p) PROVE TriesInv'
  BY <1>7 DEF TypeInv, TriesInv, Places, Threw, Goto, lockState
<1>8. ASSUME NEW p \in Procs, Own(p) PROVE TriesInv'
  BY <1>8 DEF TypeInv, TriesInv, Places, Own, Goto, lockState
<1>9. ASSUME NEW p \in Procs, Read(p) PROVE TriesInv'
  BY <1>9 DEF TypeInv, TriesInv, Places, Read, Goto, lockState
<1>10. ASSUME NEW p \in Procs, Write(p) PROVE TriesInv'
  BY <1>10 DEF TypeInv, TriesInv, Places, Write, Goto, lockState
<1>11. ASSUME NEW p \in Procs, Crash(p) PROVE TriesInv'
  BY <1>11 DEF TypeInv, TriesInv, Places, Crash, Die, Goto
<1>12. ASSUME NEW p \in Procs, Locking(p) PROVE TriesInv'
  BY <1>12 DEF TypeInv, TriesInv, Places, Locking, Wait, MakeDir, StatDir, StealDir, WakeUp, At, adoptionState
<1>13. CASE Age /\ UNCHANGED adoptionState
  BY <1>13 DEF TypeInv, TriesInv, Places, Age, adoptionState
<1> QED BY <1>1, <1>2, <1>3, <1>4, <1>5, <1>6, <1>7, <1>8, <1>9, <1>10, <1>11, <1>12, <1>13 DEF Next, Run

(* A lock directory is removed for its age only after some has lapsed. *)
LEMMA LapseStep ==
  ASSUME TypeInv, LapseInv, Next
  PROVE  LapseInv'
<1>1. ASSUME NEW p \in Procs, Resolve(p) PROVE LapseInv'
  BY <1>1 DEF TypeInv, LapseInv, Resolve, Ask, Found, Goto, At, lockState
<1>2. ASSUME NEW p \in Procs, RecheckUser(p) PROVE LapseInv'
  BY <1>2 DEF TypeInv, LapseInv, RecheckUser, lockState
<1>3. ASSUME NEW p \in Procs, RecheckMarker(p) PROVE LapseInv'
  BY <1>3 DEF TypeInv, LapseInv, RecheckMarker, lockState
<1>4. ASSUME NEW p \in Procs, AdoptLegacy(p) PROVE LapseInv'
  BY <1>4 DEF TypeInv, LapseInv, AdoptLegacy, lockState
<1>5. ASSUME NEW u \in Users, Raid(u) PROVE LapseInv'
  BY <1>5 DEF LapseInv, Raid, lockState
<1>6. ASSUME NEW p \in Procs, Leave(p) PROVE LapseInv'
  BY <1>6 DEF TypeInv, LapseInv, Leave, Unlock, At
<1>7. ASSUME NEW p \in Procs, Threw(p) PROVE LapseInv'
  BY <1>7 DEF TypeInv, LapseInv, Threw, lockState
<1>8. ASSUME NEW p \in Procs, Own(p) PROVE LapseInv'
  BY <1>8 DEF TypeInv, LapseInv, Own, lockState
<1>9. ASSUME NEW p \in Procs, Read(p) PROVE LapseInv'
  BY <1>9 DEF TypeInv, LapseInv, Read, lockState
<1>10. ASSUME NEW p \in Procs, Write(p) PROVE LapseInv'
  BY <1>10 DEF TypeInv, LapseInv, Write, lockState
<1>11. ASSUME NEW p \in Procs, Crash(p) PROVE LapseInv'
  BY <1>11 DEF TypeInv, LapseInv, Crash, Die
<1>12. ASSUME NEW p \in Procs, Locking(p) PROVE LapseInv'
  BY <1>12 DEF TypeInv, LapseInv, Locking, Wait, MakeDir, StatDir, StealDir, WakeUp, At
<1>13. CASE Age /\ UNCHANGED adoptionState
  BY <1>13 DEF LapseInv, Age
<1> QED BY <1>1, <1>2, <1>3, <1>4, <1>5, <1>6, <1>7, <1>8, <1>9, <1>10, <1>11, <1>12, <1>13 DEF Next, Run

(* Every step keeps a caller's place in the lock's loop in line with its own. *)
LEMMA PlaceStep ==
  ASSUME TypeInv, PlaceInv, Next
  PROVE  PlaceInv'
<1> USE LockAssumption, AdoptionAssumption
<1>1. ASSUME NEW p \in Procs, Resolve(p) PROVE PlaceInv'
  BY <1>1 DEF TypeInv, PlaceInv, Places, Steps, Resolve, Ask, Found, Goto, At, lockState
<1>2. ASSUME NEW p \in Procs, RecheckUser(p) PROVE PlaceInv'
  BY <1>2 DEF TypeInv, PlaceInv, Places, Steps, RecheckUser, Goto, lockState
<1>3. ASSUME NEW p \in Procs, RecheckMarker(p) PROVE PlaceInv'
  BY <1>3 DEF TypeInv, PlaceInv, Places, Steps, RecheckMarker, Goto, lockState
<1>4. ASSUME NEW p \in Procs, AdoptLegacy(p) PROVE PlaceInv'
  BY <1>4, FirstLedgers DEF TypeInv, PlaceInv, Places, Steps, AdoptLegacy, Goto, lockState
<1>5. ASSUME NEW u \in Users, Raid(u) PROVE PlaceInv'
  BY <1>5 DEF TypeInv, PlaceInv, Places, Steps, Raid, lockState
<1>6. ASSUME NEW p \in Procs, Leave(p) PROVE PlaceInv'
  BY <1>6 DEF TypeInv, PlaceInv, Places, Steps, Leave, Unlock, Found, Goto, At
<1>7. ASSUME NEW p \in Procs, Threw(p) PROVE PlaceInv'
  BY <1>7 DEF TypeInv, PlaceInv, Places, Steps, Threw, Goto, lockState
<1>8. ASSUME NEW p \in Procs, Own(p) PROVE PlaceInv'
  BY <1>8 DEF TypeInv, PlaceInv, Places, Steps, Own, Goto, lockState
<1>9. ASSUME NEW p \in Procs, Read(p) PROVE PlaceInv'
  BY <1>9 DEF TypeInv, PlaceInv, Places, Steps, Read, Goto, lockState
<1>10. ASSUME NEW p \in Procs, Write(p) PROVE PlaceInv'
  BY <1>10 DEF TypeInv, PlaceInv, Places, Steps, Write, Goto, lockState
<1>11. ASSUME NEW p \in Procs, Crash(p) PROVE PlaceInv'
  BY <1>11 DEF TypeInv, PlaceInv, Places, Steps, Crash, Die, Goto
<1>12. ASSUME NEW p \in Procs, Locking(p) PROVE PlaceInv'
  BY <1>12 DEF TypeInv, PlaceInv, Places, Steps, Locking, Wait, MakeDir, StatDir, StealDir, WakeUp, At, adoptionState
<1>13. CASE Age /\ UNCHANGED adoptionState
  BY <1>13 DEF TypeInv, PlaceInv, Places, Steps, Age, adoptionState
<1> QED BY <1>1, <1>2, <1>3, <1>4, <1>5, <1>6, <1>7, <1>8, <1>9, <1>10, <1>11, <1>12, <1>13 DEF Next, Run

(* Every step keeps the ledgers' locks with their callers. *)
LEMMA OwnerStep ==
  ASSUME TypeInv, OwnerInv, PlaceInv, Next
  PROVE  OwnerInv'
<1> USE LockAssumption, AdoptionAssumption
<1>1. ASSUME NEW p \in Procs, Resolve(p) PROVE OwnerInv'
  BY <1>1 DEF TypeInv, OwnerInv, PlaceInv, Places, Steps, Resolve, Ask, Found, Goto, At, lockState
<1>2. ASSUME NEW p \in Procs, RecheckUser(p) PROVE OwnerInv'
  BY <1>2 DEF TypeInv, OwnerInv, PlaceInv, Places, Steps, RecheckUser, Goto, lockState
<1>3. ASSUME NEW p \in Procs, RecheckMarker(p) PROVE OwnerInv'
  BY <1>3 DEF TypeInv, OwnerInv, PlaceInv, Places, Steps, RecheckMarker, Goto, lockState
<1>4. ASSUME NEW p \in Procs, AdoptLegacy(p) PROVE OwnerInv'
  BY <1>4, FirstLedgers DEF TypeInv, OwnerInv, PlaceInv, Places, Steps, AdoptLegacy, Goto, lockState
<1>5. ASSUME NEW u \in Users, Raid(u) PROVE OwnerInv'
  BY <1>5 DEF TypeInv, OwnerInv, PlaceInv, Places, Steps, Raid, lockState
<1>6. ASSUME NEW p \in Procs, Leave(p) PROVE OwnerInv'
  BY <1>6 DEF TypeInv, OwnerInv, PlaceInv, Places, Steps, Leave, Unlock, Found, Goto, At
<1>7. ASSUME NEW p \in Procs, Threw(p) PROVE OwnerInv'
  BY <1>7 DEF TypeInv, OwnerInv, PlaceInv, Places, Steps, Threw, Goto, lockState
<1>8. ASSUME NEW p \in Procs, Own(p) PROVE OwnerInv'
  BY <1>8 DEF TypeInv, OwnerInv, PlaceInv, Places, Steps, Own, Goto, lockState
<1>9. ASSUME NEW p \in Procs, Read(p) PROVE OwnerInv'
  <2> DEFINE led == IF file[UserOf[p]] = None THEN Seeded ELSE file[UserOf[p]]
  <2>1. led \in LedgerFile
    BY FirstLedgers DEF TypeInv
  <2>2. [led EXCEPT !.credits = @ \cup {p}] # None
    BY <2>1, CreditedLedger
  <2>3. /\ copy' = [copy EXCEPT ![p] = [led EXCEPT !.credits = @ \cup {p}]]
        /\ step[p] = "read" /\ step' = [step EXCEPT ![p] = "write"]
        /\ UNCHANGED <<inside, raided>>
    BY <1>9 DEF Read, Goto
  <2> HIDE DEF led
  <2> QED BY <2>2, <2>3 DEF TypeInv, OwnerInv
<1>10. ASSUME NEW p \in Procs, Write(p) PROVE OwnerInv'
  BY <1>10 DEF TypeInv, OwnerInv, PlaceInv, Places, Steps, Write, Goto, lockState
<1>11. ASSUME NEW p \in Procs, Crash(p) PROVE OwnerInv'
  BY <1>11 DEF TypeInv, OwnerInv, PlaceInv, Places, Steps, Crash, Die, Goto
<1>12. ASSUME NEW p \in Procs, Locking(p) PROVE OwnerInv'
  BY <1>12 DEF TypeInv, OwnerInv, PlaceInv, Places, Steps, Locking, Wait, MakeDir, StatDir, StealDir, WakeUp, At, adoptionState
<1>13. CASE Age /\ UNCHANGED adoptionState
  BY <1>13 DEF TypeInv, OwnerInv, PlaceInv, Places, Steps, Age, adoptionState
<1> QED BY <1>1, <1>2, <1>3, <1>4, <1>5, <1>6, <1>7, <1>8, <1>9, <1>10, <1>11, <1>12, <1>13 DEF Next, Run

-----------------------------------------------------------------------------
(* The lock until a caller is robbed.                                        *)

(* Until one is robbed, whoever is inside made the directory. *)
LEMMA LockStep ==
  ASSUME TypeInv, PlaceInv, LockInv, ~robbed', Next
  PROVE  LockInv'
<1> USE LockAssumption, AdoptionAssumption
<1>1. ASSUME NEW p \in Procs, Resolve(p) PROVE LockInv'
  BY <1>1 DEF TypeInv, PlaceInv, LockInv, Places, Steps, Resolve, Ask, Found, Goto, At, lockState
<1>2. ASSUME NEW p \in Procs, RecheckUser(p) PROVE LockInv'
  BY <1>2 DEF TypeInv, PlaceInv, LockInv, Places, Steps, RecheckUser, Goto, lockState
<1>3. ASSUME NEW p \in Procs, RecheckMarker(p) PROVE LockInv'
  BY <1>3 DEF TypeInv, PlaceInv, LockInv, Places, Steps, RecheckMarker, Goto, lockState
<1>4. ASSUME NEW p \in Procs, AdoptLegacy(p) PROVE LockInv'
  BY <1>4, FirstLedgers DEF TypeInv, PlaceInv, LockInv, Places, Steps, AdoptLegacy, Goto, lockState
<1>5. ASSUME NEW u \in Users, Raid(u) PROVE LockInv'
  BY <1>5 DEF TypeInv, PlaceInv, LockInv, Places, Steps, Raid, lockState
<1>6. ASSUME NEW p \in Procs, Leave(p) PROVE LockInv'
  BY <1>6 DEF TypeInv, PlaceInv, LockInv, Places, Steps, Leave, Unlock, Found, Goto, At
<1>7. ASSUME NEW p \in Procs, Threw(p) PROVE LockInv'
  BY <1>7 DEF TypeInv, PlaceInv, LockInv, Places, Steps, Threw, Goto, lockState
<1>8. ASSUME NEW p \in Procs, Own(p) PROVE LockInv'
  BY <1>8 DEF TypeInv, PlaceInv, LockInv, Places, Steps, Own, Goto, lockState
<1>9. ASSUME NEW p \in Procs, Read(p) PROVE LockInv'
  BY <1>9 DEF TypeInv, PlaceInv, LockInv, Places, Steps, Read, Goto, lockState
<1>10. ASSUME NEW p \in Procs, Write(p) PROVE LockInv'
  BY <1>10 DEF TypeInv, PlaceInv, LockInv, Places, Steps, Write, Goto, lockState
<1>11. ASSUME NEW p \in Procs, Crash(p) PROVE LockInv'
  BY <1>11 DEF TypeInv, PlaceInv, LockInv, Places, Steps, Crash, Die, Goto
<1>12. ASSUME NEW p \in Procs, Locking(p) PROVE LockInv'
  BY <1>12 DEF TypeInv, PlaceInv, LockInv, Places, Steps, Locking, Wait, MakeDir, StatDir, StealDir, WakeUp, At, adoptionState
<1>13. CASE Age /\ UNCHANGED adoptionState
  BY <1>13 DEF TypeInv, PlaceInv, LockInv, Places, Steps, Age, adoptionState
<1> QED BY <1>1, <1>2, <1>3, <1>4, <1>5, <1>6, <1>7, <1>8, <1>9, <1>10, <1>11, <1>12, <1>13 DEF Next, Run

(* Who was robbed stays so. *)
LEMMA RobbedStays ==
  ASSUME ~robbed', Next
  PROVE  ~robbed
<1> USE LockAssumption, AdoptionAssumption
<1>1. ASSUME NEW p \in Procs, Resolve(p) PROVE ~robbed
  BY <1>1 DEF TypeInv, Resolve, Ask, Found, Goto, At, lockState
<1>2. ASSUME NEW p \in Procs, RecheckUser(p) PROVE ~robbed
  BY <1>2 DEF TypeInv, RecheckUser, Goto, lockState
<1>3. ASSUME NEW p \in Procs, RecheckMarker(p) PROVE ~robbed
  BY <1>3 DEF TypeInv, RecheckMarker, Goto, lockState
<1>4. ASSUME NEW p \in Procs, AdoptLegacy(p) PROVE ~robbed
  BY <1>4, FirstLedgers DEF TypeInv, AdoptLegacy, Goto, lockState
<1>5. ASSUME NEW u \in Users, Raid(u) PROVE ~robbed
  BY <1>5 DEF TypeInv, Raid, lockState
<1>6. ASSUME NEW p \in Procs, Leave(p) PROVE ~robbed
  BY <1>6 DEF TypeInv, Leave, Unlock, Found, Goto, At
<1>7. ASSUME NEW p \in Procs, Threw(p) PROVE ~robbed
  BY <1>7 DEF TypeInv, Threw, Goto, lockState
<1>8. ASSUME NEW p \in Procs, Own(p) PROVE ~robbed
  BY <1>8 DEF TypeInv, Own, Goto, lockState
<1>9. ASSUME NEW p \in Procs, Read(p) PROVE ~robbed
  BY <1>9 DEF TypeInv, Read, Goto, lockState
<1>10. ASSUME NEW p \in Procs, Write(p) PROVE ~robbed
  BY <1>10 DEF TypeInv, Write, Goto, lockState
<1>11. ASSUME NEW p \in Procs, Crash(p) PROVE ~robbed
  BY <1>11 DEF TypeInv, Crash, Die, Goto
<1>12. ASSUME NEW p \in Procs, Locking(p) PROVE ~robbed
  BY <1>12 DEF TypeInv, Locking, Wait, MakeDir, StatDir, StealDir, WakeUp, At, adoptionState
<1>13. CASE Age /\ UNCHANGED adoptionState
  BY <1>13 DEF TypeInv, Age, adoptionState
<1> QED BY <1>1, <1>2, <1>3, <1>4, <1>5, <1>6, <1>7, <1>8, <1>9, <1>10, <1>11, <1>12, <1>13 DEF Next, Run

(* And what was seen inside the lock still holds. *)
LEMMA AdoptStep ==
  ASSUME TypeInv, PlaceInv, OwnerInv, LockInv, AdoptInv, Next
  PROVE  AdoptInv'
<1> USE LockAssumption, AdoptionAssumption
<1>1. ASSUME NEW p \in Procs, Resolve(p) PROVE AdoptInv'
  BY <1>1 DEF TypeInv, PlaceInv, LockInv, AdoptInv, HasOld, Heir, Past, Places, Steps, Resolve, Ask, Found, Goto, At, lockState
<1>2. ASSUME NEW p \in Procs, RecheckUser(p) PROVE AdoptInv'
  BY <1>2 DEF TypeInv, PlaceInv, LockInv, AdoptInv, HasOld, Heir, Past, Places, Steps, RecheckUser, Goto, lockState
<1>3. ASSUME NEW p \in Procs, RecheckMarker(p) PROVE AdoptInv'
  BY <1>3 DEF TypeInv, PlaceInv, LockInv, AdoptInv, HasOld, Heir, Past, Places, Steps, RecheckMarker, Goto, lockState
<1>4. ASSUME NEW p \in Procs, AdoptLegacy(p) PROVE AdoptInv'
  BY <1>4, FirstLedgers DEF TypeInv, PlaceInv, LockInv, AdoptInv, HasOld, Heir, Past, Places, Steps, AdoptLegacy, Goto, lockState
<1>5. ASSUME NEW u \in Users, Raid(u) PROVE AdoptInv'
  BY <1>5 DEF TypeInv, PlaceInv, LockInv, AdoptInv, HasOld, Heir, Past, Places, Steps, Raid, lockState
<1>6. ASSUME NEW p \in Procs, Leave(p) PROVE AdoptInv'
  BY <1>6 DEF TypeInv, PlaceInv, LockInv, AdoptInv, HasOld, Heir, Past, Places, Steps, Leave, Unlock, Found, Goto, At
<1>7. ASSUME NEW p \in Procs, Threw(p) PROVE AdoptInv'
  BY <1>7 DEF TypeInv, PlaceInv, LockInv, AdoptInv, HasOld, Heir, Past, Places, Steps, Threw, Goto, lockState
<1>8. ASSUME NEW p \in Procs, Own(p) PROVE AdoptInv'
  BY <1>8 DEF TypeInv, PlaceInv, LockInv, AdoptInv, HasOld, Heir, Past, Places, Steps, Own, Goto, lockState
<1>9. ASSUME NEW p \in Procs, Read(p) PROVE AdoptInv'
  BY <1>9, FirstLedgers, CreditedLedger DEF TypeInv, PlaceInv, LockInv, AdoptInv, HasOld, Heir, Past, Places, Steps, Read, Goto
<1>10. ASSUME NEW p \in Procs, Write(p) PROVE AdoptInv'
  BY <1>10 DEF TypeInv, PlaceInv, LockInv, AdoptInv, HasOld, Heir, Past, Places, Steps, OwnerInv, Write, Goto
<1>11. ASSUME NEW p \in Procs, Crash(p) PROVE AdoptInv'
  BY <1>11 DEF TypeInv, PlaceInv, LockInv, AdoptInv, HasOld, Heir, Past, Places, Steps, Crash, Die, Goto
<1>12. ASSUME NEW p \in Procs, Locking(p) PROVE AdoptInv'
  BY <1>12 DEF TypeInv, PlaceInv, LockInv, AdoptInv, HasOld, Heir, Past, Places, Steps, Locking, Wait, MakeDir, StatDir, StealDir, WakeUp, At, adoptionState
<1>13. CASE Age /\ UNCHANGED adoptionState
  BY <1>13 DEF TypeInv, PlaceInv, LockInv, AdoptInv, HasOld, Heir, Past, Places, Steps, Age, adoptionState
<1> QED BY <1>1, <1>2, <1>3, <1>4, <1>5, <1>6, <1>7, <1>8, <1>9, <1>10, <1>11, <1>12, <1>13 DEF Next, Run

(* And what is about to be written holds all there is. *)
LEMMA CopyStep ==
  ASSUME TypeInv, PlaceInv, OwnerInv, LockInv, AdoptInv, CopyInv, Next
  PROVE  CopyInv'
<1> USE LockAssumption, AdoptionAssumption
<1>1. ASSUME NEW p \in Procs, Resolve(p) PROVE CopyInv'
  BY <1>1 DEF TypeInv, PlaceInv, OwnerInv, CopyInv, HasOld, Past, Places, Steps, Resolve, Ask, Found, Goto, At, lockState
<1>2. ASSUME NEW p \in Procs, RecheckUser(p) PROVE CopyInv'
  BY <1>2 DEF TypeInv, PlaceInv, OwnerInv, CopyInv, HasOld, Past, Places, Steps, RecheckUser, Goto, lockState
<1>3. ASSUME NEW p \in Procs, RecheckMarker(p) PROVE CopyInv'
  BY <1>3 DEF TypeInv, PlaceInv, OwnerInv, CopyInv, HasOld, Past, Places, Steps, RecheckMarker, Goto, lockState
<1>4. ASSUME NEW p \in Procs, AdoptLegacy(p) PROVE CopyInv'
  BY <1>4, FirstLedgers DEF AdoptInv, TypeInv, PlaceInv, OwnerInv, CopyInv, HasOld, Past, Places, Steps, AdoptLegacy, Goto, lockState
<1>5. ASSUME NEW u \in Users, Raid(u) PROVE CopyInv'
  BY <1>5 DEF TypeInv, PlaceInv, OwnerInv, CopyInv, HasOld, Past, Places, Steps, Raid, lockState
<1>6. ASSUME NEW p \in Procs, Leave(p) PROVE CopyInv'
  BY <1>6 DEF TypeInv, PlaceInv, OwnerInv, CopyInv, HasOld, Past, Places, Steps, Leave, Unlock, Found, Goto, At
<1>7. ASSUME NEW p \in Procs, Threw(p) PROVE CopyInv'
  BY <1>7 DEF TypeInv, PlaceInv, OwnerInv, CopyInv, HasOld, Past, Places, Steps, Threw, Goto, lockState
<1>8. ASSUME NEW p \in Procs, Own(p) PROVE CopyInv'
  BY <1>8 DEF TypeInv, PlaceInv, OwnerInv, CopyInv, HasOld, Past, Places, Steps, Own, Goto, lockState
<1>9. ASSUME NEW p \in Procs, Read(p) PROVE CopyInv'
  <2> DEFINE w == UserOf[p]
             led == IF file[w] = None THEN Seeded ELSE file[w]
             new == [led EXCEPT !.credits = @ \cup {p}]
  <2>1. led \in LedgerFile /\ w \in Users
    BY FirstLedgers DEF TypeInv
  <2>2. new.old = led.old /\ new.credits = led.credits \cup {p}
    BY <2>1, CreditedLedger
  <2>3. file[w] # None => led = file[w]
    OBVIOUS
  <2>4. /\ step[p] = "read"
        /\ copy' = [copy EXCEPT ![p] = new]
        /\ file' = file \/ file' = [file EXCEPT ![w] = led]
        /\ step' = [step EXCEPT ![p] = "write"]
        /\ raided' = raided
    BY <1>9 DEF Read, Goto
  <2> HIDE DEF led, new
  <2>5. ASSUME NEW q \in Procs, q # p, step'[q] = "write", UserOf[q] \notin raided
        PROVE  step[q] = "write" /\ copy'[q] = copy[q] /\ file'[UserOf[q]] = file[UserOf[q]]
    <3>1. step[q] = "write" /\ copy'[q] = copy[q]
      BY <2>4, <2>5 DEF TypeInv
    <3>2. p \in inside[w] /\ q \in inside[UserOf[q]]
      BY <2>4, <3>1 DEF OwnerInv
    <3>3. UserOf[q] # w
      BY <2>1, <2>5, <3>2 DEF OwnerInv
    <3> QED BY <2>4, <3>1, <3>3 DEF TypeInv
  <2>6. copy'[p] = new /\ (file'[w] = file[w] \/ file'[w] = led)
    BY <2>1, <2>4 DEF TypeInv
  <2>7. file'[w] # None => (file'[w].old => copy'[p].old) /\ file'[w].credits \subseteq copy'[p].credits
    BY <2>2, <2>3, <2>6
  <2> QED BY <2>4, <2>5, <2>7 DEF CopyInv
<1>10. ASSUME NEW p \in Procs, Write(p) PROVE CopyInv'
  BY <1>10 DEF TypeInv, PlaceInv, OwnerInv, CopyInv, HasOld, Past, Places, Steps, Write, Goto, lockState
<1>11. ASSUME NEW p \in Procs, Crash(p) PROVE CopyInv'
  BY <1>11 DEF TypeInv, PlaceInv, OwnerInv, CopyInv, HasOld, Past, Places, Steps, Crash, Die, Goto
<1>12. ASSUME NEW p \in Procs, Locking(p) PROVE CopyInv'
  BY <1>12 DEF TypeInv, PlaceInv, OwnerInv, CopyInv, HasOld, Past, Places, Steps, Locking, Wait, MakeDir, StatDir, StealDir, WakeUp, At, adoptionState
<1>13. CASE Age /\ UNCHANGED adoptionState
  BY <1>13 DEF TypeInv, PlaceInv, OwnerInv, CopyInv, HasOld, Past, Places, Steps, Age, adoptionState
<1> QED BY <1>1, <1>2, <1>3, <1>4, <1>5, <1>6, <1>7, <1>8, <1>9, <1>10, <1>11, <1>12, <1>13 DEF Next, Run

(* The inductive invariant. *)
LEMMA Inductive ==
  ASSUME IInv, [Next]_vars
  PROVE  IInv'
<1>1. CASE Next
  <2>1. TypeInv' /\ TriesInv' /\ PlaceInv' /\ LapseInv' /\ OwnerInv'
    BY <1>1, TypeStep, TriesStep, PlaceStep, LapseStep, OwnerStep DEF IInv
  <2>2. ASSUME ~robbed' PROVE LockInv' /\ AdoptInv' /\ CopyInv'
    <3>1. ~robbed /\ LockInv /\ AdoptInv /\ CopyInv
      BY <1>1, <2>2, RobbedStays DEF IInv
    <3> QED BY <1>1, <2>2, <3>1, LockStep, AdoptStep, CopyStep DEF IInv
  <2> QED BY <2>1, <2>2 DEF IInv
<1>2. CASE UNCHANGED vars
  <2> USE <1>2 DEF vars, lockState, adoptionState
  <2>1. TypeInv' /\ TriesInv' /\ PlaceInv' /\ LapseInv' /\ OwnerInv'
    BY DEF IInv, TypeInv, TriesInv, PlaceInv, LapseInv, OwnerInv
  <2>2. ASSUME ~robbed' PROVE LockInv' /\ AdoptInv' /\ CopyInv'
    BY <2>2 DEF IInv, LockInv, AdoptInv, CopyInv, HasOld, Heir
  <2> QED BY <2>1, <2>2 DEF IInv
<1> QED BY <1>1, <1>2

(* It holds at first. *)
LEMMA FirstIsGood == Init => IInv
<1> SUFFICES ASSUME Init PROVE IInv
  OBVIOUS
<1> USE LockAssumption, AdoptionAssumption DEF Init, LockedInit
<1>1. TypeInv /\ TriesInv /\ PlaceInv /\ LapseInv /\ OwnerInv
  <2>1. TypeInv
    <3>1. 0 \in 0 .. Limit + 1 /\ MaxDies \in Nat
      OBVIOUS
    <3>2. tries \in [Procs -> 0 .. Limit + 1]
      BY <3>1
    <3>3. at \in [Procs -> Places] /\ step \in [Procs -> Steps]
      BY DEF Places, Steps
    <3>4. /\ file \in [Users -> LedgerFile \cup {None}]
          /\ inside \in [Users -> SUBSET Procs] /\ raided \in SUBSET Users
          /\ copy \in [Procs -> LedgerFile \cup {None}]
      OBVIOUS
    <3> QED BY <3>2, <3>3, <3>4 DEF TypeInv
  <2>2. TriesInv /\ PlaceInv /\ LapseInv /\ OwnerInv
    BY DEF TriesInv, PlaceInv, LapseInv, OwnerInv
  <2> QED BY <2>1, <2>2
<1>2. LockInv /\ AdoptInv /\ CopyInv
  BY DEF LockInv, AdoptInv, CopyInv, HasOld, Heir, Past
<1> QED BY <1>1, <1>2 DEF IInv

(* The invariant always holds. *)
THEOREM AlwaysGood == Spec => []IInv
BY FirstIsGood, Inductive, PTL DEF Spec

(* Types, and no lock outlives its request. *)
THEOREM AdoptionTypeCorrect == Spec => []AdoptionTypeOK
<1>1. IInv => AdoptionTypeOK
  BY LockAssumption, AdoptionAssumption DEF IInv, TypeInv, PlaceInv, OwnerInv, AdoptionTypeOK
<1> QED BY <1>1, AlwaysGood, PTL

(* A set any two members of which are equal has at most one. *)
LEMMA AtMostOne ==
  ASSUME NEW S, \A x, y \in S : x = y
  PROVE  Cardinality(S) <= 1
<1>1. CASE S = {}
  BY <1>1, FS_EmptySet
<1>2. CASE S # {}
  <2>1. PICK x \in S : TRUE
    BY <1>2
  <2>2. S = {x}
    BY <2>1
  <2> QED BY <2>2, FS_Singleton
<1> QED BY <1>1, <1>2

(* The old ledger is adopted once: for any number of users and requests,   *)
(* whoever dies, between the marker and the copy too, and whoever then     *)
(* steals the lock that was left, as long as nobody is robbed of it while  *)
(* inside (gamification.ts:190 and 214, fileLock.ts:24).                   *)
THEOREM AdoptedOnce == Spec => []OneAdopter
<1>1. IInv => OneAdopter
  <2> SUFFICES ASSUME IInv, ~robbed
               PROVE  Cardinality({u \in Users : file[u] # None /\ file[u].old}) <= 1
    BY DEF OneAdopter
  <2> DEFINE S == {u \in Users : file[u] # None /\ file[u].old}
  <2>1. \A x, y \in S : x = y
    BY DEF IInv, AdoptInv, HasOld, Heir
  <2> HIDE DEF S
  <2>2. Cardinality(S) <= 1
    BY <2>1, AtMostOne
  <2> QED BY <2>2 DEF S
<1> QED BY <1>1, AlwaysGood, PTL

(* No step takes back what a user's file holds, while nobody was robbed. *)
LEMMA StepKeepsFiles ==
  ASSUME IInv, Next, ~robbed', NEW u \in Users, u \notin raided', file[u] # None
  PROVE  /\ file'[u] # None
         /\ file[u].old => file'[u].old
         /\ file[u].credits \subseteq file'[u].credits
<1>1. ~robbed /\ TypeInv /\ LockInv /\ AdoptInv /\ CopyInv /\ OwnerInv
  BY RobbedStays DEF IInv
<1>2. CASE file' = file
  BY <1>2
<1>3. ASSUME NEW p \in Procs, AdoptLegacy(p)
      PROVE  file'[u] = file[u]
  BY <1>1, <1>3, AdoptionAssumption DEF AdoptInv, TypeInv, AdoptLegacy
<1>4. ASSUME NEW p \in Procs, Read(p)
      PROVE  file'[u] = file[u]
  BY <1>1, <1>4, AdoptionAssumption DEF TypeInv, Read
<1>5. ASSUME NEW p \in Procs, Write(p)
      PROVE  /\ file'[u] # None
             /\ file[u].old => file'[u].old
             /\ file[u].credits \subseteq file'[u].credits
  <2>1. CASE UserOf[p] = u
    BY <1>1, <1>5, <2>1 DEF TypeInv, OwnerInv, CopyInv, Write
  <2>2. CASE UserOf[p] # u
    BY <1>1, <1>5, <2>2 DEF TypeInv, Write
  <2> QED BY <2>1, <2>2
<1>6. \/ file' = file
      \/ \E p \in Procs : AdoptLegacy(p) \/ Read(p) \/ Write(p)
  BY DEF Next, Run, Locking, adoptionState, Resolve, RecheckUser, RecheckMarker,
         Leave, Threw, Own, Raid, Crash
<1> QED BY <1>2, <1>3, <1>4, <1>5, <1>6

(* An adoption never undoes a credit, nor a credit an adoption. *)
THEOREM AdoptionAndCreditsStand == Spec => NothingOverwritten
<1> DEFINE Kept == ~robbed' => \A u \in Users \ raided' : file[u] # None =>
                     /\ file'[u] # None
                     /\ file[u].old => file'[u].old
                     /\ file[u].credits \subseteq file'[u].credits
<1>1. IInv /\ [Next]_vars => [Kept]_vars
  <2> SUFFICES ASSUME IInv, Next PROVE Kept
    OBVIOUS
  <2> QED BY StepKeepsFiles
<1> HIDE DEF Kept
<1>2. Spec => [][Kept]_vars
  BY <1>1, AlwaysGood, PTL DEF Spec
<1> QED BY <1>2 DEF Kept, NothingOverwritten

-----------------------------------------------------------------------------
(* The lock keeps its promise.                                               *)

(* Nobody is inside at first. *)
LEMMA PromiseAtFirst == Init => Promise!LockInit
BY DEF Init, LockedInit, Promise!LockInit, Inside

(* A caller's step that leaves the places alone. *)
LEMMA SamePlaces ==
  ASSUME at' = at, lapsed' = lapsed, robbed' = robbed
  PROVE  UNCHANGED Promise!lockVars
BY DEF Promise!lockVars, Inside

(* Every step enters, departs, lapses, robs, or is none of the promise's. *)
LEMMA StepKeepsPromise ==
  ASSUME IInv, [Next]_vars
  PROVE  [Promise!LockNext]_(Promise!lockVars)
<1> USE DEF IInv
<1>1. ASSUME NEW p \in Procs, at[p] # "in", NEW place \in Places \ {"in"},
             at' = [at EXCEPT ![p] = place], lapsed' = lapsed, robbed' = robbed
      PROVE  UNCHANGED Promise!lockVars
  BY <1>1 DEF TypeInv, Promise!lockVars, Inside
<1>2. ASSUME NEW p \in Procs, at[p] = "in", NEW place \in Places \ {"in"},
             at' = [at EXCEPT ![p] = place], lapsed' = lapsed, robbed' = robbed
      PROVE  Promise!Depart(p)
  BY <1>2 DEF TypeInv, Promise!Depart, Inside
<1>3. ASSUME NEW p \in Procs, at[p] = "mkdir", dir = None,
             at' = [at EXCEPT ![p] = "in"], lapsed' = lapsed, robbed' = robbed
      PROVE  Promise!Enter(p)
  <2>1. Inside' = Inside \cup {p} /\ p \notin Inside
    BY <1>3 DEF TypeInv, Inside
  <2>2. Inside = {} \/ robbed
    BY <1>3, LockAssumption DEF LockInv, Inside
  <2> QED BY <1>3, <2>1, <2>2 DEF Promise!Enter
<1>4. ASSUME NEW p \in Procs, Locking(p)
      PROVE  Promise!LockNext \/ UNCHANGED Promise!lockVars
  <2>1. CASE MakeDir(p)
    <3>1. CASE dir = None
      BY <2>1, <3>1, <1>3 DEF MakeDir, At, Promise!LockNext
    <3>2. CASE dir # None
      <4>1. PICK place \in {"threw", "stat", "sleep"} : at' = [at EXCEPT ![p] = place]
        BY <2>1, <3>2 DEF MakeDir, At
      <4> QED BY <2>1, <4>1, <1>1 DEF MakeDir, Places
    <3> QED BY <3>1, <3>2
  <2>2. CASE StatDir(p)
    <3>1. PICK place \in {"rmdir", "sleep"} : at' = [at EXCEPT ![p] = place]
      BY <2>2 DEF StatDir, At
    <3> QED BY <2>2, <3>1, <1>1 DEF StatDir, Places
  <2>3. CASE WakeUp(p)
    BY <2>3, <1>1 DEF WakeUp, At, Places
  <2>4. CASE StealDir(p)
    <3>1. Inside' = Inside /\ lapsed' = lapsed /\ lapsed
      BY <2>4 DEF StealDir, At, TypeInv, LapseInv, Inside
    <3>2. CASE dir # None /\ at[dir] = "in"
      <4>1. dir \in Inside /\ robbed' = TRUE
        BY <2>4, <3>2 DEF StealDir, TypeInv, Inside
      <4> QED BY <3>1, <4>1 DEF Promise!LockNext, Promise!Rob
    <3>3. CASE ~(dir # None /\ at[dir] = "in")
      BY <2>4, <3>1, <3>3 DEF StealDir, TypeInv, Promise!lockVars
    <3> QED BY <3>2, <3>3
  <2> QED BY <1>4, <2>1, <2>2, <2>3, <2>4 DEF Locking, Wait
<1>5. ASSUME NEW p \in Procs, Resolve(p)
      PROVE  UNCHANGED Promise!lockVars
  <2>1. CASE UNCHANGED lockState
    BY <2>1, SamePlaces DEF lockState
  <2>2. CASE Ask(p)
    BY <2>2, <1>1 DEF Ask, At, Places
  <2> QED BY <1>5, <2>1, <2>2 DEF Resolve
<1>6. ASSUME NEW p \in Procs, Leave(p)
      PROVE  Promise!Depart(p)
  BY <1>6, <1>2 DEF Leave, Unlock, At, Places
<1>7. ASSUME NEW p \in Procs, Crash(p)
      PROVE  Promise!Depart(p) \/ UNCHANGED Promise!lockVars
  BY <1>7, <1>1, <1>2 DEF Crash, Die, Places
<1>8. ASSUME NEW p \in Procs,
             \/ RecheckUser(p) \/ RecheckMarker(p) \/ AdoptLegacy(p)
             \/ Threw(p) \/ Own(p) \/ Read(p) \/ Write(p)
      PROVE  UNCHANGED Promise!lockVars
  BY <1>8, SamePlaces DEF RecheckUser, RecheckMarker, AdoptLegacy, Threw, Own,
                          Read, Write, lockState
<1>9. CASE Age
  BY <1>9 DEF Age, Promise!LockNext, Promise!Lapse, Inside
<1>11. ASSUME NEW u \in Users, Raid(u)
       PROVE  UNCHANGED Promise!lockVars
  BY <1>11, SamePlaces DEF Raid, lockState
<1>10. CASE UNCHANGED vars
  BY <1>10, SamePlaces DEF vars, lockState
<1> QED BY <1>4, <1>5, <1>6, <1>7, <1>8, <1>9, <1>10, <1>11 DEF Next, Run, Promise!LockNext

(* The lock directory implements the promise: one caller inside at a time, *)
(* until one is robbed, which takes a lock kept for a minute.              *)
THEOREM LockKeepsPromise == Spec => PromiseSpec
BY PromiseAtFirst, StepKeepsPromise, AlwaysGood, PTL DEF Spec, PromiseSpec, Promise!LockSpec

===============================================================================
