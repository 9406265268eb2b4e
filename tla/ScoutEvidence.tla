---------------------------- MODULE ScoutEvidence -----------------------------
(***************************************************************************)
(* The takes of one user in the Scout evidence, and the notes that back    *)
(* them.  A confirmed reply is recorded by the adapter that marked it,     *)
(* which then writes the note of its thread and says whether the note      *)
(* stands for the reply (server/src/memory/interactionMemoryProjection.ts, *)
(* server/src/scout/scoutEvidence.ts).  Whatever was missed is found by    *)
(* passes over what is durable, a page of each table at a time             *)
(* (server/src/scout/scoutEvidenceReconcile.ts).  Adapters and passes run  *)
(* in several processes and interleave at every await.                     *)
(*                                                                         *)
(* Replies are numbered in the order they were posted, which is the order  *)
(* of all three tables.  All are of one UTC day, so that a thread has one  *)
(* note; none answers a post of the user's own, and none is deleted.       *)
(***************************************************************************)
EXTENDS Naturals, FiniteSetsExt

CONSTANTS
  N,          \* replies
  Threads,
  ThreadOf,   \* the thread each reply is marked on
  ParentOf,   \* the post it answers, itself a thread
  Marks,      \* <<reply, source>>: what adapters will mark, and the repair
  Known,      \* the replies to a card whose kind the server has known
  Legacy,     \* threads with a note from before notes named their reply
  Procs,      \* processes that run passes
  Casts,      \* bound: the marks and the processes that come together
  Batch,      \* rows of a page
  Window,     \* how many replies the repair looks back (200 in the code)
  None,
  MaxFaults   \* bound: writes that fail, and adapters and passes that die

Replies == 1 .. N
Undeclared == 0
NoteStates == {"unknown", "stored", "missing"}
(* A reply is marked by hand, with its text or by its address alone, or    *)
(* found by the webhook or by discovery; discovery also repairs the notes  *)
(* of all replies, one after the other.                                    *)
Sources == {"manual", "url", "found"}
Repair == <<0, "repair">>
Row == [target : Threads, kind : BOOLEAN, note : NoteStates]
Note == [reply : Replies \cup {Undeclared}, curated : BOOLEAN]

ASSUME EvidenceAssumption ==
  /\ N \in Nat /\ Batch \in Nat \ {0} /\ Window \in Nat /\ MaxFaults \in Nat
  /\ ThreadOf \in [Replies -> Threads] /\ ParentOf \in [Replies -> Threads]
  /\ Marks \subseteq Replies \X Sources \cup {Repair}
  /\ Known \subseteq Replies /\ Legacy \subseteq Threads
  /\ Casts \subseteq [marks : SUBSET Marks, procs : SUBSET Procs]

VARIABLES
  own,     \* own_posts: replies whose text is confirmed
  inter,   \* desk_interactions: the reply of each thread, or 0
  rows,    \* scout_evidence: the take of each reply
  note,    \* the note of each thread
  cursor,  \* scout_evidence_cursors, 0 for null
  mark,    \* each adapter: its step, its reply and the thread it marks
  pass,    \* the pass of each process
  faults

vars == <<own, inter, rows, note, cursor, mark, pass, faults>>
tables == <<own, inter, note>>

Scopes == {"interactions", "own_replies", "notes"}
NoRow == <<0, None>>
Resting == [step |-> "idle", scope |-> "interactions", names |-> {}, todo |-> {},
            row |-> NoRow, last |-> 0, verdict |-> "unknown"]

Unused(m) ==
  [step |-> "idle", reply |-> m[1],
   on |-> IF m = Repair THEN None ELSE ThreadOf[m[1]]]

(* What is not in the cast never begins. *)
Off(x) == [x EXCEPT !.step = "off"]

Init ==
  /\ own = {}
  /\ inter = [t \in Threads |-> 0]
  /\ rows = [r \in Replies |-> None]
  /\ note = [t \in Threads |-> IF t \in Legacy
                               THEN [reply |-> Undeclared, curated |-> TRUE] ELSE None]
  /\ cursor = [s \in Scopes |-> 0]
  /\ \E cast \in Casts :
       /\ mark = [m \in Marks |-> IF m \in cast.marks THEN Unused(m) ELSE Off(Unused(m))]
       /\ pass = [p \in Procs |-> IF p \in cast.procs THEN Resting ELSE Off(Resting)]
  /\ faults = 0

Fault == faults < MaxFaults /\ faults' = faults + 1
-------------------------------------------------------------------------------
(* The rows.                                                               *)

(* What could go wrong: what is known is replaced by what came last. *)
EnrichedLast(row, target, kind, state) ==
  IF row = None THEN [target |-> target, kind |-> kind, note |-> state]
  ELSE [row EXCEPT !.kind = kind, !.note = IF state = "unknown" THEN @ ELSE state]

(* A take is inserted, or what is missing of it filled in; of its note the *)
(* last word counts.                                                       *)
Enriched(row, target, kind, state) ==
  IF row = None THEN [target |-> target, kind |-> kind, note |-> state]
  ELSE [row EXCEPT !.kind = @ \/ kind, !.note = IF state = "unknown" THEN @ ELSE state]

(* recordScoutEvidence; the kind is known if the card is, at that moment. *)
RecordTake(r, target, state) ==
  \E kind \in {FALSE} \cup {k \in {TRUE} : r \in Known} :
    rows' = [rows EXCEPT ![r] = Enriched(@, target, kind, state)]

(* setScoutEvidenceNoteState. *)
SetNoteState(r, state) ==
  rows' = IF rows[r] = None THEN rows ELSE [rows EXCEPT ![r].note = state]

(* What could go wrong: any note of the thread stands for the reply. *)
NoteVerdictAny(t, r, names) ==
  IF t \in names /\ note[t] # None THEN "stored" ELSE "missing"

(* verifyOwnedReplyNote: the note must be among the names and declare the  *)
(* reply; one that declares none counts for the only reply to its thread.  *)
NoteVerdict(t, r, names) ==
  IF /\ t \in names /\ note[t] # None
     /\ \/ note[t].reply = r
        \/ /\ note[t].reply = Undeclared
           /\ \A other \in own \ {r} : ParentOf[other] # t
  THEN "stored" ELSE "missing"
-------------------------------------------------------------------------------
(* The adapters.                                                           *)

(* The text of a reply reaches own_posts. *)
OwnPost(r) ==
  /\ r \notin own
  /\ own' = own \cup {r}
  /\ UNCHANGED <<inter, rows, note, cursor, mark, pass, faults>>

Goes(m, step) == mark' = [mark EXCEPT ![m].step = step]
Finishes(m) == mark' = [mark EXCEPT ![m] = IF m = Repair THEN Unused(m) ELSE [@ EXCEPT !.step = "done"]]

(* The operator marks a reply with its text, or by its address alone.      *)
MarkManual(m) ==
  LET r == m[1] IN
  /\ mark[m].step = "idle"
  /\ m[2] \in {"manual", "url"}
  /\ inter' = [inter EXCEPT ![ThreadOf[r]] = r]
  /\ IF m[2] = "url" THEN Goes(m, "done") /\ UNCHANGED rows
     ELSE Goes(m, "write") /\ RecordTake(r, ThreadOf[r], "unknown")
  /\ UNCHANGED <<own, note, cursor, pass, faults>>

(* The webhook or the hourly discovery looks for the reply in the history; *)
(* what it finds counts, though the mark comes some awaits later.  Of a    *)
(* reply that is known the webhook looks at the note, discovery writes it  *)
(* in any case.  A new one is marked on its thread, or by discovery on the *)
(* post it answers, which is left alone when it has a mark.                *)
Discover(m) ==
  LET r == m[1]
      known == {t \in Threads : inter[t] = r}
      parent == ParentOf[r]
      MarksOn(t) == mark' = [mark EXCEPT ![m].step = "new", ![m].on = t]
  IN
  /\ mark[m].step = "idle" /\ m[2] = "found"
  /\ \/ \E t \in known, step \in {"known", "write"} :
          mark' = [mark EXCEPT ![m].step = step, ![m].on = t]
     \/ known = {} /\ MarksOn(ThreadOf[r])
     \/ known = {} /\ inter[parent] = 0 /\ MarksOn(parent)
     \/ known = {} /\ inter[parent] # 0 /\ Goes(m, "done")
  /\ UNCHANGED <<own, inter, rows, note, cursor, pass, faults>>

MarkDiscovered(m) ==
  LET r == m[1] IN
  /\ mark[m].step = "new"
  /\ inter' = [inter EXCEPT ![mark[m].on] = r]
  /\ Goes(m, "write")
  /\ RecordTake(r, mark[m].on, "unknown")
  /\ UNCHANGED <<own, note, cursor, pass, faults>>

(* The webhook writes the note of a known reply if the thread has none. *)
DiscoverNote(m) ==
  /\ mark[m].step = "known"
  /\ Goes(m, IF note[mark[m].on] = None THEN "write" ELSE "done")
  /\ UNCHANGED <<own, inter, rows, note, cursor, pass, faults>>

(* The row that names a reply; of two the history has one come last. *)
Marked(r) == \E t \in Threads : inter[t] = r
RowOf(r) == CHOOSE t \in Threads : inter[t] = r

(* A repair looks at the newest of the confirmed replies only. *)
InWindow(r) == Cardinality({other \in own : other > r}) < Window

(* Each discovery writes the notes that are missing of the marked replies  *)
(* in its window whose text is confirmed.                                  *)
RepairNote(m) ==
  /\ m = Repair /\ mark[m].step = "idle"
  /\ \E r \in own :
       /\ InWindow(r) /\ Marked(r) /\ note[RowOf(r)] = None
       /\ mark' = [mark EXCEPT ![m] = [step |-> "write", reply |-> r, on |-> RowOf(r)]]
  /\ UNCHANGED <<own, inter, rows, note, cursor, pass, faults>>

(* What a write leaves in the note: a curated one keeps its reply when a   *)
(* discovered one comes, and takes its id only if it has none and the two  *)
(* texts are the same.                                                     *)
Merged(old, m, same) ==
  IF old # None /\ old.curated /\ m[2] # "manual"
  THEN [old EXCEPT !.reply = IF @ = Undeclared /\ same THEN mark[m].reply ELSE @]
  ELSE [reply |-> mark[m].reply, curated |-> m[2] = "manual"]

(* Under the lock of the note: read, merge, rename. *)
WriteNote(m) ==
  LET t == mark[m].on IN
  /\ mark[m].step = "write"
  /\ \E same \in BOOLEAN : note' = [note EXCEPT ![t] = Merged(@, m, same)]
  /\ Goes(m, IF note'[t].reply = mark[m].reply THEN "stored" ELSE "missing")
  /\ UNCHANGED <<own, inter, rows, cursor, pass, faults>>

(* An await later the take is told what the note declares. *)
TellTake(m) ==
  /\ mark[m].step \in {"stored", "missing"}
  /\ SetNoteState(mark[m].reply, mark[m].step)
  /\ Finishes(m)
  /\ UNCHANGED <<own, inter, note, cursor, pass, faults>>

WriteFails(m) ==
  /\ mark[m].step = "write"
  /\ Fault
  /\ SetNoteState(mark[m].reply, "missing")
  /\ Finishes(m)
  /\ UNCHANGED <<own, inter, note, cursor, pass>>

AdapterDies(m) ==
  /\ mark[m].step \in {"new", "known", "write", "stored", "missing"}
  /\ Fault
  /\ Finishes(m)
  /\ UNCHANGED <<own, inter, rows, note, cursor, pass>>
-------------------------------------------------------------------------------
(* A pass.                                                                 *)

(* The names of the notes are listed once for the whole pass. *)
Begin(p) ==
  /\ pass[p].step = "idle"
  /\ pass' = [pass EXCEPT ![p] = [Resting EXCEPT !.step = "page",
                                    !.names = {t \in Threads : note[t] # None}]]
  /\ UNCHANGED <<own, inter, rows, note, cursor, mark, faults>>

(* What could go wrong: a note found missing is never looked for again. *)
EligibleOnce(scope) ==
  CASE scope = "interactions" -> {<<inter[t], t>> : t \in {x \in Threads : inter[x] # 0}}
    [] scope = "own_replies" -> {<<r, ParentOf[r]>> : r \in own}
    [] scope = "notes" -> {<<r, rows[r].target>> :
                             r \in {x \in Replies : rows[x] # None /\ rows[x].note = "unknown"}}

(* The replies of a table, each with the thread whose note is looked at. *)
Eligible(scope) ==
  CASE scope = "interactions" -> {<<inter[t], t>> : t \in {x \in Threads : inter[x] # 0}}
    [] scope = "own_replies" -> {<<r, ParentOf[r]>> : r \in own}
    [] scope = "notes" -> {<<r, rows[r].target>> :
                             r \in {x \in Replies : rows[x] # None /\ rows[x].note # "stored"}}

(* The newest of a set, a page of them. *)
NewestOf(S) == {x \in S : Cardinality({y \in S : y[1] > x[1]}) < Batch}

Oldest(page) == Min({x[1] : x \in page})

(* What could go wrong: a full page at the end leaves no way back. *)
PageStuck(p) ==
  LET s == pass[p].scope
      page == NewestOf({x \in Eligible(s) : cursor[s] # 0 => x[1] < cursor[s]})
  IN
  /\ pass[p].step = "page"
  /\ pass' = [pass EXCEPT ![p].step = "row", ![p].todo = page,
                ![p].last = IF page = {} THEN cursor[s] ELSE Oldest(page)]
  /\ UNCHANGED <<own, inter, rows, note, cursor, mark, faults>>

(* The page below the cursor; a short one sends the cursor back to the     *)
(* newest row.                                                             *)
Page(p) ==
  LET s == pass[p].scope
      page == NewestOf({x \in Eligible(s) : cursor[s] # 0 => x[1] < cursor[s]})
  IN
  /\ pass[p].step = "page"
  /\ pass' = [pass EXCEPT ![p].step = "row", ![p].todo = page,
                ![p].last = IF Cardinality(page) < Batch THEN 0 ELSE Oldest(page)]
  /\ UNCHANGED <<own, inter, rows, note, cursor, mark, faults>>

(* The newest row of the page that is left. *)
Doing(p, x) == x \in pass[p].todo /\ \A y \in pass[p].todo : y[1] <= x[1]

(* A mark without a confirmed text must be confirmed by its note; an own   *)
(* reply whose take has everything is passed over.                         *)
Turn(p, x) ==
  LET r == x[1] IN
  /\ pass[p].step = "row" /\ Doing(p, x)
  /\ IF pass[p].scope = "own_replies" /\ rows[r] # None
          /\ rows[r].kind /\ rows[r].note = "stored"
     THEN pass' = [pass EXCEPT ![p].todo = @ \ {x}]
     ELSE pass' = [pass EXCEPT ![p].step =
            IF pass[p].scope = "interactions" /\ r \notin own THEN "confirm" ELSE "verify",
            ![p].row = x]
  /\ UNCHANGED <<own, inter, rows, note, cursor, mark, faults>>

Confirm(p) ==
  LET x == pass[p].row IN
  /\ pass[p].step = "confirm"
  /\ pass' = IF NoteVerdict(x[2], x[1], pass[p].names) = "stored"
             THEN [pass EXCEPT ![p].step = "verify"]
             ELSE [pass EXCEPT ![p].step = "row", ![p].todo = @ \ {x}, ![p].row = NoRow]
  /\ UNCHANGED <<own, inter, rows, note, cursor, mark, faults>>

Verify(p) ==
  LET x == pass[p].row IN
  /\ pass[p].step = "verify"
  /\ pass' = [pass EXCEPT ![p].step = "record",
                ![p].verdict = NoteVerdict(x[2], x[1], pass[p].names)]
  /\ UNCHANGED <<own, inter, rows, note, cursor, mark, faults>>

(* Awaits later the verdict is written. *)
Write(p) ==
  LET x == pass[p].row IN
  /\ pass[p].step = "record"
  /\ IF pass[p].scope = "notes" THEN SetNoteState(x[1], pass[p].verdict)
     ELSE RecordTake(x[1], x[2], pass[p].verdict)
  /\ pass' = [pass EXCEPT ![p].step = "row", ![p].todo = @ \ {x},
                ![p].row = NoRow, ![p].verdict = "unknown"]
  /\ UNCHANGED <<own, inter, note, cursor, mark, faults>>

(* The cursor is written when the page is done, whoever moved it meanwhile. *)
TurnPage(p) ==
  LET s == pass[p].scope IN
  /\ pass[p].step = "row" /\ pass[p].todo = {}
  /\ cursor' = [cursor EXCEPT ![s] = pass[p].last]
  /\ pass' = [pass EXCEPT ![p] =
       CASE s = "interactions" -> [@ EXCEPT !.step = "page", !.scope = "own_replies"]
         [] s = "own_replies" -> [@ EXCEPT !.step = "page", !.scope = "notes"]
         [] s = "notes" -> Resting]
  /\ UNCHANGED <<own, inter, rows, note, mark, faults>>

PassDies(p) ==
  /\ pass[p].step \notin {"idle", "off"}
  /\ Fault
  /\ pass' = [pass EXCEPT ![p] = Resting]
  /\ UNCHANGED <<own, inter, rows, note, cursor, mark>>

PassStep(p) ==
  \/ Begin(p) \/ Page(p) \/ TurnPage(p)
  \/ (\E x \in pass[p].todo : Turn(p, x))
  \/ Confirm(p) \/ Verify(p) \/ Write(p)

Adapter(m) ==
  \/ MarkManual(m) \/ Discover(m) \/ MarkDiscovered(m) \/ DiscoverNote(m)
  \/ RepairNote(m) \/ WriteNote(m) \/ TellTake(m) \/ WriteFails(m) \/ AdapterDies(m)

Next ==
  \/ \E r \in Replies : OwnPost(r)
  \/ \E m \in Marks : Adapter(m)
  \/ \E p \in Procs : PassStep(p) \/ PassDies(p)

(* Discovery runs every hour: it repairs the notes, then runs a pass, and  *)
(* goes on to its end.  No other adapter has to finish what it began.      *)
Repairs == Repair \in Marks /\ (RepairNote(Repair) \/ WriteNote(Repair) \/ TellTake(Repair))

Fairness ==
  /\ \A p \in Procs : WF_vars(PassStep(p))
  /\ WF_vars(Repairs)

Spec == Init /\ [][Next]_vars /\ Fairness
-------------------------------------------------------------------------------
(***************************************************************************)
(* Properties.                                                             *)
(***************************************************************************)
EvidenceTypeOK ==
  /\ own \subseteq Replies
  /\ inter \in [Threads -> Replies \cup {0}]
  /\ rows \in [Replies -> Row \cup {None}]
  /\ note \in [Threads -> Note \cup {None}]
  /\ cursor \in [Scopes -> Replies \cup {0}]
  /\ faults \in 0 .. MaxFaults

Declares(t, r) == note[t] # None /\ note[t].reply = r

(* A mark by address alone never becomes a take through the note of        *)
(* another reply: a take has a confirmed text, was recorded with one, or   *)
(* has a note of its own or of before                                      *)
(* (scoutEvidenceReconcile.test.ts:146).                                   *)
UrlIsNoTake ==
  \A r \in Replies : rows[r] # None =>
    \/ r \in own
    \/ \E m \in Marks : m[1] = r /\ m[2] # "url" /\ mark[m].step \notin {"idle", "off"}
    \/ ThreadOf[r] \in Legacy

(* Every confirmed reply has its take in the end: one beyond the first     *)
(* page, one that came while a page was read, one whose adapter died, and  *)
(* though the passes of two processes write over each other's cursor       *)
(* (scoutEvidenceReconcile.ts:372).                                        *)
TakesComplete == []<>(\A r \in own : rows[r] # None)

(* A marked reply whose text is confirmed has a note on its thread in the  *)
(* end, though its adapter died or its write failed, unless its mark is    *)
(* replaced or newer replies have pushed it out of the window              *)
(* (replyDiscover.ts:350, :362).                                           *)
NoteComes == []<>(\A r \in own : InWindow(r) /\ Marked(r) => note[RowOf(r)] # None)

(* Nothing of a confirmed reply is missed for ever: neither its take nor,  *)
(* while it is in the window of the repair, its note.                      *)
NothingMissed == TakesComplete /\ NoteComes

(* The replies whose thread is that of the post they answer.  Of the       *)
(* others, which answer a reply, the scopes of a pass look for the note on *)
(* two threads (scoutEvidenceReconcile.ts:249, :294): a take that one of   *)
(* them credits is taken back by the other for as long as passes run.      *)
Straight == {r \in Replies : ThreadOf[r] = ParentOf[r]}

CreditSettlesOf(S) ==
  <>[](\A r \in S :
         rows[r] # None /\ Declares(rows[r].target, r) => rows[r].note = "stored")
RowsSettleOf(S) == <>[][\A r \in S : rows'[r] = rows[r]]_vars

(* The take of a reply marked on the post it answers is credited in the    *)
(* end when its note declares it, and stays so, whatever an adapter or the *)
(* stale pass of another process said of it meanwhile, and though a reply  *)
(* to a reply shares its thread.                                           *)
CreditSettles == CreditSettlesOf(Straight)

(* Passes are idempotent: once nothing new happens the row of a reply      *)
(* marked on the post it answers changes no more                           *)
(* (scoutEvidenceReconcile.ts:8).                                          *)
RowsSettle == RowsSettleOf(Straight)

(* The same of all replies. *)
EveryCreditSettles == CreditSettlesOf(Replies)
EveryRowSettles == RowsSettleOf(Replies)

(* A credited take has a note that is its own, in the end                  *)
(* (scoutEvidenceReconcile.ts:87).                                         *)
CreditIsBacked ==
  \A r \in Replies :
    <>[](rows[r] # None /\ rows[r].note = "stored" =>
           \/ Declares(ThreadOf[r], r) \/ Declares(ParentOf[r], r)
           \/ Declares(ThreadOf[r], Undeclared) \/ Declares(ParentOf[r], Undeclared))

(* A row that is there is only enriched: the credit of a take is not taken *)
(* away while its note declares it (scoutEvidenceReconcile.ts:8).          *)
OnlyEnriched ==
  [][\A r \in Replies :
       rows[r] # None /\ rows[r].note = "stored" /\ Declares(rows[r].target, r)
         => rows'[r].note = "stored"]_vars
===============================================================================
