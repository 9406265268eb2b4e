# Verification of x-copilot

x-copilot helps one operator reply and post on X. A *desk* in the browser puts up one
card at a time (a post found by Scout, a suggested reply or original, the For You
prompt); an extension panel on x.com shows the same card and has the same buttons; a
Node server keeps what both read, runs the Scout flights that find cards, and keeps the
ledgers, streaks and billing. A webhook sidecar hears of the operator's own posts, and
an hourly worker refreshes statistics.

This directory holds TLA+ models of the parts in which several actors meet, the TLC
configurations that check them, and proofs checked by TLAPS. Paths below are under
`server/src/` unless they begin with another package.

## Inventory

| Part | State | Operations | Meets | Hard behaviour | What makes it correct |
|---|---|---|---|---|---|
| Approach ladder (`desk/approachPhase.ts`, `approachSelector.ts`; `shared/src/deskPhase.ts`, `approachCard.ts`) | none | advance, inventory, pick a suggestion | task server, desk | two copies of one algorithm | a step leads to a card on offer, never a released one |
| Approach task server (`desk/approachTaskStore.ts`, `approachServerNext.ts`, `approachNextHttp.ts`, `approachOriginalDetect.ts`, `scout/scoutApproachLock.ts`) | task row with owner, release ledger, locked card, next card, desk state | desk PUT and GET, panel press, detections, expiry | desk, panel, webhook, event stream | a press is read before an await and written after it; publishes without a version | rows speak of the task's card; a released card is not served; a detection is of a real and new post |
| Desk tab (`frontend/src/desk/useApproachTask.ts`, `shared/src/approachTask.ts`) | lock on screen, released ids, localStorage, reads and publishes under way | buttons, publish, read at boot and on notice, adopt, reconcile | task server, event stream, panel | late answers, lost publishes, reloads, a button whose write is slow | tab and server come to the same card |
| Desk events (`desk/deskEvents.ts`, `frontend/src/desk/deskEventStream.ts`) | numbered buffer, open streams, last event id of a page | publish, replay, reconnect, expiry | desk | lost and slow streams, restarts, events that must not be replayed | once, in order, no hole, a relayed press never replayed |
| Scout flights (`scout/scoutGate.ts`, `scoutHttp.ts`, `scoutEmptyTank.ts`, `scoutSorties.ts`, `scoutCollect.ts`, `scoutCollectReserve.ts`) | gate, runs, takeoff rows, credits spent | start by request or in the background, search, hydrate, triage, save, settle | tank, ledgers, quotas, X | dropped requests, failures anywhere, restarts, limits checked before an await | one run at a time, limits kept, takeoffs settled, runs end |
| Scout tank and history (`scout/scoutCache.ts`, `desk/dismissalStore.ts`, `skipStore.ts`, `expiredStore.ts`, `expirePass.ts`, `historyHttp.ts`) | saved snapshot, ledgers | save and merge, prune, mark, dismiss, skip, expire, undo | flights, desk | a flight saves what was consumed meanwhile; a restart between row and prune | a consumed card does not come back |
| Marks, streak, missions (`desk/gamification.ts`, `gamificationXp.ts`, `interactionSync.ts`, `interactionStore.ts`, `interactedHttp.ts`, `dailyMissions.ts`, `statsWorker.ts`) | interaction rows, a ledger file, claims | mark, credit, note a failure, replay, sample and bonus, claim | webhook, worker, file lock | three processes on one file; a credit that fails after its row; overlapping ticks; crashes with the lock held | a mark is paid once and at its own tier, nothing noted is forgotten |
| File lock (`platform/fileLock.ts`), used by ledger, memory and profile | a lock directory | take, wait, steal a stale one, give up, release | ledger and its adoption | waiters that look at its age and remove it later; nested locks; a holder that dies | one holder until a lock is kept for a minute; everyone ends |
| Own posts and webhook (`webhook/src/handler.ts`, `desk/ownPostStore.ts`, `ownPostSeen.ts`, `ownPostCatchUp.ts`) | events heard, own posts, sightings, usage | receive, dedupe, store, meter, pause, catch up, sight, sweep | task server, ledger, quotas, X | repeated and reordered deliveries; two processes on the same tables; a limit read before an await; a death between two statements | a post is metered once, a deleted one stays out, a sighting settles |
| Billing (`billing/*`) | billing row with a watermark, usage rows | checkout, confirm, events, cancel, quotas | Stripe, flights | events out of order and twice, answers awaited in a handler and written late | the row tells the newest state; what has ended stays ended |
| For You (`for-you/*`) | suggestions, days that ran, mail sent | daily pass, mail, done, skip, dismiss, suppress, refill | worker, beats, Resend | overlapping ticks; a skip while the model is asked; a pass or a mail whose answer is lost | one set and one mail a day; a skipped theme stays out; a card settles once |
| Desk beats (`desk/deskBeats.ts`) | a row per day | a reply marked, an original posted, fork chosen, card done | desk, For You, webhook | moves before and after the fork is chosen | a fork is taken by its own move, made after the choice |
| Scout evidence (`scout/scoutEvidence.ts`, `scoutEvidenceRecord.ts`, `scoutEvidenceReconcile.ts`; `memory/interactionMemoryProjection.ts`, `ownedMemoryNotes.ts`) | a take per reply, a note per thread, three cursors | record a take, write and verify a note, pass over the tables a page at a time, repair | marks, own posts, discovery, profile | adapters and passes interleave at every await and die there; two passes share a cursor | a bare address is no take; every confirmed reply gets its take and its note |
| Scout profile (`scout/scoutProfileStore.ts`, `scoutProfileProjection.ts`) | a file per user, the revision of the evidence | rebuild by a hook or a read, repair, publish, read | evidence, file lock | slower rebuilds with older snapshots, changes while one runs, notifications suppressed for a whole process | a read is true and as new as the evidence it began with |
| Sessions and sign-in (`auth/*`) | sessions, rate windows | sign in, touch, revoke | every handler | expiry during use | a revoked session stays out |
| Memory and knowledge (the rest of `memory/*`) | embeddings, receipts | write, project, rebuild, query | history, flights | one rebuild shared by its callers | an index of what is stored |
| X client, planning, filters, discovery (`x-api/*`, `scout/queryPlan.ts`, `threadFilters.ts`, `threadTriage.ts`, `desk/replyDiscover.ts`) | cursors, caches | search, look up, filter, rank | flights | outcomes of foreign calls | heuristics over text |
| Panel (`extension/src`) | its stream, a view of the rows | press, watch | task server | its own reconnects | shows the rows |
| Voice, circle, profile, analytics, pages | reports and layout | ingest, score, show | - | - | - |

`PROJECT.json` lists the same parts with the state of their models, and under `hazards`
the places where an order of events, a failure or a restart could break them.

## Modules

| Module | Models |
|---|---|
| `ApproachPhase` | the ladder and the choice of the next card, as operators |
| `ApproachServer` | the server's rows and everything that writes them; the desk is free: it may publish anything a desk could |
| `ApproachDesk` | tabs, calls, notices and panel presses; extends `ApproachServer`, whose actions it uses, and puts tabs in place of the free desk |
| `DeskEvents` | numbering, buffer, streams, replays and reconnects |
| `ScoutFlight` | gate, takeoffs, credits, the collect loop, the tank and what the desk does to it |
| `StreakXp` | days, streaks and the XP of a tier, as operators |
| `MarkLedger` | interaction rows and their ledger, shared by the API, the webhook and the worker; extends `StreakXp` |
| `LockPromise` | what a caller of `withFileLock` may rely on |
| `FileLock` | the lock directory, from call to call of the file system |
| `LedgerAdoption` | the adoption of the ledger that predates accounts, a client of the lock; extends `FileLock` |
| `Subscription` | the billing row, Stripe's events and the handlers that ask Stripe |
| `OwnPosts` | the posts of a user as the webhook, the catch-up and the extension report them |
| `DeskBeats` | the ladder of a day, as operators |
| `ForYou` | the daily pass, its mail, the cards and what the operator does with them; extends `DeskBeats` |
| `ScoutEvidence` | the takes of a user and the notes that back them, adapters that record them and passes that find what was missed |
| `ScoutProfile` | the profile file, its rebuilds by hook and by read, in several processes |
| `MC...` | values for TLC |
| `ApproachProofs` | theorems about `ApproachServer` and `ApproachDesk` |
| `ScoutProofs` | theorems about `ScoutFlight`, `DeskEvents` and `ScoutEvidence`, which share no variable |
| `MarkLedgerProofs`, `LedgerAdoptionProofs`, `SubscriptionProofs`, `OwnPostsProofs`, `ForYouProofs`, `ScoutProfileProofs` | theorems about the module each is named after and the modules that one extends |

Operators whose comment begins with *What could go wrong* are broken forms of the
definition that follows them. Nothing in the models uses them; each shows that a property
notices the mistake.

### Approach: `ApproachPhase`, `ApproachServer`, `ApproachDesk`

A card is a thread id (Scout) or a suggestion id. A lock is the record of the code
(phase, card, surface); `Lock` leaves out what no reader accepts. `NextInventoryCard`,
`AdvanceScout` and the others follow `approachPhase.ts` case by case; the desk's copy in
`deskPhase.ts` makes the same decisions, so both halves of the model use one. What is on
offer (`Inventory`) is computed from a `Stock`: tank, suggestion rows, cooldowns, gate.

Node runs one handler at a time between two awaits. `PutLock` is the whole PUT handler
(task, ledger, card, next, state, in that order and without an await), `GetLock` the part
of the GET that writes. A panel press is two steps, `NextBegin` and `NextFinish`, because
`advanceApproachOnServer` reads the task, awaits the stock, and then writes the step from
the task it read. Time is the number of own posts made: the only instants the code
compares are a post's and the task row's. `PostOriginal` and `PostReply` are X,
`SeeOwnPost` and `SeeReply` the wake calls, which may come early, late, again or never.
Rows expire after a day (`RowsExpire`). A press whose stock cannot be loaded is dropped
(`NextFail`), and a restart of the process drops every press it was handling at once
(`ServerStops`).

In `ApproachDesk` each call is a message: `Publish` puts one under way, `ServerTakesPut`
delivers it, `SetRead`/`ServerAnswers`/`TakeAnswer` are a read, its answer and its
arrival. `Reliable` says whether calls may be lost and overtake each other. A button with
a write (`PressWrite`, `PressWritten`) is two steps, Next is one. `Rendered` says that a
tab runs its publishing effect between two of its events, which is what React does.

### Events: `DeskEvents`

An id is a boot and a number. `Publish` appends to the buffer unless the event is live
only, writes to every open stream and drops those that are too slow. `Reconnect` is the
browser's own reconnection with the header it has, `Replace` a new EventSource of the page
with its id in the query. `Age`, `Restart`, `Lose` and `NewPage` are what may go wrong.

### Scout: `ScoutFlight`

A run's record holds what `runScoutCollect` keeps between its awaits: the bucket being
filled, the reserve, what it has seen, the conversations blocked and found to be bait, the
cards that qualified, and the handler's own count of them (`reported`). One action is one
stretch between two calls: `Search` asks the credit gate and counts the search,
`SearchAnswers` charges and admits, `Hydrated` charges without asking, `Triaged` takes
bait out, adds what qualified and saves. `Land`, `Fail` and `IndexFails` are the three
ways to end, each with what the handler does to the takeoff row and the gate. `Abort` is
the browser closing the request; a background flight has none. Which posts a search finds,
which the filters keep and what triage thinks of them is left open. `Consume` and
`PruneConsumed` are the two halves of a mark, dismissal or skip: the row, and after an
await the tank.

### Marks: `StreakXp`, `MarkLedger`

A mark is a thread and an instant; an instant has a UTC day. `Marked` is
`markInteracted` with the trim that follows it in the same transaction. A credit is two
steps, `Load` (lock taken, file read or seeded, new ledger computed) and `Write` (renamed
into place, lock released); every process goes through them, with a mark, a bonus or a
mission as its `job`. `Fail` is the credit that throws; what follows depends on the job:
`Note` puts the instant on the row, `NoteLost` is that write failing too, `Unclaim` gives
the mission back, `SurviveMark` and `SurviveBonus` go on with the tick. A tick works on
what it listed (`tick.snap`), whatever the rows have become, and `ClearMark` removes only
the instants it replayed. `Crash` takes one of the three processes with everything it was
doing; a lock it held becomes an `Orphan`. A waiter removes that in two steps, as the code
does: `FindOrphan` (the `stat` that sees an old lock) and `StealDir`, an await later, the
`rmdir` of whatever is there by then. So two waiters may both go for the orphan, the second
removes the lock of the first, which is at work, and both are inside; `robbed` remembers
that. Two workers stand for two ticks that overlap. The file's lifetime XP is kept apart for each mark, bonus and mission, so that a payment made twice shows.
`Brings` bounds the replies a request or an event may report, `Parent` is the thread of each; a
reply may be reported some instants after it was posted.

### File lock and adoption: `LockPromise`, `FileLock`, `LedgerAdoption`

`FileLock` has one step for each awaited call: `MakeDir`, `StatDir`, `StealDir`
(`rmdir` of whatever is there by then), `WakeUp`. `Patience` and `Limit` stand for the 50
and 200 tries. `LedgerAdoption` is what runs inside: the two looks at the files under the
marker's lock, the marker, the copy, and the credit under the ledger's own lock, inside
which a bonus or a mission resolves the path once more (`Nested`). Of the ledger's own
lock only the promise is used. `PromiseSpec` says that the directory implements
`LockPromise` with `holders <- Inside`: one caller inside at a time, until a caller that is
inside is robbed of its lock. Only a lock that has been kept for more than a minute starts
that, but its age alone does not end the promise: a caller that dies inside leaves its
lock, which ages and is stolen, and whoever comes in then is alone. The promise ends where
two waiters both find the directory stale and the second removes the lock the first has
just made, or where a holder is merely slow. `Raid` is the same for a ledger's own lock.

### Billing: `Subscription`

`time` is the second of the last change at Stripe and the stamp of its event. `Change`
is a change with the event it sends; `Hear...` a delivery, first or repeated. The row's
stamp (`water`) turns older events away. `HearCompleted` and `Confirm` ask Stripe and keep
the answer in `task`; `Activate` writes it later, when the row may have moved on. A call
that fails answers 500 and leaves the event to be sent again.

### Own posts: `OwnPosts`

The webhook process and the server process share the tables, so they interleave between
statements: `HearCreate`, `Remember`, `Store` are one handler of the webhook, `StoreNext`,
`RememberNext` one turn of a catch-up. Within the server only an await lets another
handler in (`Free`). A catch-up reads its allowance, awaits X (`Look`), and asks the gate
again when the answer comes (`HearRead`). The sweep over the extension's sightings is
`Select` (which are due), `Confirm` (the UPDATE), a `Publish` for each post confirmed, and
`Flag`; the webhook may store between any two of them, and the server may end between any
two of them. If it dies after the UPDATE and before a post's turn in the publishing loop,
nothing tells the desk: the next sweep takes only what is not confirmed.

### For You: `DeskBeats`, `ForYou`

Time is the UTC day. A tick reads the skips, asks the model (`Begin`), closes the open
cards and reads the skips again (`ChatPicks`), inserts what they leave (`InsertSet`),
records the day (`RecordRun`) and mails it (`Deliver`, `MailAnswered`). All instants it
writes are of the moment it began. In the server, `Press` settles a card at once or awaits
its evidence first; a skip then suppresses the cards of its theme and may refill an
original (`Suppress`, `Refill`), a done card advances the ladder (`BeatCard`). The worker
and the server interleave between statements, two ticks only at their awaits.

### Evidence: `ScoutEvidence`

An element of `Marks` is an adapter: a reply marked by hand with its text (`manual`), by
its address alone (`url`), or found by the webhook or by discovery (`found`), and `Repair`,
the part of each discovery that writes the notes which are missing. `MarkManual` and
`MarkDiscovered` are a mark with the take recorded in the same transaction, `WriteNote` the
note under its lock, `TellTake` the word the adapter then gives of it. `Merged` is what a
note keeps of what was there. A pass of a process is `Begin` (the names of the notes are
listed once), and for each scope `Page`, `Turn`, `Confirm`, `Verify`, `Write` for each row,
and `TurnPage`. `NoteVerdict` is `verifyOwnedReplyNote`. Adapters and passes die
(`AdapterDies`, `PassDies`), and writes fail (`WriteFails`). `Window` is the 200 newest own
replies that the repair looks at (`desk/replyDiscover.ts:362`): `RepairNote` writes no note
for an older one, and `NoteComes` asks for none. `Casts` are the adapters and processes that
take part in a behaviour together; the others stand aside from the start.

`CreditSettles` and `RowsSettle` speak of the `Straight` replies, which were marked on the
thread of the post they answer. Of a reply to a reply the code promises nothing: see below.

Two passes write over each other's cursor, and yet no reply is missed while passes go on,
for two passes and for any number. A pass writes a cursor only when it has read a page:
the last row of that page, or null after a short one. So a pass that writes a cursor beyond
a reply began its page before that reply, and has read it, or began beyond it, from a
cursor that another write had left there; following these back, some pass has read every
reply on the way. A cursor does not stay beyond a reply for ever either: it moves through
finitely many rows, a page that finds it at the end is short, and null sends the next page
to the beginning. The cast `MarkedByAddress` has two processes, whose passes repeat without
bound, and shows the case TLC can reach.

### Profile: `ScoutProfile`

A job is the hook or a read of a user in a process. `Record` is a change of the evidence
with its notification, `Enter`, `Look` and `Publish` a rebuild under the lock of the file,
with a snapshot at the beginning and a new one when the evidence has moved. `ReadBegins`
takes the revision and `ReadStored` looks at the file an await later. Of the lock, what
`LockPromise` says is used; the profile of given evidence is that evidence, since
`reduceScoutProfile` is a function of its snapshot. While a repair awaits, the
notifications of its whole process are suppressed (`Suppressed`), those of other users
too: `Hushed` is a change of one user's evidence recorded during the repair of another's,
for which no rebuild is scheduled. `Readers` bounds where whose profile is read, `Changes`
how often the evidence of each user changes. `log`, `hooked` and `failed` are histories.

## Runs

All runs must pass.

| Run | Question | Bounds and why they are enough |
|---|---|---|
| `approach_server` | do the rows follow the task when presses, publishes, reads, own posts and expiry interleave; is a released card ever served; is what is marked detected real and new | two presses in flight, so that one is written over the other; a scout, a reply and an original, so that every kind of card follows every other; one post, before or after a card came up |
| `desk_settles` | do tab and server come to the same card, and never rest on different ones | two moves (a press in the panel, a button, a reload or a drop) with three publishes and an extra read under way; fairness as below |
| `desk_implements` | is the tab the desk `ApproachServer` assumes | calls lost and reordered, a gate that comes and goes, a server restart |
| `desk_events` | is each event given once, in order, without holes, and in the end | three events to a boot, two boots, a buffer of two, so that the buffer overflows and ids of an old boot are presented to a new one; three losses |
| `scout_flight` | do flights keep their limits, settle and end | two flights, so that they race; two posts of one conversation, so that bait can take back what was saved; limit and pool of one; two days; one restart |
| `mark_ledger` | is every mark paid once and at its tier, do the books balance, is what is noted kept, and credited in the end | a reply marked by a request and one reported by the webhook, on two threads and two days, one row kept, so that the second mark trims the first; a request, an event and two workers whose ticks overlap, a mission and a bonus beside them; two faults, which failures, crashes and overlaps of ticks count against together, so that a credit fails and its note is lost, or a lock is left behind and two waiters go for it (1.7 million states) |
| `ledger_adoption` | is the old ledger adopted once and nothing overwritten; is the directory the lock it is taken for; does every request end | two requests of one user, one of them nested, and one of another; a waiter sleeps once, looks at the lock's age at its second try and gives up at its third, so that both stealing and giving up are reached; one death, which may leave any lock at any step, also between the two writes of the adoption (370 thousand states) |
| `subscription` | does the row tell what Stripe knows | two subscriptions, a listed and an unlisted price, four changes, so that an old subscription ends after a new one began; a redelivery, a confirmation, a failed call |
| `own_posts` | is a post metered once, is a deleted one kept out, is the allowance kept, is every sighting settled and a flag raised too early corrected | two posts and a limit of one, a catch-up beside the webhook, one of them seen by the extension and swept; two days, one death of either process between any two statements (1.3 million states) |
| `for_you` | is there one digest, do skips and settled cards stay, is the ladder true | two ticks, two requests, two originals of one theme and a reply; two batches, a refill, two days, three moves, one fault |
| `scout_profile` | is what a read returns true and fresh, is a profile ever replaced by an older one, does a change reach the file | two users, so that the repair of one may silence a change of the other; the hook installed in one process, a read in the other; three changes of the first user, so that one comes while a rebuild awaits and one when it looks again, and one change of the second; two snapshots; one fault (186 thousand states) |
| `scout_evidence` | is a bare address no take, is credit given where it is due, do rows come to rest, does every confirmed reply get its take and its note | two replies of one thread, the second of them to a reply in it, in three casts: one found and the other marked by its address; one marked by its address and found; one marked by its address, with two processes whose passes share the cursor; the repair and repeated passes with pages of one row in each; a window of one reply; one fault (1.9 million states) |

`desk_implements` checks a refinement: under the identity mapping on the server's
variables, every behaviour of `ApproachDesk` is one of `ApproachServer`. So what is proved
of `ApproachServer`, for its free desk, holds for the tabs as modelled. `ledger_adoption`
checks the other one, of `LockPromise` by the directory.

The type invariants are not among the properties of the runs; all of them are proved.
`desk_settles` and `desk_implements` have one tab and few calls: the theorems have neither
bound.

Some properties are conjunctions of smaller ones, so that one question is asked once:
`LimitsKept` (one flight, takeoffs, credits), `SortiesTrue`, `OneDigest`, `SightingsEnd`,
`NothingMissed`. Stated and proved, but of no run: `PanelInStep` (`ApproachServer`),
`NeverReplayed` (`DeskEvents`), `KnownWasStored`, `ConfirmedStands` and
`ConfirmedWasStored` (`OwnPosts`), `FileIsTrue` (`ScoutProfile`).

`CHECK_DEADLOCK FALSE` stands in the configurations whose environment acts a bounded
number of times: when it has, nothing is left to do.

### Histories and exemptions

Some properties hold but for what the code gives up. The models remember when it did,
in variables nothing reads:

| Variable | What the code gives up |
|---|---|
| `robbed` (`FileLock`, `MarkLedger`), `raided` (`LedgerAdoption`) | a waiter looks at the age of the lock and removes it an await later, when it may be that of a caller at work (`platform/fileLock.ts:19-26`): two are inside, and one writes over the other |
| `missed` (`Subscription`) | an end whose subscription the row does not know yet is not found (`stripeSubscriptionStore.ts:136`), and its stamp is not kept |
| `doubled` (`Subscription`) | two sessions may be handed out before either is completed; one row cannot tell two subscriptions |
| `dropped` (`OwnPosts`) | a post remembered by a webhook that died before storing it is lost to later deliveries |
| `overlapped` (`OwnPosts`) | the allowance is asked before an await, and by two processes |
| `slipped` (`OwnPosts`) | a post stored between the two statements of the sweep is confirmed and not published, and so is one confirmed by a server that died before the loop that publishes (`ownPostSeen.ts:132`, `:142`) |
| `slipped` (`ForYou`) | a skip between the two statements of an insertion is not seen; the listing hides the card |
| `unbeaten` (`ForYou`) | a done card whose beat failed answers 200 all the same |
| `hooked` (`ScoutProfile`) | a change recorded while another user's profile is repaired schedules no rebuild (`scoutProfileProjection.ts:102`, `:49`); it reaches the file with the next change or read. `hooked` is the last revision that did schedule one |

Without these exemptions TLC finds `OneAdopter`, `NothingOverwritten`, `LedgerGrows`,
`NotedUntilCredited`, `SightingsEnd` and `ChangesProjected` violated in the runs' own
instances. What `PaidAtMostItsTier`, `BooksBalance`, `StreakIsEarned` and
`NotedIsCredited` say holds with two callers inside as well.

### Stated, and not kept by the code

Nine properties are stated in the modules because a document, a comment or a test of the
repository says them, although TLC finds behaviours of the code that break them:

| Property | What happens |
|---|---|
| `QuietAgreement` (`ApproachDesk`) | Skip in the panel on the last scout card: the tab, told to read, normalizes the server's empty Collecting lock back to that card, and both stay there (`useApproachTask.ts:577`) |
| `LockedUntilPressed` (`ApproachDesk`) | Skip on the desk, whose write is slow: the tab moves on meanwhile, and the Skip then leaves the next card too (`useApproachTask.ts:819`) |
| `AdvanceStands` (`ApproachDesk`) | a publish under way while the panel moves the task takes the task back to the released card (`scoutApproachLock.ts:337`) |
| `PressMovesItsOwnCard` (`ApproachServer`) | a press read before its await moves a task that has left the card it names (`approachServerNext.ts:157`) |
| `LandedTakeoffIsKept` (`ScoutFlight`) | a card saved and shown, then found to be bait by a later batch: the run ends with count zero and its takeoff is refunded (`scoutHttp.ts:388`) |
| `EveryCreditSettles`, `EveryRowSettles` (`ScoutEvidence`) | a reply to a reply is marked on another thread than that of its parent: the scopes of a pass look for its note on different threads and give and take its credit for ever (`scoutEvidenceReconcile.ts:293`, `:249`, `:8`); in the run's own instance, whose second reply is one |
| `CreditIsBacked` (`ScoutEvidence`) | a note written later for another reply of the same thread and day replaces the one a credited take had, and credited takes are not looked at again (`scoutEvidenceReconcile.ts:87`); instance `MarkedByHand` with `OneThread`, cast `Alone` |
| `OnlyEnriched` (`ScoutEvidence`) | a pass that listed the names of the notes before a note was written takes back the credit its adapter has just given (`scoutEvidenceReconcile.ts:8`); instance `MarkedOnce` with `Nested` and a reply known, cast `Alone` |

No run has them; what the runs check instead is what the code does promise
(`CardAgreement` for every lock with a card, `CountedTakeoffKeptCards` for a takeoff that
counts, `CreditSettles` and `RowsSettle` for the straight replies). `MCScoutEvidence` keeps the definitions of the instances named above.

Three hazards have no property but one of these, which no run can have: a publish that
carries no version (`scout/scoutApproachLock.ts:337`; `AdvanceStands`), a Skip that
awaits its write (`useApproachTask.ts:819`; `LockedUntilPressed`), and a reply to a reply,
whose note the scopes look for on two threads (`scout/scoutEvidenceReconcile.ts:293`;
`EveryCreditSettles`, `EveryRowSettles`). Two more have none at
all: a boot read given up after four seconds and answered late
(`useApproachTask.ts:482`), which the tab takes as it takes any other, and a restart
between the row of a mark and its credit, which leaves nothing for the worker to credit
(`desk/interactedHttp.ts:359`).

## Fairness

- `DeskFairness`: calls are answered or fail, an effect runs after a render, a dropped
  stream reopens (the page reopens it with a backoff), a written press settles, a handler
  finishes. Buttons, drops and reloads have none. `desk_settles` uses it with
  `Reliable`, because a lost PUT is never sent again and nothing is promised then.
- `EventsFairness`: a lost stream is reopened and a frame on an open one arrives.
- `FlightFairness`: a run in progress takes a step. Calls to X are
  aborted after 12 or 20 s (`x-api/xApi.ts:114`), calls to the model after 60 s
  (`platform/deepseek.ts:128`), and the waits between retries are short.
- `MarkLedger`: each process goes on with what it has begun (`Going`, which includes looking
  at an old lock and removing it) and the worker ticks every hour; a process that waits for
  the lock gets it if it stays free, and its attempts end (`fileLock.ts:28`). Marks and
  requests have none.
- `LedgerAdoption`: calls of the file system return and timers fire.
- `Subscription`: an event that is not acknowledged is delivered again, which is Stripe's
  side of the protocol, and an answer of Stripe comes or fails.
- `OwnPosts`: the clock, the sweep every minute (`setInterval`) with the turns of its
  publishing loop, and what awaits nothing.
  X owes nothing, so nothing depends on its delivering.
- `ForYou` states safety only, and no fairness.
- `ScoutProfile`: a rebuild that has begun goes on (its timers fire and what it awaits
  comes or fails), `WF` of `Run` for each job. Nothing makes evidence change or a read
  begin.
- `ScoutEvidence`: a process goes on with its pass and begins the next, since discovery
  runs every hour (`PassStep`), and the repair that is part of it writes what is missing
  (`Repairs`). In the cast of two processes both do. No other adapter has to finish.

## Proofs

All proofs are for every value of the constants under the named assumptions of the
modules: `CardsAssumption`, `RankAssumption`, `ServerAssumption`, `NullAssumption`,
`DeskAssumption`, `NoLockAssumption`, `StreamAssumption`, `FlightAssumption`,
`LockAssumption`, `AdoptionAssumption`, `LedgerAssumption`, `ProcsAssumption`,
`NoneAssumption`, `BillingAssumption`, `OwnPostsAssumption`, `ForYouAssumption`,
`NoCardAssumption`, `ProfileAssumption`, `EvidenceAssumption`. These ask for finite sets
where cards are counted, bounds that are numbers, maps from one set of the module to
another, and null values that are not members of what they stand beside. TLC evaluates
them on the values of the runs.

Every invariant and every action property that a run checks is stated by a theorem.

**`ApproachProofs`, the server.** `StepServesFreshCard`: a press that moves the desk leads
to a card that is neither released nor the one it was pressed on, for every stock and
lock. From it, `IInv`, the conjunction of the type invariant and the safety invariants of
the server, is inductive as it stands: the rows are rewritten together, from one lock, by
whichever writer comes. `TypeCorrect`, `RowsInStep` (with the preview),
`DetectionsAreTrue` and `NoReleasedCardServed` follow.

**`ApproachProofs`, the tabs.** `DeskInv` is `IInv` and `TabInv`: every lock a tab shows,
keeps, sends or is told of is one a desk can be on, and a publish names no more of a next
card than the free desk of `ApproachServer` does. Both halves are needed: what a tab sends
comes from what the server answered, and what the server has on its rows from what a tab
sent. `TabsAreTheDesk` is the refinement of the server's specification, for any number of
tabs, calls lost or reordered, and restarts; with it `TabsKeepTheRows` carries over what
is proved of the free desk. A restart that drops several presses is one step of the tabs'
specification and had none in the server's, which the run with a single request hides;
`ServerStops` is that step. `DeskTypesCorrect` is the type invariant.

`TabAndServerAgree` is `CardAgreement` for every number of calls under way, and
`TabAndServerAgreeOnCards` the same for cards alone, whatever gates come and go. The invariant (`AgreeInv`) says
of every state, not only a quiet one, that a tab which published has had its boot answer
(`PageInv`), that the last publish under way, or the desk's lock on the server, is the one
the tab made last (`SentInv`), and that a tab which is not still to be told of the server's
lock has taken it (`TakenInv`). The theorems have hypotheses: one tab (`OneTab`), calls
that are not lost (`Reliable`), and for For You no gate (`NoGate`). They are needed, as TLC
shows: with two tabs, or a gate over For You, `CardAgreement` is broken.

**`ScoutProofs`, flights.**
- `FlightTypeCorrect` (with the bounds of the loop) and `GateHeldByOneFlight`, each
  inductive as it stands.
- `TakeoffsStaySafe`: the limit is checked before an await and the row written after it,
  so `TakeoffsInLimit` alone is not inductive. The invariant adds that a run which passed
  the check and has not recorded its takeoff has room for it (`RoomForTakeoff`), which
  rests on the gate, and that a run has at most one row and none before it took off
  (`TakeoffRows`).
  `TakeoffLimitHolds` and `NoTakeoffUnsettled` follow.
- `CountedTakeoffsFilledTheTank`: through `CoolIsSaved`, the cards a run counts are in the
  tank, or consumed or expired, from the moment it counts them.
- `OverdraftIsBounded`: `CreditInv` ties what is spent to the stage and the attempts of
  the run in progress; before each search the pool had something left.
- `PlanLimitsHold` and `TakeoffsTellTheirRuns` are the conjunctions the run checks.
- `ConsumedNeverReturns`: an action property, from the merge in `saveScoutCache`.

**`ScoutProofs`, events.** `OnceInOrder` and `NoGap` are not inductive: whether a replay
brings an old event depends on the ids a page may present, and whether it leaves a hole on
the buffer being an interval of numbers. `EventsInv` adds that the buffer holds
events of the running process in order (`BufferInv`), that the id a page will present is
the last it heard (`HeardInv`), that a wire is ordered and newer than all the page heard
(`OrderInv`), and that no buffered event is skipped between the last heard and the last on
the wire (`WireInv`, `GapInv`). `EventsNeverReplayed` needs in addition that whatever is
buffered was kept for replay (`KeptForReplay`).

**`ScoutProofs`, evidence.** That a mark by address becomes no take (`UrlIsNoTake`) depends
on what adapters and passes have in hand between two awaits. `TypesHold` says that a mark
in hand is one of the adapter's and a row in hand one of the pass's scope (`MarksInHand`,
`RowsInHand`); `EvidenceInv` that a reply with a take is backed, by an own post that is stored or by an adapter with its
text that has begun, or stands on a thread with a note from before replies were named in
them (`RowsBacked`), that a note names a reply so backed (`NotesBacked`), and
the like of the history and of what a pass has read (`HistorySound`, `PassesSound`).
`EvidenceInvariance` proves both together. It is inductive because what backs a reply is
never taken away: an own post stays, and so does an adapter's having begun.

**`MarkLedgerProofs`.** `PaidAtMostItsTier`, `BooksBalance` and `StreakIsEarned` speak of
the file alone, and a process computes the file it will write one step before, from rows
that others change meanwhile. `IInv` has the types (`TypeInv`), that whoever holds the
lock is about to write, and until a process is robbed nobody else is (`LockInv`), that
what was made was marked (`MadeInv`), what rows (`RowsInv`), jobs and snapshots
(`ProcsInv`) know is of what was made, that the file and any ledger about to replace it
are sound (`LedgersInv`), and that one request at a time credits a mission, which is paid
only while it is claimed and no longer being credited (`MissionInv`). Lemmas about runs of
days, stated without recursion, carry the streak and the tier. The theorems are for any
number of threads, days, requests and workers, whose ticks overlap. That the file is sound
does not rest on the lock: each ledger is sound by itself, so `MarksPaidAtTheirTier`,
`LedgerBooksBalance` and `StreaksAreEarned` hold however many write at once. What rests on
it stands under `~robbed` in the invariant: that a ledger about to be written has grown
from the stored one, and that what a tick has replayed is credited. `LedgerOnlyGrows` and
`NotedStaysNoted` are the action properties that follow, over steps before any process was
robbed, whatever died with the lock and was stolen from.

**`LedgerAdoptionProofs`.** The invariant (`AlwaysGood`) has what always holds (types,
tries, places, owners) and what holds while no caller has been robbed: whoever is inside
the critical section made the directory (`LockInv`), where it is tells what the marker and
the files are (`AdoptInv`), and what a writer is about to write contains what it will
replace (`CopyInv`). A caller that dies between the marker and the copy leaves the marker
and its lock; that lock ages and is stolen, and whoever enters finds the marker and adopts
nothing. These runs are part of what `AdoptedOnce` and the action property
`AdoptionAndCreditsStand` speak of. `LockKeepsPromise` is the refinement of `LockPromise`:
entering needs the directory, so nobody else is inside, or a caller has been robbed.

**`SubscriptionProofs`.** `RowTellsStripe` speaks of states in which nothing is under way,
and so says nothing of the steps to them. The invariant (`AlwaysKnown`) says of every state what the
newest event of a subscription tells (`LogInv`), that an ended one stays ended
(`LifeInv`), that only one is alive (`AloneInv`), what an answer on its way may write
(`TaskInv`), what a row whose stamp is that of the newest event must tell (`RowInv`), and
that nothing of an ended subscription can be applied to a row that was told (`GoneInv`).
`EndedNeverCounts` and `RowIsTrue` follow.

**`OwnPostsProofs`.** `PostsChargedOnce`, `KnownPostsWereStored`, `DeletedPostsStayOut` and
`AllowanceIsKept` each need to know who holds a post: that a post is remembered before the
webhook meters it, that what a catch-up counts is what it found plus what it stored, as
long as nobody else stores. `ConfirmedSightingsStand` and `ConfirmedPostsWereStored` are
proved and not part of a run.

**`ForYouProofs`.** `DigestIsOne` rests on `SetsOK`: a tick about to insert has closed the
sets before, and no other tick can be there. `RowStep` says how any step may move a row,
and `CardsSettleOnce` and half of `VetoIsKept` follow from it; the other half is that an
insertion leaves out what was skipped when the tick last read, unless it slipped.
`LadderStaysTrue` needs that a fork is chosen only after an organic reply.

**`ScoutProfileProofs`.** `FileIsTrue` alone is not inductive: what a rebuild will publish
is its snapshot, taken an await before. `IInv` says that who works on a file holds its lock
(`LockInv`), that the log tells what the evidence was at each revision (`LogInv`), that
files are true (`FilesInv`), and that the snapshot of who holds the lock is true, and no
older than the file or than the revision its read began with (`JobsInv`).
`FilesStayTrue`, `ReadsAreFresh` and the action property `FilesNeverOlder` follow, for any
number of users, processes and jobs.

Only model-checked: liveness (`Convergence`, `EventArrives`, `FlightEnds`,
`NotedIsCredited`, `RequestsEnd`, `PaidIsServed`, `SightingsEnd`, `ChangesProjected`,
`CreditSettles`, `RowsSettle`, `NothingMissed`). Fairness and ENABLED are outside the
prover's reach.

## What the models leave out

- Approach: the task's version counter (no reader decides by it); the rows of one handler
  are several SQLite statements without a transaction, taken as one step because no other
  handler runs between them and a process that dies there is not modelled; thread matching
  by conversation (a reply matches its thread); detection by the tab, the reply pace,
  `finishDetectedReply`; that a tab holds its publish back while the card of its lock is not
  in its listing (`useApproachTask.ts:713`): every card is listed; a press kept for a page
  not yet mounted (`pendingApproachNext`); two commits in one render. The runs have one tab; the theorems any number, except where
  they say otherwise.
- Events: the frame sent on opening has no id and moves nothing; heartbeats; the checks and
  detections of the wake endpoint, which are `ServerHears` in `ApproachServer`.
- Scout: how queries are planned and pages walked; authors (every card has its own);
  capacities of reserve and snapshot; a save that fails (that of the
  snapshot is logged and ignored; that of its filters, after landing, ends the request with
  the handler's own count); a plan
  that changes, the turn of a month; the expire pass is one step.
- Marks: achievements and levels, the sample after one hour, retries of the memory
  projection, discovery's search. A lock looks old only when its holder has died: no live
  holder keeps one for a minute. No thread is marked twice in one instant.
- File lock: a directory that cannot be made for another reason than that it is there.
- Billing: the portal's own pages, grants and admins, the first week, what a period ends
  with; two events of one second, for which Stripe gives no order.
- Own posts: setting the subscription up and resuming it, pruning of old rows, reposts,
  the export. The two keys of a post (of its event and of itself) are one, and the SELECT
  and INSERT of an upsert one step. A wake may be lost.
- For You: a day is the unit of time (a card lives two days, all skips are within the
  fortnight that counts); the operator has samples and an agenda; the listing's filters on
  marked threads, own posts and remixes; the hourly rate of refills is a bound; evidence
  rows; a row of origin `extra`, which nothing writes. Statements between which nothing
  that matters can come are one step: the closing of a set and the second reading of the
  skips, the record of a run and the reading of the mail's settings, a suppression and the question
  whether to refill. That Resend delivers an idempotency key once is its own promise.
  Dying in an await is like a call that fails.

- Evidence: one UTC day, so that a thread has one note; deleted own posts, replies to
  oneself, marks that bring no reply id. What discovery begins with is taken as current.
- Profile: what it computes from the evidence; a profile stands for the evidence it was
  computed from. The lock is `LockPromise`.

### Not modelled

Search, filters, triage, discovery, voice, circle, profile, analytics and memory retrieval
are heuristics over text or reports; what they return is a free choice where another model
needs it. Pages and the panel's view are layout. Sessions are rows that single statements
write and check. The panel's lock events are a notification without content, after which
the panel reads the rows.

## Plan

Done: the ladder, the task server, the tab, the event stream, Scout flights; the file lock
with the adoption; marks and their ledger; billing; own posts; For You and the beats;
Scout's evidence and its profile. Every invariant and every action property of the runs
is proved, with the refinements of `ApproachServer` by the tabs and of `LockPromise` by
the lock directory.

What is left, in the order of what it would add: the panel's stream and its reads;
sessions with their touch and expiry; the memory rebuild that several callers share;
discovery.
