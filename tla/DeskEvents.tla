------------------------------ MODULE DeskEvents ------------------------------
(* The desk's event stream (server/src/desk/deskEvents.ts and                 *)
(* frontend/src/desk/deskEventStream.ts), for the tabs of one user.  The      *)
(* server numbers what it publishes, keeps the last few events for ten        *)
(* minutes and writes each to every open stream.  A tab remembers the number  *)
(* of the last event it heard, and when its stream opens again the server     *)
(* replays what it missed.                                                    *)
(*                                                                            *)
(* An id is the server process's boot and a number within it; bootId is a     *)
(* random string in the code, compared only for equality, and counts the      *)
(* restarts here.  The ready frame has no id, so it moves nothing below.      *)
EXTENDS Integers, Sequences

CONSTANTS
  Tabs,        \* tabs with a stream of their own
  BufferSize,  \* DESK_EVENT_BUFFER_SIZE
  NoId,        \* the empty lastEventId
  MaxSeq,      \* bound: events numbered by one process
  MaxBoots,    \* bound: server processes
  MaxCuts      \* bound: streams lost, pages opened and events that age out

ASSUME StreamAssumption ==
  /\ BufferSize \in Nat \ {0} /\ MaxSeq \in Nat /\ MaxBoots \in Nat /\ MaxCuts \in Nat
  /\ NoId \notin [boot : Nat, seq : Nat]

VARIABLES
  boot,         \* the running process (bootId)
  seq,          \* the number of its last event
  buffer,       \* events kept for replay, oldest first
  stream,       \* a tab's stream: "open", "dropped" by the server, or "closed"
  wire,         \* frames written to a tab and not delivered yet, oldest first
  url,          \* the lastEventId a tab's EventSource was made with
  header,       \* the last id that EventSource has seen (Last-Event-ID)
  lastEventId,  \* the last id the tab has seen in any of its EventSources
  heard,        \* history: ids of the events the page has been given
  since,        \* history: the first of those ids
  cuts          \* how often the environment has cut something

serverVars == <<boot, seq, buffer>>
tabVars == <<url, header, lastEventId, heard, since>>
eventVars == <<serverVars, stream, wire, tabVars, cuts>>

Id == [boot : Nat, seq : Nat]
Event == [id : Id, live : BOOLEAN]

EventsTypeOK ==
  /\ boot \in Nat /\ seq \in Nat /\ cuts \in 0..MaxCuts
  /\ buffer \in Seq(Event) /\ Len(buffer) <= BufferSize
  /\ stream \in [Tabs -> {"open", "dropped", "closed"}]
  /\ wire \in [Tabs -> Seq(Event)]
  /\ url \in [Tabs -> Id \cup {NoId}] /\ header \in [Tabs -> Id \cup {NoId}]
  /\ lastEventId \in [Tabs -> Id \cup {NoId}] /\ since \in [Tabs -> Id \cup {NoId}]
  /\ heard \in [Tabs -> SUBSET Id]

EventsInit ==
  /\ boot = 1 /\ seq = 0 /\ buffer = <<>> /\ cuts = 0
  /\ stream = [t \in Tabs |-> "closed"] /\ wire = [t \in Tabs |-> <<>>]
  /\ url = [t \in Tabs |-> NoId] /\ header = [t \in Tabs |-> NoId]
  /\ lastEventId = [t \in Tabs |-> NoId] /\ since = [t \in Tabs |-> NoId]
  /\ heard = [t \in Tabs |-> {}]

Cut == cuts < MaxCuts /\ cuts' = cuts + 1

\* a was published before b.
Before(a, b) == a.boot < b.boot \/ (a.boot = b.boot /\ a.seq < b.seq)

-----------------------------------------------------------------------------
(* The server.                                                                *)

\* The last n elements of s: s.slice(-n).
Newest(s, n) == IF Len(s) <= n THEN s ELSE SubSeq(s, Len(s) - n + 1, Len(s))

\* An event for this user.  A stream whose write backs up is destroyed: what
\* was written to it may still arrive.
Publish(live, slow) ==
  LET event == [id |-> [boot |-> boot, seq |-> seq + 1], live |-> live]
  IN  /\ seq < MaxSeq /\ seq' = seq + 1
      /\ buffer' = IF live THEN buffer ELSE Newest(Append(buffer, event), BufferSize)
      /\ slow \subseteq {t \in Tabs : stream[t] = "open"}
      /\ wire' = [t \in Tabs |-> IF stream[t] = "open" THEN Append(wire[t], event)
                                 ELSE wire[t]]
      /\ stream' = [t \in Tabs |-> IF t \in slow THEN "dropped" ELSE stream[t]]
      /\ UNCHANGED <<boot, tabVars, cuts>>

\* Another user's event takes a number too.
PublishElsewhere ==
  /\ seq < MaxSeq /\ seq' = seq + 1
  /\ UNCHANGED <<boot, buffer, stream, wire, tabVars, cuts>>

\* The oldest event is ten minutes old.
Age ==
  /\ Cut
  /\ buffer # <<>> /\ buffer' = Tail(buffer)
  /\ UNCHANGED <<boot, seq, stream, wire, tabVars>>

Restart ==
  /\ boot < MaxBoots /\ boot' = boot + 1
  /\ seq' = 0 /\ buffer' = <<>>
  /\ stream' = [t \in Tabs |-> IF stream[t] = "open" THEN "dropped" ELSE stream[t]]
  /\ UNCHANGED <<wire, tabVars, cuts>>

-----------------------------------------------------------------------------
(* The tab and its connection.                                                *)

\* Mutant: the event the tab heard last is replayed.
MissedAndLast(id, event) ==
  id # NoId /\ (id.boot = boot => event.id.seq >= id.seq)

\* Mutant: nothing is replayed to a tab that last heard another process.
MissedOfThisBoot(id, event) ==
  id # NoId /\ id.boot = boot /\ event.id.seq > id.seq

\* Whether a tab that last heard id missed a buffered event: none if it names
\* no id, all if the id is another process's, otherwise the later ones.
Missed(id, event) ==
  id # NoId /\ (id.boot = boot => event.id.seq > id.seq)

\* The stream opens with the buffered events missed, which are the last ones.
Opens(t, id) ==
  /\ stream[t] = "closed"
  /\ stream' = [stream EXCEPT ![t] = "open"]
  /\ \E k \in 0..Len(buffer) :
       /\ \A i \in 1..Len(buffer) : i > k <=> Missed(id, buffer[i])
       /\ wire' = [wire EXCEPT ![t] = SubSeq(buffer, k + 1, Len(buffer))]

\* The browser reopens the stream by itself after a network error.  Its request
\* has the header if the EventSource has seen an id, and the query otherwise.
Reconnect(t) ==
  /\ Opens(t, IF header[t] # NoId THEN header[t] ELSE url[t])
  /\ UNCHANGED <<serverVars, tabVars, cuts>>

\* Mutant: the new EventSource starts from nothing.
ReplaceForgets(t) ==
  /\ url' = [url EXCEPT ![t] = NoId]
  /\ header' = [header EXCEPT ![t] = NoId]
  /\ Opens(t, NoId)
  /\ UNCHANGED <<serverVars, lastEventId, heard, since, cuts>>

\* The browser has given up, and the tab makes a new EventSource.
Replace(t) ==
  /\ url' = [url EXCEPT ![t] = lastEventId[t]]
  /\ header' = [header EXCEPT ![t] = NoId]
  /\ Opens(t, lastEventId[t])
  /\ UNCHANGED <<serverVars, lastEventId, heard, since, cuts>>

\* A frame arrives and its listeners run.
Deliver(t) ==
  /\ wire[t] # <<>>
  /\ wire' = [wire EXCEPT ![t] = Tail(@)]
  /\ LET id == Head(wire[t]).id
     IN  /\ header' = [header EXCEPT ![t] = id]
         /\ lastEventId' = [lastEventId EXCEPT ![t] = id]
         /\ heard' = [heard EXCEPT ![t] = @ \cup {id}]
         /\ since' = [since EXCEPT ![t] = IF @ = NoId THEN id ELSE @]
  /\ UNCHANGED <<serverVars, stream, url, cuts>>

\* A connection is lost, with what is still on it.
Lose(t) ==
  /\ \/ stream[t] = "open" /\ Cut
     \/ stream[t] = "dropped" /\ UNCHANGED cuts
  /\ stream' = [stream EXCEPT ![t] = "closed"]
  /\ wire' = [wire EXCEPT ![t] = <<>>]
  /\ UNCHANGED <<serverVars, tabVars>>

\* A reload, or another user signing in: the page starts with nothing.
NewPage(t) ==
  /\ Cut
  /\ stream' = [stream EXCEPT ![t] = "closed"] /\ wire' = [wire EXCEPT ![t] = <<>>]
  /\ url' = [url EXCEPT ![t] = NoId] /\ header' = [header EXCEPT ![t] = NoId]
  /\ lastEventId' = [lastEventId EXCEPT ![t] = NoId]
  /\ heard' = [heard EXCEPT ![t] = {}] /\ since' = [since EXCEPT ![t] = NoId]
  /\ UNCHANGED serverVars

TabNext(t) == Reconnect(t) \/ Replace(t) \/ Deliver(t) \/ Lose(t) \/ NewPage(t)

ServerNext ==
  \/ \E live \in BOOLEAN, slow \in SUBSET Tabs : Publish(live, slow)
  \/ PublishElsewhere \/ Age \/ Restart

EventsNext == ServerNext \/ \E t \in Tabs : TabNext(t)

EventsSafety == EventsInit /\ [][EventsNext]_eventVars

\* A lost stream is reopened, by the browser or by the tab, and a frame on an
\* open stream arrives.
EventsFairness ==
  \A t \in Tabs :
    /\ WF_eventVars(Reconnect(t) \/ Replace(t))
    /\ WF_eventVars(Deliver(t))
    /\ WF_eventVars(stream[t] = "dropped" /\ Lose(t))

EventsSpec == EventsSafety /\ EventsFairness

-----------------------------------------------------------------------------

(* However often streams are lost, replaced and replayed, a page is given     *)
(* each event at most once and in the order of publication: what is on its    *)
(* wire comes in order and is newer than all it was given.                    *)
OnceInOrder ==
  \A t \in Tabs :
    /\ \A i, j \in DOMAIN wire[t] : i < j => Before(wire[t][i].id, wire[t][j].id)
    /\ \A i \in DOMAIN wire[t], old \in heard[t] : Before(old, wire[t][i].id)

(* No hole in what a page was given: of the events still kept for replay, it  *)
(* has every one between the first it was given and the last.                 *)
NoGap ==
  \A t \in Tabs, i \in DOMAIN buffer :
    LET id == buffer[i].id
    IN  /\ since[t] # NoId /\ ~Before(id, since[t])
        /\ ~Before(lastEventId[t], id)
        => id \in heard[t]

(* A relayed press or a task notice is for the pages open at the time         *)
(* (deskEvents.test.ts: never replays approach Next to a desk that reconnects *)
(* later).                                                                    *)
NeverReplayed ==
  [][ \A t \in Tabs : stream[t] = "closed" /\ stream'[t] = "open"
        => \A i \in DOMAIN wire'[t] : ~wire'[t][i].live ]_eventVars

(* A page that has been given an event gets every later one, unless the       *)
(* buffer forgets it first or the page is closed.                             *)
EventArrives ==
  \A t \in Tabs, id \in [boot : 1..MaxBoots, seq : 1..MaxSeq] :
    LET Kept == \E i \in DOMAIN buffer : buffer[i].id = id
    IN  /\ Kept /\ since[t] # NoId /\ Before(since[t], id)
        ~> id \in heard[t] \/ ~Kept \/ since[t] = NoId

=============================================================================
