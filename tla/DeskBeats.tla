------------------------------- MODULE DeskBeats -------------------------------
(***************************************************************************)
(* The ladder of a UTC day on the desk (server/src/desk/deskBeats.ts): a   *)
(* scouted reply, an organic reply, then a fork to an original or one more *)
(* reply.  Each operator is one transaction on the row of the day.         *)
(***************************************************************************)
CONSTANT NoChoice   \* the fork is not chosen yet

Forks == {"original", "reply"}
Sources == {"scout", "organic"}

Beats == [scout : BOOLEAN, organic : BOOLEAN, choice : Forks \cup {NoChoice},
          done : BOOLEAN]

emptyDeskBeats == [scout |-> FALSE, organic |-> FALSE, choice |-> NoChoice,
                   done |-> FALSE]

onReplyMarked(beats, source) ==
  [beats EXCEPT !.scout = @ \/ source = "scout",
                !.organic = @ \/ source = "organic",
                !.done = @ \/ beats.choice = "reply"]

onOriginalPosted(beats) ==
  [beats EXCEPT !.done = @ \/ beats.choice = "original"]

setForkChoice(beats, choice) ==
  IF beats.organic /\ beats.choice = NoChoice /\ ~beats.done
  THEN [beats EXCEPT !.choice = choice] ELSE beats

(* What could go wrong: every card counts as a reply. *)
onAnyCardDone(beats, kind) ==
  onReplyMarked(IF kind = "post" THEN onOriginalPosted(beats) ELSE beats, "organic")

(* A For You card the operator says is done (forYouHttp.ts).  Only a reply *)
(* takes the reply fork: a quote or an original counts as organic until    *)
(* the fork is chosen so.                                                  *)
onCardDone(beats, kind) ==
  LET posted == IF kind = "post" THEN onOriginalPosted(beats) ELSE beats
  IN IF kind = "reply" \/ posted.choice # "reply"
     THEN onReplyMarked(posted, "organic") ELSE posted
===============================================================================
