-------------------------- MODULE MCApproachServer --------------------------
(* Small instances of ApproachServer for TLC: the cfg picks Scouts from a, b  *)
(* and Suggestions from og1, og2 (originals) and re (a reply to thread t).    *)
EXTENDS ApproachServer, TLC

CONSTANTS a, b, t, og1, og2, re

MCThreads == Scouts \cup {t}
MCKind == [s \in Suggestions |-> IF s = re THEN "reply" ELSE "post"]
MCTarget == [s \in Suggestions |-> IF s = re THEN t ELSE None]
MCRank == [c \in Cards |-> IF c \in {b, og1} THEN 2 ELSE IF c = og2 THEN 3 ELSE 1]

FullStock == [scouts |-> Scouts, suggestions |-> Suggestions, interacted |-> {},
              history |-> {}, gate |-> None, replyDone |-> TRUE, originalOpen |-> TRUE]

\* Everything; no scouts; no suggestions; a gate over an empty desk; and a tank
\* whose threads were answered, with no scouted reply today.
MCStocks ==
  {FullStock,
   [FullStock EXCEPT !.scouts = {}],
   [FullStock EXCEPT !.suggestions = {}],
   [FullStock EXCEPT !.scouts = {}, !.suggestions = {}, !.gate = "link_x"],
   [FullStock EXCEPT !.interacted = Scouts, !.history = MCThreads, !.replyDone = FALSE]}

Presses == Permutations(Requests)
=============================================================================
