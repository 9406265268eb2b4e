--------------------------- MODULE MCApproachDesk ---------------------------
(* Small instances of ApproachDesk for TLC: a tank of scout cards a, b and at *)
(* most one suggestion, a reply to thread t.                                  *)
EXTENDS ApproachDesk, TLC

CONSTANTS a, b, re, t

MCThreads == Scouts \cup {t}
MCKind == [s \in Suggestions |-> "reply"]
MCTarget == [s \in Suggestions |-> t]
MCRank == [c \in Cards |-> IF c = b THEN 2 ELSE 1]

FullStock == [scouts |-> Scouts, suggestions |-> Suggestions, interacted |-> {},
              history |-> {}, gate |-> None, replyDone |-> TRUE, originalOpen |-> FALSE]

OneStock == {FullStock}

\* The tank, the gate over it, and a desk with nothing on it yet.
GatedStocks ==
  {FullStock, [FullStock EXCEPT !.gate = "link_x"],
   [FullStock EXCEPT !.scouts = {}, !.suggestions = {}]}

=============================================================================
