------------------------------- MODULE MCForYou -------------------------------
(* An instance of ForYou for TLC: a pass picks an original and a reply, a     *)
(* refill that original or another of its theme.                              *)
EXTENDS ForYou, TLC

CONSTANTS o1, o2, re

AnyOrder == Permutations(Ticks) \cup Permutations(Requests)

MCKind == [i \in Ideas |-> IF i = re THEN "reply" ELSE "post"]
MCAlike == [i \in Ideas |-> IF Kind[i] = "post" THEN {o1, o2} ELSE {i}]
MCPicks == {{o1, re}}
===============================================================================
