---------------------------- MODULE MCScoutProfile ----------------------------
(* Two users in two processes, one of them without the hook.  The first is *)
(* read in that one, while the hook rebuilds in the other; the second      *)
(* changes once, which is enough for its repair to come between.           *)
EXTENDS ScoutProfile

CONSTANTS ann, bob, api, hook0

MCReaders == {<<hook0, ann>>}
MCChanges == [w \in Users |-> IF w = ann THEN MaxRev ELSE 1]
===============================================================================
