---------------------------- MODULE MCScoutEvidence ---------------------------
(* A small instance of ScoutEvidence for TLC: two replies on one thread, the  *)
(* second of them to a reply in it.  In one cast a reply is found and the     *)
(* other marked by its address, in one a reply is marked by its address and   *)
(* found, in one two processes run their passes side by side.  Further marks  *)
(* and threads are for the cases the README names.                            *)
(******************************************************************************)
EXTENDS ScoutEvidence

CONSTANTS a, b, p, q

OneThread == [r \in Replies |-> a]
TwoThreads == [r \in Replies |-> IF r = 2 THEN b ELSE a]
Nested == [r \in Replies |-> b]

MarkedApart == {<<1, "found">>, <<2, "url">>, Repair}
MarkedByAddress == {<<1, "url">>, Repair}
MarkedOnce == {<<1, "found">>}
MarkedByHand == {<<1, "manual">>, <<2, "url">>, <<2, "found">>}
MarkedTwice == {<<1, "url">>, <<1, "found">>, Repair}
MCMarks == MarkedApart \cup MarkedTwice

MCCasts == {[marks |-> MarkedApart, procs |-> {p}],
            [marks |-> MarkedTwice, procs |-> {p}],
            [marks |-> MarkedByAddress, procs |-> Procs]}
Alone == {[marks |-> Marks, procs |-> {p}]}
===============================================================================
