---------------------------- MODULE MCMarkLedger ----------------------------
(* Instances of MarkLedger for TLC. *)
EXTENDS MarkLedger

CONSTANTS r1, r2, api, hook, w1, w2

MCParent == [r \in Replies |-> IF r = r1 THEN 1 ELSE 2]

(* The operator marks thread 1; the webhook reports a reply to thread 2.   *)
OneEach == [p \in Requests \cup Events |-> IF p = api THEN {r1} ELSE {r2}]

MCDayOf == [i \in 1 .. MaxInstant |-> i + 2]

=============================================================================
