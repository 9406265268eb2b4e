-------------------------- MODULE MCLedgerAdoption --------------------------
(* An instance of LedgerAdoption for TLC: two requests of ann, one of bob. *)
EXTENDS LedgerAdoption

CONSTANTS p1, p2, p3, ann, bob

MCUserOf == [p \in Procs |-> IF p = p3 THEN bob ELSE ann]
=============================================================================
