--------------------------- MODULE MCSubscription ---------------------------
(* An instance of Subscription for TLC. *)
EXTENDS Subscription

CONSTANTS s1, s2, pulse, radar, hook, page
=============================================================================
