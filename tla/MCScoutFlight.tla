---------------------------- MODULE MCScoutFlight ----------------------------
(* Model of ScoutFlight: two posts of one conversation.                       *)
EXTENDS ScoutFlight, TLC

CONSTANTS a, b, talk

MCConversationOf == (a :> talk) @@ (b :> talk)

=============================================================================
