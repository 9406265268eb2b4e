------------------------------ MODULE MCOwnPosts ------------------------------
(* An instance of OwnPosts for TLC. *)
EXTENDS OwnPosts

CONSTANTS c1, c2
===============================================================================
