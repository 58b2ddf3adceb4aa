------------------------------- MODULE MCUsers --------------------------------
(* TLC instances of Users. *)
EXTENDS Users
=============================================================================
