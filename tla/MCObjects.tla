------------------------------ MODULE MCObjects -------------------------------
(* TLC instances of Objects: a user, an object and a shadow.               *)
EXTENDS Objects
=============================================================================
