------------------------------ MODULE MCCommands ------------------------------
(* TLC instances of Commands: a table of one slot or two, a buffer of two  *)
(* characters that overflows when it is full.                              *)
EXTENDS Commands
=============================================================================
