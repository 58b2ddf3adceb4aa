------------------------------- MODULE MCLogon --------------------------------
(* Two clients and one name, which both may ask for. *)
EXTENDS Logon
=============================================================================
