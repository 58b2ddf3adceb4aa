------------------------------ MODULE MCCallOut -------------------------------
(* TLC instance of CallOut: a wheel of two slots.                          *)
EXTENDS CallOut

(* Below zero, part of a turn of the wheel, and two turns.                  *)
MCDelays == {-1, 1, 4}
=============================================================================
