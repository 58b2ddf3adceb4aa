----------------------------- MODULE MCHeartBeat -----------------------------
(* TLC instance of HeartBeat: a C short of three bits.                     *)
EXTENDS HeartBeat

(* Off, negative, and two intervals that fit a short of -4 .. 3. *)
MCIntervals == {-1, 0, 1, 2}
=============================================================================
