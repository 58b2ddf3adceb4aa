------------------------------- MODULE MCOutput -------------------------------
(* TLC instances of Output. *)
EXTENDS Output

(* Each kind of message: with pairs that meet the end of a ring of four    *)
(* bytes, at an even and at an odd place, and longer than the ring.        *)
MCMessages ==
  {[kind |-> "text", rest |-> <<"x", "nl", "iac", "x", "nl">>],
   [kind |-> "text", rest |-> <<"nl">>],
   [kind |-> "vtext", rest |-> <<"x", "iac", "x", "nl">>],
   [kind |-> "binary", rest |-> <<"iac", "x", "nl">>]}
=============================================================================
