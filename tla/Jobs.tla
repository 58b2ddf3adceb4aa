--------------------------------- MODULE Jobs ----------------------------------
(***************************************************************************)
(* What the asynchronous efuns promise (fluffos/packages/async.c): every   *)
(* request is carried out once and answered once, each in the order of the *)
(* requests, and a request is answered after it has been carried out.      *)
(* Requests are numbered 1, 2, ... as they are made.                       *)
(***************************************************************************)
EXTENDS Naturals, Sequences

VARIABLES
  asked,     \* requests made
  carried,   \* requests carried out, the latest last
  answered   \* requests answered, with a call of their function

vars == <<asked, carried, answered>>

Init == asked = 0 /\ carried = <<>> /\ answered = <<>>

Ask ==
  /\ asked' = asked + 1
  /\ UNCHANGED <<carried, answered>>

CarryOut ==
  /\ Len(carried) < asked
  /\ carried' = Append(carried, Len(carried) + 1)
  /\ UNCHANGED <<asked, answered>>

Answer ==
  /\ Len(answered) < Len(carried)
  /\ answered' = Append(answered, Len(answered) + 1)
  /\ UNCHANGED <<asked, carried>>

Next == Ask \/ CarryOut \/ Answer

Spec == Init /\ [][Next]_vars /\ WF_vars(CarryOut) /\ WF_vars(Answer)
=============================================================================
