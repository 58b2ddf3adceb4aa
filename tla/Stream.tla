-------------------------------- MODULE Stream --------------------------------
(***************************************************************************)
(* What the output side of a connection promises (comm.c): a bounded,      *)
(* first-in first-out stream.  A message is taken character by character,  *)
(* a character that needs two bytes is taken whole or not at all, and only *)
(* the end of a message is ever given up, when there is no room for it.    *)
(* What was taken goes out once and in order for as long as the link is    *)
(* up, whatever pieces the network takes it in.                            *)
(*                                                                         *)
(* Output implements this specification: there the queue is a ring that    *)
(* is flushed from half a dozen places.                                    *)
(***************************************************************************)
EXTENDS Integers, Sequences

CONSTANTS
  Size,     \* bytes the queue holds
  Offers    \* [kind, rest]: kinds of message and their characters

VARIABLES
  offer,    \* the message being taken: its kind, and what is still to take
  queue,    \* bytes taken and not yet sent
  wire,     \* bytes sent
  open      \* the link is up

vars == <<offer, queue, wire, open>>

(* The bytes a character becomes.  Text has its newlines and its IAC bytes *)
(* doubled, the driver's own formatted text only its newlines, and binary  *)
(* data goes as it is.                                                     *)
Bytes(kind, c) ==
  IF c = "nl" /\ kind # "binary" THEN <<"cr", "nl">>
  ELSE IF c = "iac" /\ kind = "text" THEN <<"iac", "iac">>
  ELSE <<c>>

NoOffer == [kind |-> "none", rest |-> <<>>]

Init ==
  /\ offer = NoOffer
  /\ queue = <<>>
  /\ wire = <<>>
  /\ open = TRUE

Offer ==
  /\ open /\ offer = NoOffer
  /\ offer' \in Offers
  /\ UNCHANGED <<queue, wire, open>>

Next1 == Bytes(offer.kind, Head(offer.rest))
Fits == Len(queue) + Len(Next1) <= Size

Take ==
  /\ open /\ offer # NoOffer /\ Fits
  /\ queue' = queue \o Next1
  /\ offer' = IF Len(offer.rest) = 1 THEN NoOffer
              ELSE [offer EXCEPT !.rest = Tail(@)]
  /\ UNCHANGED <<wire, open>>

Cut ==
  /\ open /\ offer # NoOffer /\ ~Fits
  /\ offer' = NoOffer
  /\ UNCHANGED <<queue, wire, open>>

Deliver(n) ==
  /\ open
  /\ wire' = wire \o SubSeq(queue, 1, n)
  /\ queue' = SubSeq(queue, n + 1, Len(queue))
  /\ UNCHANGED <<offer, open>>

DeliverSome == \E n \in 1 .. Len(queue) : Deliver(n)

(* The link goes down; what is queued, and what is not taken, is lost.     *)
Break ==
  /\ open
  /\ open' = FALSE
  /\ offer' = NoOffer
  /\ UNCHANGED <<queue, wire>>

Next == Offer \/ Take \/ Cut \/ DeliverSome \/ Break

(* A stream whose reader goes on reading goes on. *)
Spec == Init /\ [][Next]_vars /\ WF_vars(DeliverSome)
=============================================================================
