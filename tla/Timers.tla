-------------------------------- MODULE Timers --------------------------------
(***************************************************************************)
(* What the driver's call_out() promises to LPC code, without the wheel:   *)
(* a set of pending calls, each with the second it is due, that run at     *)
(* that second, in the order they fall due and, within one second, in the  *)
(* order they were asked for; never when cancelled, and never when their   *)
(* owner is destructed.  CallOut implements it.                            *)
(***************************************************************************)
EXTENDS Naturals

CONSTANTS
  Objects, Functions,
  Delays,   \* delays in seconds, natural numbers
  NoCall

VARIABLES
  now,      \* the second the driver is at
  issued,   \* how many calls were ever asked for
  pending,  \* the calls still to run
  running,  \* the call whose function is running, or NoCall
  gone      \* destructed objects

vars == <<now, issued, pending, running, gone>>

Init ==
  /\ now \in Nat
  /\ issued = 0
  /\ pending = {}
  /\ running = NoCall
  /\ gone = {}

Schedule(ob, fn, delay) ==
  /\ issued' = issued + 1
  /\ pending' = pending \union
       {[id |-> issued + 1, ob |-> ob, fn |-> fn, due |-> now + delay]}
  /\ UNCHANGED <<now, running, gone>>

Cancel(c) ==
  /\ pending' = pending \ {c}
  /\ UNCHANGED <<now, issued, running, gone>>

(* All calls of some owners, among them every destructed one. *)
CancelAllOf(owners) ==
  /\ gone \subseteq owners
  /\ pending' = {c \in pending : c.ob \notin owners}
  /\ UNCHANGED <<now, issued, running, gone>>

Destruct(ob) ==
  /\ gone' = gone \union {ob}
  /\ UNCHANGED <<now, issued, pending, running>>

IsNext(c) ==
  \A d \in pending : c.due < d.due \/ (c.due = d.due /\ c.id <= d.id)

Run(c) ==
  /\ running = NoCall
  /\ c.due = now
  /\ IsNext(c)
  /\ c.ob \notin gone
  /\ running' = c
  /\ pending' = pending \ {c}
  /\ UNCHANGED <<now, issued, gone>>

(* A call whose owner is destructed is passed over. *)
Drop(c) ==
  /\ running = NoCall
  /\ c.due = now
  /\ IsNext(c)
  /\ c.ob \in gone
  /\ pending' = pending \ {c}
  /\ UNCHANGED <<now, issued, running, gone>>

Finish ==
  /\ running # NoCall
  /\ running' = NoCall
  /\ UNCHANGED <<now, issued, pending, gone>>

(* A second passes only when all that was due in it has been served. *)
Tick ==
  /\ running = NoCall
  /\ \A c \in pending : c.due > now
  /\ now' = now + 1
  /\ UNCHANGED <<issued, pending, running, gone>>

Next ==
  \/ \E ob \in Objects, fn \in Functions, delay \in Delays : Schedule(ob, fn, delay)
  \/ \E c \in pending : Cancel(c) \/ Run(c) \/ Drop(c)
  \/ \E owners \in SUBSET Objects : CancelAllOf(owners)
  \/ \E ob \in Objects : Destruct(ob)
  \/ Finish
  \/ Tick

Spec == Init /\ [][Next]_vars
=============================================================================
