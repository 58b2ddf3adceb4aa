------------------------------- MODULE CallOut --------------------------------
(***************************************************************************)
(* The driver's delayed calls (fluffos/call_out.c).                        *)
(*                                                                         *)
(* Pending calls hang in a wheel of CycleSize lists, one for each value of *)
(* the time modulo CycleSize.  A call's delta is the number of whole turns *)
(* of the wheel it has to wait after the call in front of it in its list.  *)
(* Each second, call_out() runs the calls at the head of the current list  *)
(* whose delta is 0, then takes one turn off the new head, moves to the    *)
(* next list and runs the heart beats.  It catches up with the wall clock  *)
(* second by second, and LPC code, which runs at each of these points, may *)
(* add and take out calls in any list.                                     *)
(*                                                                         *)
(* One step is a stretch of C code between two points where LPC code can   *)
(* run.  Timers is the promise this module is shown to keep.               *)
(***************************************************************************)
EXTENDS Integers, SequencesExt

CONSTANTS
  Objects,    \* LPC objects
  Functions,  \* function names, and FunctionPointer
  FunctionPointer, \* the name no call is found by: a closure, whose owner is ob
  Delays,     \* delays asked for, any int
  CycleSize,  \* CALLOUT_CYCLE_SIZE, a power of two: 32 in the build
  IntHalf,    \* 2^31 in the build: an int holds -IntHalf .. IntHalf - 1
  MaxCalls,   \* bound: calls asked for in one behaviour
  Horizon,    \* bound: the last second of a behaviour; none is asked for later
  MaxLag,     \* bound: how far the wall clock runs ahead of the driver
  NoCall      \* the null pending_call_t pointer

ASSUME CallOutAssumption ==
  /\ Delays \subseteq Int
  /\ CycleSize \in Nat \ {0}
  /\ IntHalf \in Nat \ {0}
  /\ (2 * IntHalf) % CycleSize = 0
  /\ MaxCalls \in Nat /\ Horizon \in Nat /\ MaxLag \in Nat
  /\ CycleSize <= Horizon + 1
  /\ NoCall \notin [id : Nat, ob : Objects, fn : Functions, due : Nat]

VARIABLES
  call_list,     \* the wheel: a sequence of calls for each slot
  current_time,
  wall,          \* what time() would return
  real_time,     \* what it returned when this round of call_out() began
  cop,           \* the call taken out of the wheel, static in call_out()
  unique,        \* calls ever made: the high bits of a handle
  destructed,
  pc             \* "idle"; "slot" at the head of the inner loop; LPC code is
                 \* running in a "call" or in the heart "beats"

wheel == <<call_list, unique>>
clock == <<current_time, wall, real_time>>
vars == <<wheel, clock, cop, destructed, pc>>

Slots == 0 .. CycleSize - 1
Slot(time) == time % CycleSize

(* A fault: handles are kept positive by dropping the sign bit. *)
ToPositive(n) == n % IntHalf

ToInt(n) == ((n + IntHalf) % (2 * IntHalf)) - IntHalf

(* due and id are history: the second the call was asked for, and its      *)
(* number in the order of the call_out() efuns.                            *)
Call == [ob : Objects, fn : Functions, delta : Nat, handle : Int,
         due : Nat, id : Nat]

TypeOK ==
  /\ call_list \in [Slots -> Seq(Call)]
  /\ current_time \in 0 .. Horizon
  /\ wall \in 0 .. Horizon
  /\ real_time \in 0 .. Horizon
  /\ cop \in Call \union {NoCall}
  /\ unique \in 0 .. MaxCalls
  /\ destructed \subseteq Objects
  /\ pc \in {"idle", "slot", "call", "beats"}

Init ==
  /\ call_list = [s \in Slots |-> <<>>]
  /\ current_time \in Slots
  /\ wall = current_time
  /\ real_time = current_time
  /\ cop = NoCall
  /\ unique = 0
  /\ destructed = {}
  /\ pc = "idle"

-----------------------------------------------------------------------------
(* The lists *)

(* Turns until the k-th call of a list: the sum of the first k deltas.     *)
Turns(list) ==
  LET t[k \in 0 .. Len(list)] == IF k = 0 THEN 0 ELSE t[k - 1] + list[k].delta
  IN  t

(* time_left(slot, delay) *)
TimeLeft(slot, delay) ==
  LET ahead == slot - Slot(current_time)
  IN  ahead + CycleSize * (IF ahead >= 0 THEN delay ELSE delay + 1)

(* A fault: behind all others. *)
PlaceLast(list, turns) == Len(list) + 1

(* The place for a call that waits `turns`: before the first one that      *)
(* waits longer, so behind those that wait as long.                        *)
PlaceFor(list, turns) ==
  CHOOSE p \in 1 .. Len(list) + 1 :
    /\ p <= Len(list) => Turns(list)[p] > turns
    /\ \A k \in 1 .. p - 1 : Turns(list)[k] <= turns

Inserted(list, c, turns) ==
  LET p == PlaceFor(list, turns)
      delta == turns - Turns(list)[p - 1]
      later == IF p <= Len(list) THEN [list EXCEPT ![p].delta = @ - delta]
                                 ELSE list
  IN  InsertAt(later, p, [c EXCEPT !.delta = delta])

(* A fault: nobody inherits the delta of the call taken out. *)
RemovedOnly(list, p) == RemoveAt(list, p)

(* The call behind the one taken out inherits its delta. *)
Removed(list, p) ==
  LET later == IF p < Len(list)
               THEN [list EXCEPT ![p + 1].delta = @ + list[p].delta] ELSE list
  IN  RemoveAt(later, p)

(* The list without the calls of some owners, front to back: what is kept  *)
(* of the first k calls, and the delta that the next one inherits.         *)
Passed(before, c, owners) ==
  IF c.ob \in owners THEN [before EXCEPT !.carry = @ + c.delta]
  ELSE [carry |-> 0,
        kept |-> Append(before.kept, [c EXCEPT !.delta = @ + before.carry])]

Sifted(list, owners) ==
  LET sift[k \in 0 .. Len(list)] ==
        IF k = 0 THEN [carry |-> 0, kept |-> <<>>]
        ELSE Passed(sift[k - 1], list[k], owners)
  IN  sift

RemovedAll(list, owners) == Sifted(list, owners)[Len(list)].kept

(* The head of the list waits one turn less. *)
Turned(list) ==
  IF list = <<>> THEN list ELSE [list EXCEPT ![1].delta = @ - 1]

(* Where a call is: <<slot, position>>. *)
Places == UNION {{<<s, p>> : p \in DOMAIN call_list[s]} : s \in Slots}
At(w) == call_list[w[1]][w[2]]
TimeLeftAt(w) == TimeLeft(w[1], Turns(call_list[w[1]])[w[2]])

(* The calls of ob to the function named fn, and the one that the search   *)
(* of remove_call_out() meets first: it goes through the slots by number.  *)
Named(ob, fn) ==
  {w \in Places : At(w).ob = ob /\ At(w).fn = fn /\ fn # FunctionPointer}

Before(v, w) == v[1] < w[1] \/ (v[1] = w[1] /\ v[2] < w[2])
FirstOf(places) == CHOOSE w \in places : \A v \in places : ~Before(v, w)

(* The calls a handle names: its low bits are the slot to look in. *)
WithHandle(h) == {w \in Places : w[1] = Slot(h) /\ At(w).handle = h}

-----------------------------------------------------------------------------
(* What LPC code does: in a command (pc = "idle"), in a delayed call or in *)
(* a heart beat.                                                           *)

LpcRuns == pc \in {"idle", "call", "beats"}

(* call_out(fn, delay): a destructed object gets no call, but may own the  *)
(* function pointer that somebody else asks a call for.                    *)
NewCallOut(ob, fn, asked) ==
  LET delay == IF asked < 0 THEN 0 ELSE asked
      slot == Slot(delay + current_time)
      c == [ob |-> ob, fn |-> fn, delta |-> 0,
            handle |-> ToInt(slot + CycleSize * (unique + 1)),
            due |-> current_time + delay, id |-> unique + 1]
  IN
  /\ LpcRuns
  /\ ob \notin destructed \/ fn = FunctionPointer
  /\ unique < MaxCalls
  /\ current_time + delay <= Horizon
  /\ unique' = unique + 1
  /\ call_list' = [call_list EXCEPT ![slot] =
                     Inserted(@, c, delay \div CycleSize)]
  /\ UNCHANGED <<clock, cop, destructed, pc>>

RemoveAtPlace(w) ==
  /\ call_list' = [call_list EXCEPT ![w[1]] = Removed(@, w[2])]
  /\ UNCHANGED <<unique, clock, cop, destructed, pc>>

(* remove_call_out(fn) *)
RemoveCallOut(ob, fn) ==
  /\ LpcRuns
  /\ Named(ob, fn) # {}
  /\ RemoveAtPlace(FirstOf(Named(ob, fn)))

(* remove_call_out(handle), by whatever object *)
RemoveCallOutByHandle(h) ==
  /\ LpcRuns
  /\ WithHandle(h) # {}
  /\ RemoveAtPlace(FirstOf(WithHandle(h)))

RemoveOwners(owners) ==
  /\ LpcRuns
  /\ call_list' = [s \in Slots |-> RemovedAll(call_list[s], owners)]
  /\ UNCHANGED <<unique, clock, cop, destructed, pc>>

(* remove_call_out() without an argument, and reload_object() *)
RemoveAllCallOut(ob) == RemoveOwners(destructed \union {ob})

(* reclaim_objects() *)
ReclaimCallOuts == RemoveOwners(destructed)

(* destruct_object() leaves the object's calls in the wheel. *)
Destruct(ob) ==
  /\ LpcRuns
  /\ destructed' = destructed \union {ob}
  /\ UNCHANGED <<wheel, clock, cop, pc>>

-----------------------------------------------------------------------------
(* call_out(), once per round of the backend loop *)

(* The round is to reach the second that the wall clock shows now.  cop is *)
(* left over from no call.                                                 *)
StartRound ==
  /\ pc = "idle"
  /\ cop' = NoCall
  /\ real_time' = wall
  /\ pc' = "slot"
  /\ UNCHANGED <<wheel, current_time, wall, destructed>>

IsDue ==
  LET list == call_list[Slot(current_time)]
  IN  list # <<>> /\ list[1].delta = 0

TakeHead ==
  call_list' = [call_list EXCEPT ![Slot(current_time)] = Tail(@)]

DueCall == call_list[Slot(current_time)][1]

(* A fault: nobody looks whether the owner is still there. *)
StartAnyCall ==
  /\ pc = "slot"
  /\ IsDue
  /\ TakeHead
  /\ cop' = DueCall
  /\ pc' = "call"
  /\ UNCHANGED <<unique, clock, destructed>>

StartCall ==
  /\ pc = "slot"
  /\ IsDue
  /\ DueCall.ob \notin destructed
  /\ TakeHead
  /\ cop' = DueCall
  /\ pc' = "call"
  /\ UNCHANGED <<unique, clock, destructed>>

DropCall ==
  /\ pc = "slot"
  /\ IsDue
  /\ DueCall.ob \in destructed
  /\ TakeHead
  /\ UNCHANGED <<unique, clock, cop, destructed, pc>>

(* The function returned, or failed with an error that was caught here.    *)
(* Running out of evaluation cost is an error like any other: the test of  *)
(* max_eval_error finds what error_handler() has reset (simulate.c:1815).  *)
CallReturns ==
  /\ pc = "call"
  /\ cop' = NoCall
  /\ pc' = "slot"
  /\ UNCHANGED <<wheel, clock, destructed>>

(* A fault: the wheel turns and the call that waits is not told. *)
NextSecondUntold ==
  /\ pc = "slot"
  /\ ~IsDue
  /\ current_time < real_time
  /\ current_time' = current_time + 1
  /\ pc' = "beats"
  /\ UNCHANGED <<wheel, wall, real_time, cop, destructed>>

(* The clock moves to the next slot, where the heart beats come first. *)
NextSecond ==
  /\ pc = "slot"
  /\ ~IsDue
  /\ current_time < real_time
  /\ call_list' = [call_list EXCEPT ![Slot(current_time)] = Turned(@)]
  /\ current_time' = current_time + 1
  /\ pc' = "beats"
  /\ UNCHANGED <<unique, wall, real_time, cop, destructed>>

BeatsDone ==
  /\ pc = "beats"
  /\ pc' = "slot"
  /\ UNCHANGED <<wheel, clock, cop, destructed>>

EndRound ==
  /\ pc = "slot"
  /\ ~IsDue
  /\ current_time >= real_time
  /\ pc' = "idle"
  /\ UNCHANGED <<wheel, clock, cop, destructed>>

(* Outside the driver. *)
WallClockTicks ==
  /\ wall < Horizon
  /\ wall < current_time + MaxLag
  /\ wall' = wall + 1
  /\ UNCHANGED <<wheel, current_time, real_time, cop, destructed, pc>>

-----------------------------------------------------------------------------
Lpc ==
  \/ \E ob \in Objects, fn \in Functions, delay \in Delays :
       NewCallOut(ob, fn, delay)
  \/ \E ob \in Objects, fn \in Functions : RemoveCallOut(ob, fn)
  \/ \E h \in {At(w).handle : w \in Places} : RemoveCallOutByHandle(h)
  \/ \E ob \in Objects : RemoveAllCallOut(ob)
  \/ ReclaimCallOuts
  \/ \E ob \in Objects : Destruct(ob)

Driver ==
  \/ StartRound
  \/ StartCall
  \/ DropCall
  \/ CallReturns
  \/ NextSecond
  \/ BeatsDone
  \/ EndRound

Next == Lpc \/ Driver \/ WallClockTicks

Spec == Init /\ [][Next]_vars

(* The driver is one thread whose loop never blocks for longer than the    *)
(* one-second timeout of select(), and LPC code that runs too long is cut  *)
(* short; time goes on.                                                    *)
FairSpec == Spec /\ WF_vars(Driver) /\ WF_vars(WallClockTicks)

-----------------------------------------------------------------------------
(* Properties *)

(* After any insertions and removals around it and any number of turns of  *)
(* the wheel, the place of a call, its slot and the turns in front of it,  *)
(* still says the second it was asked for; and calls for the same second   *)
(* are in the order they were asked for (call_out.c:129-155, 300-340).     *)
WheelKeepsTime ==
  /\ \A w \in Places : At(w).due = current_time + TimeLeftAt(w)
  /\ \A v, w \in Places :
       v[1] = w[1] /\ v[2] < w[2] /\ At(v).due = At(w).due =>
         At(v).id < At(w).id

(* A handle finds the slot its call is in, and two pending calls share a   *)
(* handle only if the counter went round between them: remove_call_out()   *)
(* by a fresh handle cannot take out somebody else's call.                 *)
HandlesFarApart ==
  \A v, w \in Places :
    /\ v \in WithHandle(At(v).handle)
    /\ v # w /\ At(v).handle = At(w).handle =>
         (At(v).id - At(w).id) % ((2 * IntHalf) \div CycleSize) = 0

(* The wheel keeps the promise of Timers: every call that is not cancelled *)
(* runs in the very second it was asked for, in order, and none runs for a *)
(* destructed object.                                                      *)
Shown(c) == [id |-> c.id, ob |-> c.ob, fn |-> c.fn, due |-> c.due]

Promise == INSTANCE Timers WITH
  Delays <- {IF delay < 0 THEN 0 ELSE delay : delay \in Delays},
  now <- current_time,
  issued <- unique,
  pending <- {Shown(At(w)) : w \in Places},
  running <- IF pc = "call" THEN Shown(cop) ELSE NoCall,
  gone <- destructed

KeepsPromise == Promise!Spec

(* Nothing starves in the wheel: every pending call leaves it.             *)
EveryCallLeaves ==
  \A n \in 1 .. MaxCalls :
    (\E w \in Places : At(w).id = n) ~> ~(\E w \in Places : At(w).id = n)
=============================================================================
