------------------------------ MODULE HeartBeat ------------------------------
(***************************************************************************)
(* The heart beat list of the driver (fluffos/backend.c).                  *)
(*                                                                         *)
(* The driver keeps an array heart_beats[0 .. num_hb_objs-1].  Once per    *)
(* tick, call_heart_beat() walks the entries that were in the list when    *)
(* the walk began and runs the LPC function heart_beat() of those that are *)
(* due.  That LPC code may call back into set_heart_beat(), or destruct    *)
(* any object, so entries before, at and after the one being served can    *)
(* disappear, and new ones can be appended, under the walk's feet:         *)
(* heart_beat_index and num_hb_to_do are corrected on each removal.        *)
(*                                                                         *)
(* The array is a function on 0 .. num_hb_objs-1, so that an index here is *)
(* the index of the C code.  One step of this module is a stretch of C     *)
(* code between two points where LPC code can run.                         *)
(***************************************************************************)
EXTENDS Integers

CONSTANTS
  Objects,     \* LPC objects; identities are never reused
  HasBeat,     \* those whose program defines heart_beat()
  Intervals,   \* arguments given to set_heart_beat(), any int
  ShortHalf,   \* 2^15 in the build: a C short holds -ShortHalf..ShortHalf-1
  MaxOps,      \* bound: LPC calls that touch the list in one behaviour
  NoObject     \* the null object pointer

ASSUME HeartBeatAssumption ==
  /\ HasBeat \subseteq Objects
  /\ Intervals \subseteq Int
  /\ ShortHalf \in Nat \ {0}
  /\ MaxOps \in Nat
  /\ NoObject \notin Objects

VARIABLES
  heart_beats,        \* the array, a function on 0 .. num_hb_objs-1
  num_hb_objs,
  heart_beat_index,   \* the walk's position
  num_hb_to_do,       \* how many entries the walk covers; 0 outside a walk
  current_heart_beat, \* whose heart_beat() is running, for the error handler
  flagged,            \* objects with O_HEART_BEAT set
  destructed,         \* objects with O_DESTRUCTED set
  pc,                 \* "idle", "scan" (top of the loop), "beat" (LPC running)
  ops,                \* LPC calls made so far
  asked,              \* history: the argument of the last set_heart_beat()
  waited,             \* history: walks that passed the object by since then,
                      \* or since its last beat
  pending             \* history: entries this walk still owes a visit

list == <<heart_beats, num_hb_objs, flagged>>
walk == <<heart_beat_index, num_hb_to_do>>
history == <<asked, waited, pending>>
vars == <<list, walk, history, current_heart_beat, destructed, pc, ops>>

Indices == 0 .. num_hb_objs - 1

(* Storing an int in a C short: two's complement truncation.               *)
ToShort(n) == ((n + ShortHalf) % (2 * ShortHalf)) - ShortHalf

Entry == [ob : Objects, ticks : Int, time : Int]

TypeOK ==
  /\ num_hb_objs \in Nat
  /\ heart_beats \in [Indices -> Entry]
  /\ heart_beat_index \in Int
  /\ num_hb_to_do \in Int
  /\ current_heart_beat \in Objects \union {NoObject}
  /\ flagged \subseteq Objects
  /\ destructed \subseteq Objects
  /\ pc \in {"idle", "scan", "beat"}
  /\ ops \in 0 .. MaxOps
  /\ asked \in [Objects -> Int]
  /\ waited \in [Objects -> Nat]
  /\ pending \subseteq Objects

Init ==
  /\ num_hb_objs = 0
  /\ heart_beats = [i \in {} |-> NoObject]
  /\ heart_beat_index = 0
  /\ num_hb_to_do = 0
  /\ current_heart_beat = NoObject
  /\ flagged = {}
  /\ destructed = {}
  /\ pc = "idle"
  /\ ops = 0
  /\ asked = [o \in Objects |-> 0]
  /\ waited = [o \in Objects |-> 0]
  /\ pending = {}

-----------------------------------------------------------------------------
(* set_heart_beat(ob, to) *)

(* The array after the memmove that closes the gap at index i, and the     *)
(* walk's two cursors, kept on the entries they were on.                   *)
WithoutEntry(i) ==
  [k \in 0 .. num_hb_objs - 2 |->
     IF k < i THEN heart_beats[k] ELSE heart_beats[k + 1]]

(* A fault: an object that removes itself does not move the cursor.        *)
IndexWithoutEarlier(i) ==
  IF num_hb_to_do # 0 /\ i < heart_beat_index
  THEN heart_beat_index - 1 ELSE heart_beat_index

IndexWithout(i) ==
  IF num_hb_to_do # 0 /\ i <= heart_beat_index
  THEN heart_beat_index - 1 ELSE heart_beat_index

(* A fault: the end of the walk moves also for an entry beyond it.         *)
ToDoAlwaysLess(i) ==
  IF num_hb_to_do # 0 THEN num_hb_to_do - 1 ELSE num_hb_to_do

(* A fault: the end of the walk does not move.                             *)
ToDoUnmoved(i) == num_hb_to_do

ToDoWithout(i) ==
  IF num_hb_to_do # 0 /\ i < num_hb_to_do
  THEN num_hb_to_do - 1 ELSE num_hb_to_do

(* A fault: the array shrinks, its counter does not.                       *)
RemoveUncounted(i) ==
  LET ob == heart_beats[i].ob IN
  /\ heart_beats' = WithoutEntry(i)
  /\ num_hb_objs' = num_hb_objs
  /\ flagged' = flagged \ {ob}
  /\ asked' = [asked EXCEPT ![ob] = 0]
  /\ waited' = [waited EXCEPT ![ob] = 0]
  /\ pending' = pending \ {ob}

RemoveEntry(i) ==
  LET ob == heart_beats[i].ob IN
  /\ heart_beats' = WithoutEntry(i)
  /\ num_hb_objs' = num_hb_objs - 1
  /\ flagged' = flagged \ {ob}
  /\ asked' = [asked EXCEPT ![ob] = 0]
  /\ waited' = [waited EXCEPT ![ob] = 0]
  /\ pending' = pending \ {ob}

HasEntry(ob) == \E i \in Indices : heart_beats[i].ob = ob

(* to = 0: an object without an entry is left alone. *)
Disable(ob) ==
  \/ \E i \in Indices :
       /\ heart_beats[i].ob = ob
       /\ RemoveEntry(i)
       /\ heart_beat_index' = IndexWithout(i)
       /\ num_hb_to_do' = ToDoWithout(i)
  \/ ~HasEntry(ob) /\ UNCHANGED <<list, walk, history>>

(* A fault: a new interval does not rewind the count of the old one.       *)
RetimeWithoutRewind(ob, to) ==
  /\ ob \in flagged
  /\ to > 0
  /\ heart_beats' =
       [i \in Indices |-> IF heart_beats[i].ob = ob
                          THEN [heart_beats[i] EXCEPT !.time = ToShort(to)]
                          ELSE heart_beats[i]]
  /\ asked' = [asked EXCEPT ![ob] = to]
  /\ waited' = [waited EXCEPT ![ob] = 0]
  /\ UNCHANGED <<num_hb_objs, flagged, pending, walk>>

(* to # 0 on an object that already beats: a new interval, in place, which *)
(* a negative argument leaves as it was.                                   *)
Retime(ob, to) ==
  /\ ob \in flagged
  /\ \/ to < 0 /\ UNCHANGED <<list, history>>
     \/ /\ to > 0
        /\ heart_beats' =
             [i \in Indices |->
                IF heart_beats[i].ob = ob
                THEN [ob |-> ob, ticks |-> ToShort(to), time |-> ToShort(to)]
                ELSE heart_beats[i]]
        /\ asked' = [asked EXCEPT ![ob] = to]
        /\ waited' = [waited EXCEPT ![ob] = 0]
        /\ UNCHANGED <<num_hb_objs, flagged, pending>>
  /\ UNCHANGED walk

(* to # 0 on an object that does not beat: append an entry, which a walk   *)
(* in progress does not cover.                                             *)
Enable(ob, to) ==
  LET interval == IF to < 0 THEN 1 ELSE to IN
  /\ to # 0
  /\ ob \notin flagged
  /\ heart_beats' =
       [k \in 0 .. num_hb_objs |->
          IF k = num_hb_objs
          THEN [ob |-> ob, ticks |-> ToShort(interval),
                time |-> ToShort(interval)]
          ELSE heart_beats[k]]
  /\ num_hb_objs' = num_hb_objs + 1
  /\ flagged' = flagged \union {ob}
  /\ asked' = [asked EXCEPT ![ob] = interval]
  /\ UNCHANGED <<walk, waited, pending>>

-----------------------------------------------------------------------------
(* What LPC code does, from a command or a call_out (pc = "idle") or from  *)
(* inside a heart_beat() function (pc = "beat").                           *)

LpcRuns == pc \in {"idle", "beat"} /\ ops < MaxOps /\ ops' = ops + 1

(* The efun set_heart_beat(); clone_object() also calls it, with 0, on the *)
(* blueprint it copies, and reload_object() on the object it resets.       *)
SetHeartBeat(ob, to) ==
  /\ LpcRuns
  /\ ob \notin destructed
  /\ \/ to = 0 /\ Disable(ob)
     \/ Retime(ob, to)
     \/ Enable(ob, to)
  /\ UNCHANGED <<current_heart_beat, destructed, pc>>

(* A fault: the object is flagged first, and set_heart_beat() leaves a     *)
(* destructed object alone.                                                *)
DestructFlagsFirst(ob) ==
  /\ LpcRuns
  /\ ob \notin destructed
  /\ destructed' = destructed \union {ob}
  /\ UNCHANGED <<list, walk, history, current_heart_beat, pc>>

(* destruct_object() takes the object off the list, then flags it. *)
Destruct(ob) ==
  /\ LpcRuns
  /\ ob \notin destructed
  /\ Disable(ob)
  /\ destructed' = destructed \union {ob}
  /\ UNCHANGED <<current_heart_beat, pc>>

-----------------------------------------------------------------------------
(* call_heart_beat() *)

(* if (++heart_beat_index == num_hb_to_do) break; with the code after the  *)
(* loop.  whose is current_heart_beat for the rest of the walk.            *)
Advance(index, todo, whose) ==
  IF index + 1 = todo
  THEN /\ heart_beat_index' = 0
       /\ num_hb_to_do' = 0
       /\ current_heart_beat' = NoObject
       /\ pc' = "idle"
  ELSE /\ heart_beat_index' = index + 1
       /\ num_hb_to_do' = todo
       /\ current_heart_beat' = whose
       /\ pc' = "scan"

(* The clock ticks while the list is empty. *)
NothingToWalk == pc = "idle" /\ num_hb_objs = 0 /\ UNCHANGED vars

(* The clock ticks: a walk over the entries there are now. *)
StartWalk ==
  /\ pc = "idle"
  /\ num_hb_objs # 0
  /\ num_hb_to_do' = num_hb_objs
  /\ heart_beat_index' = 0
  /\ pc' = "scan"
  /\ pending' = {heart_beats[i].ob : i \in Indices}
  /\ UNCHANGED <<list, asked, waited, current_heart_beat, destructed, ops>>

Served == heart_beats[heart_beat_index].ob
TicksLeft == ToShort(heart_beats[heart_beat_index].ticks - 1)
IsDue == Served \in HasBeat /\ TicksLeft < 1

(* A fault: only an entry that is due is counted down.                     *)
SkipUncounted ==
  /\ pc = "scan"
  /\ ~IsDue
  /\ pending' = pending \ {Served}
  /\ Advance(heart_beat_index, num_hb_to_do, current_heart_beat)
  /\ UNCHANGED <<list, asked, waited, destructed, ops>>

(* The entry is not due: it is counted down. *)
Skip ==
  /\ pc = "scan"
  /\ ~IsDue
  /\ heart_beats' = [heart_beats EXCEPT ![heart_beat_index].ticks = TicksLeft]
  /\ pending' = pending \ {Served}
  /\ waited' = [waited EXCEPT ![Served] = IF Served \in HasBeat THEN @ + 1
                                                               ELSE @]
  /\ Advance(heart_beat_index, num_hb_to_do, current_heart_beat)
  /\ UNCHANGED <<num_hb_objs, flagged, destructed, ops, asked>>

(* The entry is due: its counter is rewound, and heart_beat() runs. *)
Beat ==
  /\ pc = "scan"
  /\ IsDue
  /\ heart_beats' = [heart_beats EXCEPT ![heart_beat_index].ticks =
                       heart_beats[heart_beat_index].time]
  /\ current_heart_beat' = Served
  /\ pending' = pending \ {Served}
  /\ waited' = [waited EXCEPT ![Served] = 0]
  /\ pc' = "beat"
  /\ UNCHANGED <<num_hb_objs, walk, flagged, destructed, ops, asked>>

(* heart_beat() returned, or failed with an error the mudlib's             *)
(* error_handler() took: either way the entry stays.                       *)
BeatReturns ==
  /\ pc = "beat"
  /\ Advance(heart_beat_index, num_hb_to_do, current_heart_beat)
  /\ UNCHANGED <<list, history, destructed, ops>>

(* heart_beat() failed with too deep a recursion: error_handler() turns    *)
(* off the heart beat of current_heart_beat and jumps back into the loop.  *)
BeatFailsTooDeep ==
  /\ pc = "beat"
  /\ \/ \E i \in Indices :
          /\ heart_beats[i].ob = current_heart_beat
          /\ RemoveEntry(i)
          /\ Advance(IndexWithout(i), ToDoWithout(i), NoObject)
     \/ /\ ~HasEntry(current_heart_beat)
        /\ Advance(heart_beat_index, num_hb_to_do, NoObject)
        /\ UNCHANGED <<list, history>>
  /\ UNCHANGED <<destructed, ops>>

-----------------------------------------------------------------------------
Next ==
  \/ \E ob \in Objects, to \in Intervals : SetHeartBeat(ob, to)
  \/ \E ob \in Objects : Destruct(ob)
  \/ NothingToWalk
  \/ StartWalk
  \/ Skip
  \/ Beat
  \/ BeatReturns
  \/ BeatFailsTooDeep

(* The backend loop calls call_heart_beat() on every tick of the clock and *)
(* nothing in the walk blocks; an LPC function that runs too long is cut   *)
(* short by the evaluation limit (set_eval), so heart_beat() ends.         *)
Fairness ==
  /\ WF_vars(StartWalk)
  /\ WF_vars(Skip \/ Beat)
  /\ WF_vars(BeatReturns \/ BeatFailsTooDeep)

Spec == Init /\ [][Next]_vars
FairSpec == Spec /\ Fairness

-----------------------------------------------------------------------------
(* Properties *)

(* The list and the O_HEART_BEAT flags agree: an object has at most one    *)
(* entry, it has one exactly if its flag is set, and a destructed object   *)
(* has none, whatever LPC code does from inside the walk.  Were it not so, *)
(* the walk would call into freed memory.                                  *)
ListMatchesFlags ==
  /\ \A i, j \in Indices : heart_beats[i].ob = heart_beats[j].ob => i = j
  /\ flagged = {heart_beats[i].ob : i \in Indices}
  /\ flagged \intersect destructed = {}

(* heart_beats[heart_beat_index] is read only inside the array, and the    *)
(* test ++heart_beat_index == num_hb_to_do, an equality, cannot be jumped  *)
(* over: removals during a beat never leave the index at or past the end.  *)
WalkInBounds ==
  /\ num_hb_to_do <= num_hb_objs
  /\ pc = "idle" => num_hb_to_do = 0
  /\ pc = "scan" => 0 <= heart_beat_index /\ heart_beat_index < num_hb_to_do
  /\ pc = "beat" => -1 <= heart_beat_index
                    /\ heart_beat_index + 1 <= num_hb_to_do

(* The entries from the cursor to the end of the walk are exactly the      *)
(* objects that were in the list when the walk began, have not been        *)
(* removed since and have not been visited: a removal before, at or after  *)
(* the cursor makes the walk neither miss an object nor visit one twice.   *)
WalkOwesExactlyPending ==
  LET from == IF pc = "scan" THEN heart_beat_index ELSE heart_beat_index + 1
  IN  pc # "idle" =>
        pending = {heart_beats[i].ob : i \in from .. num_hb_to_do - 1}

(* A walk ends only when it owes no visit. *)
NobodyMissed == pc = "idle" => pending = {}

(* An object whose interval fits a short beats on exactly every            *)
(* interval-th walk: never early, and never passed by when due, however    *)
(* the list is edited between and during the walks.                        *)
BeatsOnTime ==
  [][\A o \in HasBeat :
       (asked[o] \in 1 .. ShortHalf - 1 /\ o \in pending /\ o \notin pending'
          /\ o \in flagged')
         => ((pc' = "beat" /\ current_heart_beat' = o)
               <=> waited[o] + 1 = asked[o])]_vars

(* Once LPC code leaves the list alone, every object that has its heart    *)
(* beat on keeps beating: no entry starves.                                *)
EveryoneKeepsBeating ==
  \A o \in HasBeat :
    <>[](o \in flagged) => []<>(pc = "beat" /\ current_heart_beat = o)
=============================================================================
