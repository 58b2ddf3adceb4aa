--------------------------- MODULE HeartBeatProofs ---------------------------
(***************************************************************************)
(* Safety of the heart beat walk, for every set of objects, every short    *)
(* width and every number of LPC calls.                                    *)
(*                                                                         *)
(* IInv is inductive as it stands: the list's shape (ListMatchesFlags)     *)
(* gives each object one index, the cursor bounds (WalkInBounds) say where *)
(* a removed index lies with respect to the walk, and WalkOwesExactly-     *)
(* Pending needs both; NobodyMissed follows from it when the walk ends.    *)
(*                                                                         *)
(* Counts, the second invariant, says where an entry is in its interval:   *)
(* its ticks are the interval less the walks that passed its object.  An   *)
(* editing of the list moves entries and keeps that; BeatsOnTime follows.  *)
(***************************************************************************)
EXTENDS HeartBeat, TLAPS

(* Storing an int in a short yields an int. *)
LEMMA ToShortType == \A n \in Int : ToShort(n) \in Int
  BY HeartBeatAssumption DEF ToShort

Walk == ListMatchesFlags /\ WalkInBounds /\ WalkOwesExactlyPending
IInv == TypeOK /\ Walk /\ NobodyMissed

(* What taking out the entry at index i leaves of a list that was in order *)
(* before: types, one entry per flagged object, cursors and debts.         *)
LEMMA RemovalKeepsOrder ==
  ASSUME IInv, NEW i \in Indices, RemoveEntry(i)
  PROVE  /\ num_hb_objs' \in Nat
         /\ heart_beats' \in [0 .. num_hb_objs' - 1 -> Entry]
         /\ flagged' \subseteq Objects
         /\ asked' \in [Objects -> Int]
         /\ waited' \in [Objects -> Nat]
         /\ pending' \subseteq Objects
         /\ \A j, k \in 0 .. num_hb_objs' - 1 :
              heart_beats'[j].ob = heart_beats'[k].ob => j = k
         /\ flagged' = {heart_beats'[j].ob : j \in 0 .. num_hb_objs' - 1}
         /\ flagged' \subseteq flagged
         /\ heart_beats[i].ob \notin flagged'
<1> DEFINE From(j) == IF j < i THEN j ELSE j + 1
<1>1. /\ num_hb_objs \in Nat
      /\ i \in 0 .. num_hb_objs - 1
      /\ heart_beats \in [0 .. num_hb_objs - 1 -> Entry]
      /\ heart_beats[i].ob \in Objects
  BY DEF IInv, TypeOK, Indices, Entry
<1>2. /\ \A j, k \in 0 .. num_hb_objs - 1 :
           heart_beats[j].ob = heart_beats[k].ob => j = k
      /\ flagged = {heart_beats[j].ob : j \in 0 .. num_hb_objs - 1}
  BY DEF IInv, Walk, ListMatchesFlags, Indices
<1>3. /\ num_hb_objs' = num_hb_objs - 1
      /\ num_hb_objs' \in Nat
      /\ flagged' = flagged \ {heart_beats[i].ob}
      /\ heart_beats' = [j \in 0 .. num_hb_objs' - 1 |-> heart_beats[From(j)]]
  BY <1>1 DEF RemoveEntry, WithoutEntry
<1>4. \A j \in 0 .. num_hb_objs' - 1 :
        From(j) \in 0 .. num_hb_objs - 1 /\ From(j) # i
  BY <1>1, <1>3
<1>5. \A j, k \in 0 .. num_hb_objs' - 1 : From(j) = From(k) => j = k
  BY <1>1, <1>3
<1>6. \A k \in 0 .. num_hb_objs - 1 :
        k # i => \E j \in 0 .. num_hb_objs' - 1 : From(j) = k
  <2>1. ASSUME NEW k \in 0 .. num_hb_objs - 1, k < i
        PROVE  k \in 0 .. num_hb_objs' - 1 /\ From(k) = k
    BY <1>1, <1>3, <2>1
  <2>2. ASSUME NEW k \in 0 .. num_hb_objs - 1, k > i
        PROVE  k - 1 \in 0 .. num_hb_objs' - 1 /\ From(k - 1) = k
    BY <1>1, <1>3, <2>2
  <2>3. QED
    BY <2>1, <2>2, <1>1
<1> HIDE DEF From
<1>7. heart_beats' \in [0 .. num_hb_objs' - 1 -> Entry]
  BY <1>1, <1>3, <1>4
<1>8. \A j \in 0 .. num_hb_objs' - 1 : heart_beats'[j] = heart_beats[From(j)]
  BY <1>3
<1>9. \A j, k \in 0 .. num_hb_objs' - 1 :
        heart_beats'[j].ob = heart_beats'[k].ob => j = k
  BY <1>2, <1>4, <1>5, <1>8
<1>10. flagged' = {heart_beats'[j].ob : j \in 0 .. num_hb_objs' - 1}
  <2>1. flagged' \subseteq {heart_beats'[j].ob : j \in 0 .. num_hb_objs' - 1}
    BY <1>2, <1>3, <1>6, <1>8
  <2>2. \A j \in 0 .. num_hb_objs' - 1 : heart_beats'[j].ob \in flagged'
    BY <1>1, <1>2, <1>3, <1>4, <1>8
  <2>3. QED
    BY <2>1, <2>2
<1>11. asked' \in [Objects -> Int] /\ waited' \in [Objects -> Nat]
  BY <1>1 DEF IInv, TypeOK, RemoveEntry
<1>12. flagged' \subseteq Objects /\ pending' \subseteq Objects
  BY <1>3 DEF IInv, TypeOK, RemoveEntry
<1>13. QED
  BY <1>3, <1>7, <1>9, <1>10, <1>11, <1>12

(* The corrected cursors still delimit exactly the entries the walk owes   *)
(* a visit, wherever the removed entry lay.                                *)
LEMMA RemovalKeepsWalk ==
  ASSUME IInv, NEW i \in Indices, RemoveEntry(i), pc \in {"idle", "beat"}
  PROVE  /\ IndexWithout(i) \in Int
         /\ ToDoWithout(i) \in Int
         /\ ToDoWithout(i) <= num_hb_objs'
         /\ pc = "idle" => ToDoWithout(i) = 0
         /\ pc = "beat" =>
              /\ -1 <= IndexWithout(i)
              /\ IndexWithout(i) + 1 <= ToDoWithout(i)
              /\ pending' = {heart_beats'[j].ob :
                               j \in IndexWithout(i) + 1 .. ToDoWithout(i) - 1}
<1> DEFINE at == heart_beat_index
           todo == num_hb_to_do
           atNew == IndexWithout(i)
           todoNew == ToDoWithout(i)
<1>1. /\ num_hb_objs \in Nat /\ at \in Int /\ todo \in Int
      /\ i \in 0 .. num_hb_objs - 1
      /\ num_hb_objs' = num_hb_objs - 1
      /\ todo <= num_hb_objs
      /\ pc = "idle" => todo = 0
      /\ pc = "beat" => -1 <= at /\ at + 1 <= todo
  BY DEF IInv, TypeOK, Walk, WalkInBounds, Indices, RemoveEntry
<1>2. /\ atNew = IF todo # 0 /\ i <= at THEN at - 1 ELSE at
      /\ todoNew = IF todo # 0 /\ i < todo THEN todo - 1 ELSE todo
  BY DEF IndexWithout, ToDoWithout
<1>3. /\ \A j, k \in 0 .. num_hb_objs - 1 :
           heart_beats[j].ob = heart_beats[k].ob => j = k
      /\ pc = "beat" => pending = {heart_beats[j].ob : j \in at + 1 .. todo - 1}
  BY DEF IInv, Walk, ListMatchesFlags, WalkOwesExactlyPending, Indices
<1>4. /\ pending' = pending \ {heart_beats[i].ob}
      /\ \A j \in 0 .. num_hb_objs - 2 :
           heart_beats'[j] = IF j < i THEN heart_beats[j] ELSE heart_beats[j + 1]
  BY <1>1 DEF RemoveEntry, WithoutEntry
<1> HIDE DEF atNew, todoNew
<1>5. /\ atNew \in Int /\ todoNew \in Int
      /\ todoNew <= num_hb_objs'
      /\ pc = "idle" => todoNew = 0
      /\ pc = "beat" => -1 <= atNew /\ atNew + 1 <= todoNew
  BY <1>1, <1>2
<1>6. ASSUME pc = "beat"
      PROVE  pending' = {heart_beats'[j].ob : j \in atNew + 1 .. todoNew - 1}
  <2>1. CASE i <= at
    <3>1. atNew = at - 1 /\ todoNew = todo - 1
      BY <1>1, <1>2, <1>6, <2>1
    <3>2. \A j \in at .. todo - 2 : heart_beats'[j] = heart_beats[j + 1]
      BY <1>1, <1>4, <1>6, <2>1
    <3>3. heart_beats[i].ob \notin pending
      BY <1>1, <1>3, <1>6, <2>1
    <3>4. \A k \in at + 1 .. todo - 1 : k - 1 \in at .. todo - 2 /\ (k - 1) + 1 = k
      BY <1>1
    <3>5. {heart_beats[k].ob : k \in at + 1 .. todo - 1}
            = {heart_beats[j + 1].ob : j \in at .. todo - 2}
      <4>1. \A k \in at + 1 .. todo - 1 : 
              heart_beats[k].ob \in {heart_beats[j + 1].ob : j \in at .. todo - 2}
        <5>1. TAKE k \in at + 1 .. todo - 1
        <5>2. heart_beats[k].ob = heart_beats[(k - 1) + 1].ob
          BY <3>4
        <5>3. QED
          BY <5>2, <3>4
      <4>2. \A j \in at .. todo - 2 : j + 1 \in at + 1 .. todo - 1
        BY <1>1
      <4>3. QED
        BY <4>1, <4>2
    <3>6. pending' = {heart_beats[j + 1].ob : j \in at .. todo - 2}
      BY <1>3, <1>4, <1>6, <3>3, <3>5
    <3>7. atNew + 1 = at /\ todoNew - 1 = todo - 2
      BY <1>1, <3>1
    <3>8. QED
      BY <3>2, <3>6, <3>7
  <2>2. CASE i > at /\ i < todo
    <3>1. atNew = at /\ todoNew = todo - 1
      BY <1>1, <1>2, <1>6, <2>2
    <3>2. \A j \in at + 1 .. todo - 2 :
            \E k \in at + 1 .. todo - 1 : k # i /\ heart_beats'[j] = heart_beats[k]
      <4>1. TAKE j \in at + 1 .. todo - 2
      <4>2. j \in 0 .. num_hb_objs - 2
        BY <1>1, <1>6
      <4>3. CASE j < i
        BY <1>1, <1>4, <4>2, <4>3
      <4>4. CASE ~(j < i)
        <5>1. /\ j + 1 \in at + 1 .. todo - 1 /\ j + 1 # i
              /\ heart_beats'[j] = heart_beats[j + 1]
          BY <1>1, <1>4, <4>2, <4>4
        <5>2. QED
          BY <5>1
      <4>5. QED
        BY <4>3, <4>4
    <3>3. \A k \in at + 1 .. todo - 1 : k # i =>
            \E j \in at + 1 .. todo - 2 : heart_beats'[j] = heart_beats[k]
      <4>1. TAKE k \in at + 1 .. todo - 1
      <4>2. HAVE k # i
      <4>3. CASE k < i
        <5>1. k \in at + 1 .. todo - 2 /\ heart_beats'[k] = heart_beats[k]
          BY <1>1, <1>4, <1>6, <2>2, <4>3
        <5>2. QED
          BY <5>1
      <4>4. CASE k > i
        <5>1. /\ k - 1 \in at + 1 .. todo - 2
              /\ k - 1 \in 0 .. num_hb_objs - 2
              /\ ~(k - 1 < i) /\ (k - 1) + 1 = k
          BY <1>1, <1>6, <2>2, <4>4
        <5>2. heart_beats'[k - 1] = heart_beats[k]
          BY <1>4, <5>1
        <5>3. QED
          BY <5>1, <5>2
      <4>5. QED
        BY <4>2, <4>3, <4>4, <1>1
    <3>4. \A k \in at + 1 .. todo - 1 : k # i => heart_beats[k].ob # heart_beats[i].ob
      BY <1>1, <1>3, <1>6
    <3>5. pending' \subseteq {heart_beats'[j].ob : j \in at + 1 .. todo - 2}
      BY <1>3, <1>4, <1>6, <3>3
    <3>6. {heart_beats'[j].ob : j \in at + 1 .. todo - 2} \subseteq pending'
      BY <1>3, <1>4, <1>6, <3>2, <3>4
    <3>7. (todo - 1) - 1 = todo - 2
      BY <1>1
    <3>8. QED
      BY <3>1, <3>5, <3>6, <3>7
  <2>3. CASE i >= todo
    <3>1. atNew = at /\ todoNew = todo
      BY <1>1, <1>2, <1>6, <2>3
    <3>2. \A j \in at + 1 .. todo - 1 : heart_beats'[j] = heart_beats[j]
      BY <1>1, <1>4, <1>6, <2>3
    <3>3. heart_beats[i].ob \notin pending
      BY <1>1, <1>3, <1>6, <2>3
    <3>4. QED
      BY <1>3, <1>4, <1>6, <3>1, <3>2, <3>3
  <2>4. QED
    BY <1>1, <2>1, <2>2, <2>3
<1>7. QED
  BY <1>5, <1>6 DEF atNew, todoNew

(* The loop's test, an equality, ends the walk at its last entry and only  *)
(* there.                                                                  *)
LEMMA AdvanceKeepsWalk ==
  ASSUME NEW index \in Int, NEW todo \in Int,
         NEW whose \in Objects \union {NoObject},
         -1 <= index, index + 1 <= todo, todo <= num_hb_objs',
         num_hb_objs' \in Nat,
         pending' = {heart_beats'[j].ob : j \in index + 1 .. todo - 1},
         Advance(index, todo, whose)
  PROVE  /\ heart_beat_index' \in Int
         /\ num_hb_to_do' \in Int
         /\ current_heart_beat' \in Objects \union {NoObject}
         /\ pc' \in {"idle", "scan", "beat"}
         /\ WalkInBounds'
         /\ WalkOwesExactlyPending'
         /\ NobodyMissed'
<1>1. CASE index + 1 = todo
  <2>1. pending' = {}
    BY <1>1
  <2>2. QED
    BY <1>1, <2>1
    DEF Advance, WalkInBounds, WalkOwesExactlyPending, NobodyMissed
<1>2. CASE index + 1 # todo
  BY <1>2 DEF Advance, WalkInBounds, WalkOwesExactlyPending, NobodyMissed
<1>3. QED
  BY <1>1, <1>2

-----------------------------------------------------------------------------
(* One lemma per kind of step. *)

LEMMA DisableKeepsIInv ==
  ASSUME IInv, NEW ob \in Objects, pc \in {"idle", "beat"}, Disable(ob),
         ops' \in 0 .. MaxOps,
         destructed' \in {destructed, destructed \union {ob}},
         UNCHANGED <<current_heart_beat, pc>>
  PROVE  IInv'
<1>1. CASE \E i \in Indices :
             /\ heart_beats[i].ob = ob
             /\ RemoveEntry(i)
             /\ heart_beat_index' = IndexWithout(i)
             /\ num_hb_to_do' = ToDoWithout(i)
  <2>1. PICK i \in Indices :
             /\ heart_beats[i].ob = ob
             /\ RemoveEntry(i)
             /\ heart_beat_index' = IndexWithout(i)
             /\ num_hb_to_do' = ToDoWithout(i)
    BY <1>1
  <2>2. TypeOK'
    BY <2>1, RemovalKeepsOrder, RemovalKeepsWalk DEF IInv, TypeOK, Indices
  <2>3. ListMatchesFlags'
    <3>1. /\ \A j, k \in 0 .. num_hb_objs' - 1 :
               heart_beats'[j].ob = heart_beats'[k].ob => j = k
          /\ flagged' = {heart_beats'[j].ob : j \in 0 .. num_hb_objs' - 1}
          /\ flagged' \subseteq flagged
          /\ ob \notin flagged'
      BY <2>1, RemovalKeepsOrder
    <3>2. flagged' \intersect destructed' = {}
      BY <3>1 DEF IInv, Walk, ListMatchesFlags
    <3>3. QED
      BY <3>1, <3>2 DEF ListMatchesFlags, Indices
  <2>4. WalkInBounds' /\ WalkOwesExactlyPending'
    BY <2>1, RemovalKeepsWalk DEF WalkInBounds, WalkOwesExactlyPending
  <2>5. NobodyMissed'
    BY <2>1 DEF IInv, NobodyMissed, RemoveEntry
  <2>6. QED
    BY <2>2, <2>3, <2>4, <2>5 DEF IInv, Walk
<1>2. CASE ~HasEntry(ob) /\ UNCHANGED <<list, walk, history>>
  <2>1. ob \notin flagged
    BY <1>2 DEF IInv, Walk, ListMatchesFlags, HasEntry
  <2>2. QED
    BY <1>2, <2>1 DEF IInv, Walk, TypeOK, ListMatchesFlags, WalkInBounds,
      WalkOwesExactlyPending, NobodyMissed, Indices, list, walk, history
<1>3. QED
  BY <1>1, <1>2 DEF Disable

LEMMA RetimeKeepsIInv ==
  ASSUME IInv, NEW ob \in Objects, NEW to \in Int, Retime(ob, to),
         ops' \in 0 .. MaxOps,
         UNCHANGED <<current_heart_beat, destructed, pc>>
  PROVE  IInv'
<1>1. CASE to < 0
  <2>1. UNCHANGED <<list, walk, history>>
    BY <1>1 DEF Retime
  <2>2. TypeOK'
    BY <2>1 DEF IInv, TypeOK, Indices, list, walk, history
  <2>3. Walk' /\ NobodyMissed'
    BY <2>1 DEF IInv, Walk, ListMatchesFlags, WalkInBounds,
      WalkOwesExactlyPending, NobodyMissed, Indices, list, walk, history
  <2>4. QED
    BY <2>2, <2>3 DEF IInv
<1>2. CASE ~(to < 0)
  <2>1. /\ heart_beats' \in [Indices -> Entry]
        /\ \A i \in Indices : heart_beats'[i].ob = heart_beats[i].ob
    BY <1>2, ToShortType DEF Retime, IInv, TypeOK, Entry
  <2>2. num_hb_objs \in Nat /\ num_hb_to_do <= num_hb_objs
        /\ num_hb_to_do \in Int /\ heart_beat_index \in Int
    BY DEF IInv, TypeOK, Walk, WalkInBounds
  <2>3. UNCHANGED <<num_hb_objs, flagged, pending, walk>>
    BY <1>2 DEF Retime
  <2>4. TypeOK'
    <3>1. heart_beats' \in [Indices' -> Entry]
      BY <2>1, <2>3 DEF Indices
    <3>2. asked' \in [Objects -> Int] /\ waited' \in [Objects -> Nat]
      BY <1>2 DEF Retime, IInv, TypeOK
    <3>3. QED
      BY <2>3, <3>1, <3>2 DEF IInv, TypeOK, walk
  <2>5. ListMatchesFlags'
    BY <2>1, <2>3 DEF IInv, Walk, ListMatchesFlags, Indices
  <2>6. WalkInBounds' /\ NobodyMissed'
    BY <2>3 DEF IInv, Walk, WalkInBounds, NobodyMissed, walk
  <2>7. WalkOwesExactlyPending'
    <3>1. ASSUME pc # "idle"
          PROVE  \A j \in heart_beat_index .. num_hb_to_do - 1 :
                   j # -1 => heart_beats'[j].ob = heart_beats[j].ob
      BY <2>1, <2>2, <3>1 DEF IInv, TypeOK, Walk, WalkInBounds, Indices
    <3>2. CASE pc = "scan"
      <4>1. \A j \in heart_beat_index .. num_hb_to_do - 1 :
              heart_beats'[j].ob = heart_beats[j].ob
        BY <3>1, <3>2, <2>2 DEF IInv, Walk, WalkInBounds
      <4>2. QED
        BY <2>3, <3>2, <4>1 DEF IInv, Walk, WalkOwesExactlyPending, walk
    <3>3. CASE pc = "beat"
      <4>1. \A j \in heart_beat_index + 1 .. num_hb_to_do - 1 :
              heart_beats'[j].ob = heart_beats[j].ob
        BY <3>1, <3>3, <2>2 DEF IInv, Walk, WalkInBounds
      <4>2. QED
        BY <2>3, <3>3, <4>1 DEF IInv, Walk, WalkOwesExactlyPending, walk
    <3>4. QED
      BY <3>2, <3>3 DEF IInv, TypeOK, WalkOwesExactlyPending
  <2>8. QED
    BY <2>4, <2>5, <2>6, <2>7 DEF IInv, Walk
<1>3. QED
  BY <1>1, <1>2

LEMMA EnableKeepsIInv ==
  ASSUME IInv, NEW ob \in Objects \ destructed, NEW to \in Int, Enable(ob, to),
         ops' \in 0 .. MaxOps,
         UNCHANGED <<current_heart_beat, destructed, pc>>
  PROVE  IInv'
<1> DEFINE n == num_hb_objs
<1>1. /\ n \in Nat /\ num_hb_to_do <= n /\ num_hb_to_do \in Int
      /\ heart_beat_index \in Int
      /\ heart_beats \in [0 .. n - 1 -> Entry]
      /\ num_hb_objs' = n + 1
  BY DEF IInv, TypeOK, Walk, WalkInBounds, Indices, Enable
<1>2. PICK e \in Entry :
        /\ e.ob = ob
        /\ heart_beats' = [k \in 0 .. n |-> IF k = n THEN e ELSE heart_beats[k]]
  <2> DEFINE t == ToShort(IF to < 0 THEN 1 ELSE to)
  <2>1. [ob |-> ob, ticks |-> t, time |-> t] \in Entry
    BY ToShortType DEF Entry
  <2>2. QED
    BY <2>1 DEF Enable
<1>3. /\ heart_beats' \in [0 .. n -> Entry]
      /\ heart_beats'[n].ob = ob
      /\ \A k \in 0 .. n - 1 : heart_beats'[k] = heart_beats[k]
  BY <1>1, <1>2
<1>4. 0 .. n = (0 .. n - 1) \union {n} /\ n \notin 0 .. n - 1
      /\ (n + 1) - 1 = n
  BY <1>1
<1>5. TypeOK'
  BY <1>1, <1>3, <1>4 DEF Enable, IInv, TypeOK, Indices, walk
<1>6. ListMatchesFlags'
  <2>1. /\ \A k \in 0 .. n - 1 : heart_beats[k].ob # ob
        /\ \A j, k \in 0 .. n - 1 :
             heart_beats[j].ob = heart_beats[k].ob => j = k
    BY DEF Enable, IInv, Walk, ListMatchesFlags, Indices
  <2>2. flagged' = {heart_beats'[k].ob : k \in 0 .. n}
    BY <1>3, <1>4 DEF Enable, IInv, Walk, ListMatchesFlags, Indices
  <2>3. \A j, k \in 0 .. n : heart_beats'[j].ob = heart_beats'[k].ob => j = k
    BY <1>3, <1>4, <2>1
  <2>4. flagged' \intersect destructed' = {}
    BY DEF Enable, IInv, Walk, ListMatchesFlags
  <2>5. QED
    BY <1>1, <1>4, <2>2, <2>3, <2>4 DEF ListMatchesFlags, Indices
<1>7. WalkInBounds' /\ NobodyMissed'
  BY <1>1 DEF Enable, IInv, Walk, WalkInBounds, NobodyMissed, walk
<1>8. WalkOwesExactlyPending'
  <2>1. UNCHANGED <<walk, pending, pc>>
    BY DEF Enable
  <2>2. CASE pc = "scan"
    <3>1. \A j \in heart_beat_index .. num_hb_to_do - 1 :
            heart_beats'[j] = heart_beats[j]
      BY <1>1, <1>3, <2>2 DEF IInv, Walk, WalkInBounds
    <3>2. QED
      BY <2>1, <2>2, <3>1 DEF IInv, Walk, WalkOwesExactlyPending, walk
  <2>3. CASE pc = "beat"
    <3>1. \A j \in heart_beat_index + 1 .. num_hb_to_do - 1 :
            heart_beats'[j] = heart_beats[j]
      BY <1>1, <1>3, <2>3 DEF IInv, Walk, WalkInBounds
    <3>2. QED
      BY <2>1, <2>3, <3>1 DEF IInv, Walk, WalkOwesExactlyPending, walk
  <2>4. CASE pc = "idle"
    BY <2>1, <2>4 DEF WalkOwesExactlyPending
  <2>5. QED
    BY <2>2, <2>3, <2>4 DEF IInv, TypeOK
<1>9. QED
  BY <1>5, <1>6, <1>7, <1>8 DEF IInv, Walk

LEMMA StartWalkKeepsIInv == IInv /\ StartWalk => IInv'
  BY DEF StartWalk, IInv, Walk, TypeOK, ListMatchesFlags, WalkInBounds,
    WalkOwesExactlyPending, NobodyMissed, Indices, list

(* Serving the entry at the cursor settles exactly that entry's debt. *)
LEMMA ServedLeavesRest ==
  ASSUME IInv, pc = "scan"
  PROVE  /\ Served \in Objects
         /\ heart_beat_index \in Indices
         /\ heart_beats[heart_beat_index] \in Entry
         /\ TicksLeft \in Int
         /\ pending \ {Served} =
              {heart_beats[j].ob : j \in heart_beat_index + 1 .. num_hb_to_do - 1}
<1> DEFINE at == heart_beat_index
<1>1. /\ num_hb_objs \in Nat /\ at \in Int /\ num_hb_to_do \in Int
      /\ 0 <= at /\ at < num_hb_to_do /\ num_hb_to_do <= num_hb_objs
      /\ heart_beats \in [Indices -> Entry]
  BY DEF IInv, TypeOK, Walk, WalkInBounds
<1>2. at \in Indices /\ heart_beats[at] \in Entry
  BY <1>1 DEF Indices
<1>3. Served \in Objects /\ TicksLeft \in Int
  BY <1>2, ToShortType DEF Served, TicksLeft, Entry
<1>4. /\ at .. num_hb_to_do - 1 = {at} \union (at + 1 .. num_hb_to_do - 1)
      /\ at \notin at + 1 .. num_hb_to_do - 1
      /\ at + 1 .. num_hb_to_do - 1 \subseteq Indices
  BY <1>1 DEF Indices
<1>5. \A j \in at + 1 .. num_hb_to_do - 1 : heart_beats[j].ob # Served
  BY <1>2, <1>4 DEF IInv, Walk, ListMatchesFlags, Served
<1>6. pending = {heart_beats[j].ob : j \in at .. num_hb_to_do - 1}
  BY DEF IInv, Walk, WalkOwesExactlyPending
<1>7. QED
  BY <1>2, <1>3, <1>4, <1>5, <1>6 DEF Served

(* A visit changes counters only: the list's shape is left as it was. *)
LEMMA TicksKeepShape ==
  ASSUME IInv, pc = "scan", NEW t \in Int,
         heart_beats' = [heart_beats EXCEPT ![heart_beat_index].ticks = t],
         UNCHANGED <<num_hb_objs, flagged, destructed>>
  PROVE  /\ heart_beats' \in [Indices' -> Entry]
         /\ \A j \in Indices : heart_beats'[j].ob = heart_beats[j].ob
         /\ ListMatchesFlags'
<1>1. heart_beats \in [Indices -> Entry] /\ Indices' = Indices
  BY DEF IInv, TypeOK, Indices
<1>2. heart_beat_index \in Indices
  BY ServedLeavesRest
<1>3. /\ heart_beats' \in [Indices -> Entry]
      /\ \A j \in Indices : heart_beats'[j].ob = heart_beats[j].ob
  BY <1>1, <1>2 DEF Entry
<1>4. ListMatchesFlags'
  BY <1>1, <1>3 DEF IInv, Walk, ListMatchesFlags
<1>5. QED
  BY <1>1, <1>3, <1>4

LEMMA SkipKeepsIInv == IInv /\ Skip => IInv'
<1> SUFFICES ASSUME IInv, Skip PROVE IInv'
  OBVIOUS
<1> DEFINE at == heart_beat_index
<1>1. /\ pc = "scan" /\ UNCHANGED <<num_hb_objs, flagged, destructed, ops, asked>>
      /\ heart_beats' = [heart_beats EXCEPT ![at].ticks = TicksLeft]
      /\ pending' = pending \ {Served}
      /\ Advance(at, num_hb_to_do, current_heart_beat)
  BY DEF Skip
<1>2. /\ Served \in Objects /\ TicksLeft \in Int
      /\ pending' = {heart_beats[j].ob : j \in at + 1 .. num_hb_to_do - 1}
  BY <1>1, ServedLeavesRest
<1>3. /\ heart_beats' \in [Indices' -> Entry]
      /\ \A j \in Indices : heart_beats'[j].ob = heart_beats[j].ob
      /\ ListMatchesFlags'
  BY <1>1, <1>2, TicksKeepShape
<1>4. /\ at \in Int /\ num_hb_to_do \in Int /\ num_hb_objs' \in Nat
      /\ -1 <= at /\ at + 1 <= num_hb_to_do /\ num_hb_to_do <= num_hb_objs'
      /\ at + 1 .. num_hb_to_do - 1 \subseteq Indices
      /\ current_heart_beat \in Objects \union {NoObject}
  BY <1>1 DEF IInv, TypeOK, Walk, WalkInBounds, Indices
<1>5. pending' = {heart_beats'[j].ob : j \in at + 1 .. num_hb_to_do - 1}
  BY <1>2, <1>3, <1>4
<1>6. /\ heart_beat_index' \in Int
      /\ num_hb_to_do' \in Int
      /\ current_heart_beat' \in Objects \union {NoObject}
      /\ pc' \in {"idle", "scan", "beat"}
      /\ WalkInBounds' /\ WalkOwesExactlyPending' /\ NobodyMissed'
  BY <1>1, <1>4, <1>5, AdvanceKeepsWalk
<1>7. waited' \in [Objects -> Nat]
  BY <1>2 DEF Skip, IInv, TypeOK
<1>8. TypeOK'
  BY <1>1, <1>3, <1>4, <1>6, <1>7 DEF IInv, TypeOK
<1>9. QED
  BY <1>3, <1>6, <1>8 DEF IInv, Walk

LEMMA BeatKeepsIInv == IInv /\ Beat => IInv'
<1> SUFFICES ASSUME IInv, Beat PROVE IInv'
  OBVIOUS
<1> DEFINE at == heart_beat_index
           t == heart_beats[at].time
<1>1. /\ pc = "scan" /\ pc' = "beat"
      /\ UNCHANGED <<num_hb_objs, walk, flagged, destructed, ops, asked>>
      /\ heart_beats' = [heart_beats EXCEPT ![at].ticks = t]
      /\ pending' = pending \ {Served}
      /\ current_heart_beat' = Served
  BY DEF Beat
<1>2. /\ Served \in Objects /\ t \in Int
      /\ pending' = {heart_beats[j].ob : j \in at + 1 .. num_hb_to_do - 1}
  BY <1>1, ServedLeavesRest DEF Entry
<1>3. /\ heart_beats' \in [Indices' -> Entry]
      /\ \A j \in Indices : heart_beats'[j].ob = heart_beats[j].ob
      /\ ListMatchesFlags'
  <2> HIDE DEF t
  <2>1. QED
    BY <1>1, <1>2, TicksKeepShape
<1>4. /\ at \in Int /\ num_hb_to_do \in Int /\ num_hb_objs \in Nat
      /\ -1 <= at /\ at + 1 <= num_hb_to_do /\ num_hb_to_do <= num_hb_objs
      /\ at + 1 .. num_hb_to_do - 1 \subseteq Indices
  BY <1>1 DEF IInv, TypeOK, Walk, WalkInBounds, Indices
<1>5. pending' = {heart_beats'[j].ob : j \in at + 1 .. num_hb_to_do - 1}
  BY <1>2, <1>3, <1>4
<1>6. WalkInBounds' /\ WalkOwesExactlyPending' /\ NobodyMissed'
  BY <1>1, <1>4, <1>5 DEF WalkInBounds, WalkOwesExactlyPending, NobodyMissed, walk
<1>7. waited' \in [Objects -> Nat]
  BY <1>2 DEF Beat, IInv, TypeOK
<1>8. TypeOK'
  BY <1>1, <1>2, <1>3, <1>7 DEF IInv, TypeOK, walk
<1>9. QED
  BY <1>3, <1>6, <1>8 DEF IInv, Walk

LEMMA BeatReturnsKeepsIInv == IInv /\ BeatReturns => IInv'
<1> SUFFICES ASSUME IInv, BeatReturns PROVE IInv'
  OBVIOUS
<1>1. /\ pc = "beat" /\ UNCHANGED <<list, history, destructed, ops>>
      /\ Advance(heart_beat_index, num_hb_to_do, current_heart_beat)
  BY DEF BeatReturns
<1>2. /\ heart_beat_index \in Int /\ num_hb_to_do \in Int /\ num_hb_objs' \in Nat
      /\ -1 <= heart_beat_index /\ heart_beat_index + 1 <= num_hb_to_do
      /\ num_hb_to_do <= num_hb_objs'
      /\ current_heart_beat \in Objects \union {NoObject}
      /\ pending' = {heart_beats'[j].ob :
                       j \in heart_beat_index + 1 .. num_hb_to_do - 1}
  BY <1>1 DEF IInv, TypeOK, Walk, WalkInBounds, WalkOwesExactlyPending,
    list, history
<1>3. /\ heart_beat_index' \in Int
      /\ num_hb_to_do' \in Int
      /\ current_heart_beat' \in Objects \union {NoObject}
      /\ pc' \in {"idle", "scan", "beat"}
      /\ WalkInBounds' /\ WalkOwesExactlyPending' /\ NobodyMissed'
  BY <1>1, <1>2, AdvanceKeepsWalk
<1>4. TypeOK' /\ ListMatchesFlags'
  BY <1>1, <1>3 DEF IInv, TypeOK, Walk, ListMatchesFlags, Indices, list, history
<1>5. QED
  BY <1>3, <1>4 DEF IInv, Walk

LEMMA BeatFailsTooDeepKeepsIInv == IInv /\ BeatFailsTooDeep => IInv'
<1> SUFFICES ASSUME IInv, BeatFailsTooDeep PROVE IInv'
  OBVIOUS
<1>1. pc = "beat" /\ UNCHANGED <<destructed, ops>>
  BY DEF BeatFailsTooDeep
<1>2. CASE \E i \in Indices :
             /\ heart_beats[i].ob = current_heart_beat
             /\ RemoveEntry(i)
             /\ Advance(IndexWithout(i), ToDoWithout(i), NoObject)
  <2>1. PICK i \in Indices :
             /\ RemoveEntry(i)
             /\ Advance(IndexWithout(i), ToDoWithout(i), NoObject)
    BY <1>2
  <2>2. /\ num_hb_objs' \in Nat
        /\ heart_beats' \in [0 .. num_hb_objs' - 1 -> Entry]
        /\ flagged' \subseteq Objects
        /\ asked' \in [Objects -> Int]
        /\ waited' \in [Objects -> Nat]
        /\ pending' \subseteq Objects
        /\ \A j, k \in 0 .. num_hb_objs' - 1 :
             heart_beats'[j].ob = heart_beats'[k].ob => j = k
        /\ flagged' = {heart_beats'[j].ob : j \in 0 .. num_hb_objs' - 1}
        /\ flagged' \subseteq flagged
    BY <2>1, RemovalKeepsOrder
  <2>3. /\ IndexWithout(i) \in Int
        /\ ToDoWithout(i) \in Int
        /\ ToDoWithout(i) <= num_hb_objs'
        /\ -1 <= IndexWithout(i)
        /\ IndexWithout(i) + 1 <= ToDoWithout(i)
        /\ pending' = {heart_beats'[j].ob :
                         j \in IndexWithout(i) + 1 .. ToDoWithout(i) - 1}
    BY <1>1, <2>1, RemovalKeepsWalk
  <2>4. /\ heart_beat_index' \in Int
        /\ num_hb_to_do' \in Int
        /\ current_heart_beat' \in Objects \union {NoObject}
        /\ pc' \in {"idle", "scan", "beat"}
        /\ WalkInBounds' /\ WalkOwesExactlyPending' /\ NobodyMissed'
    BY <2>1, <2>2, <2>3, AdvanceKeepsWalk
  <2>5. TypeOK'
    BY <1>1, <2>2, <2>4 DEF IInv, TypeOK, Indices
  <2>6. ListMatchesFlags'
    BY <1>1, <2>2 DEF IInv, Walk, ListMatchesFlags, Indices
  <2>7. QED
    BY <2>4, <2>5, <2>6 DEF IInv, Walk
<1>3. CASE /\ Advance(heart_beat_index, num_hb_to_do, NoObject)
           /\ UNCHANGED <<list, history>>
  <2>1. /\ heart_beat_index \in Int /\ num_hb_to_do \in Int
        /\ num_hb_objs' \in Nat
        /\ -1 <= heart_beat_index /\ heart_beat_index + 1 <= num_hb_to_do
        /\ num_hb_to_do <= num_hb_objs'
        /\ pending' = {heart_beats'[j].ob :
                         j \in heart_beat_index + 1 .. num_hb_to_do - 1}
    BY <1>1, <1>3 DEF IInv, TypeOK, Walk, WalkInBounds, WalkOwesExactlyPending,
      list, history
  <2>2. /\ heart_beat_index' \in Int
        /\ num_hb_to_do' \in Int
        /\ current_heart_beat' \in Objects \union {NoObject}
        /\ pc' \in {"idle", "scan", "beat"}
        /\ WalkInBounds' /\ WalkOwesExactlyPending' /\ NobodyMissed'
    BY <1>3, <2>1, AdvanceKeepsWalk
  <2>3. TypeOK' /\ ListMatchesFlags'
    BY <1>1, <1>3, <2>2 DEF IInv, TypeOK, Walk, ListMatchesFlags, Indices,
      list, history
  <2>4. QED
    BY <2>2, <2>3 DEF IInv, Walk
<1>4. QED
  BY <1>2, <1>3 DEF BeatFailsTooDeep

-----------------------------------------------------------------------------
LEMMA InitIInv == Init => IInv
  BY HeartBeatAssumption DEF Init, IInv, Walk, TypeOK, ListMatchesFlags,
    WalkInBounds, WalkOwesExactlyPending, NobodyMissed, Indices

LEMMA StepKeepsIInv == IInv /\ [Next]_vars => IInv'
<1> SUFFICES ASSUME IInv, [Next]_vars PROVE IInv'
  OBVIOUS
<1>1. ASSUME NEW ob \in Objects, NEW to \in Intervals, SetHeartBeat(ob, to)
      PROVE  IInv'
  <2>1. /\ to \in Int /\ ob \in Objects \ destructed
        /\ pc \in {"idle", "beat"} /\ ops' \in 0 .. MaxOps
        /\ UNCHANGED <<current_heart_beat, destructed, pc>>
        /\ Disable(ob) \/ Retime(ob, to) \/ Enable(ob, to)
    BY <1>1, HeartBeatAssumption DEF SetHeartBeat, LpcRuns, IInv, TypeOK
  <2>2. QED
    BY <2>1, DisableKeepsIInv, RetimeKeepsIInv, EnableKeepsIInv
<1>2. ASSUME NEW ob \in Objects, Destruct(ob)
      PROVE  IInv'
  <2>1. /\ pc \in {"idle", "beat"} /\ ops' \in 0 .. MaxOps
        /\ destructed' = destructed \union {ob}
        /\ UNCHANGED <<current_heart_beat, pc>>
        /\ Disable(ob)
    BY <1>2, HeartBeatAssumption DEF Destruct, LpcRuns, IInv, TypeOK
  <2>2. QED
    BY <2>1, DisableKeepsIInv
<1>3. CASE UNCHANGED vars
  BY <1>3 DEF vars, list, walk, history, IInv, Walk, TypeOK, ListMatchesFlags,
    WalkInBounds, WalkOwesExactlyPending, NobodyMissed, Indices
<1>4. CASE NothingToWalk
  BY <1>3, <1>4 DEF NothingToWalk
<1>5. QED
  BY <1>1, <1>2, <1>3, <1>4, StartWalkKeepsIInv, SkipKeepsIInv, BeatKeepsIInv,
    BeatReturnsKeepsIInv, BeatFailsTooDeepKeepsIInv DEF Next

LEMMA AlwaysIInv == Spec => []IInv
  BY InitIInv, StepKeepsIInv, PTL DEF Spec

(* The types hold in every reachable state, for every set of objects. *)
THEOREM TypeCorrect == Spec => []TypeOK
<1>1. IInv => TypeOK
  BY DEF IInv
<1>2. QED
  BY <1>1, AlwaysIInv, PTL

(* The list holds exactly the flagged objects, once each, and never a      *)
(* destructed one.                                                         *)
THEOREM ListAlwaysMatchesFlags == Spec => []ListMatchesFlags
<1>1. IInv => ListMatchesFlags
  BY DEF IInv, Walk
<1>2. QED
  BY <1>1, AlwaysIInv, PTL

(* The walk never reads outside the array and its end test is never        *)
(* jumped over.                                                            *)
THEOREM WalkAlwaysInBounds == Spec => []WalkInBounds
<1>1. IInv => WalkInBounds
  BY DEF IInv, Walk
<1>2. QED
  BY <1>1, AlwaysIInv, PTL

(* Between its cursors the walk has exactly the objects it still owes a    *)
(* visit, whatever is removed or appended during a beat.                   *)
THEOREM WalkAlwaysOwesPending == Spec => []WalkOwesExactlyPending
<1>1. IInv => WalkOwesExactlyPending
  BY DEF IInv, Walk
<1>2. QED
  BY <1>1, AlwaysIInv, PTL

(* No walk ends owing a visit. *)
THEOREM NobodyEverMissed == Spec => []NobodyMissed
<1>1. IInv => NobodyMissed
  BY DEF IInv
<1>2. QED
  BY <1>1, AlwaysIInv, PTL

-----------------------------------------------------------------------------
(* Beats on time *)

(* What an entry counts down is what is left of an interval that fits a    *)
(* short, after the walks that have passed its object.                     *)
Counted(e, interval, walks) ==
  interval \in 1 .. ShortHalf - 1 =>
    e.time = interval /\ walks < interval /\ e.ticks = interval - walks

Counts ==
  /\ \A i \in Indices :
       LET o == heart_beats[i].ob
       IN  o \in HasBeat => Counted(heart_beats[i], asked[o], waited[o])
  /\ \A o \in Objects \ flagged : waited[o] = 0

LEMMA ShortIs == \A n \in 0 .. ShortHalf - 1 : ToShort(n) = n
<1> SUFFICES ASSUME NEW n \in 0 .. ShortHalf - 1 PROVE ToShort(n) = n
  OBVIOUS
<1> DEFINE m == 2 * ShortHalf
           k == n + ShortHalf
<1>1. m \in Nat \ {0} /\ k \in 0 .. m - 1 /\ k - ShortHalf = n
  BY HeartBeatAssumption
<1>2. \A a, b \in Int : b > 0 /\ 0 <= a /\ a < b => a % b = a
  OBVIOUS
<1>3. k % m = k
  <2> HIDE DEF k, m
  <2> QED
    BY <1>1, <1>2
<1> QED
  BY <1>1, <1>3 DEF ToShort

LEMMA EntriesAre ==
  ASSUME IInv
  PROVE  /\ num_hb_objs \in Nat /\ Indices = 0 .. num_hb_objs - 1
         /\ heart_beats \in [Indices -> Entry]
         /\ \A i \in Indices : /\ heart_beats[i] \in Entry
                               /\ heart_beats[i].ob \in Objects
                               /\ heart_beats[i].ob \in flagged
         /\ \A i, j \in Indices : heart_beats[i].ob = heart_beats[j].ob => i = j
         /\ asked \in [Objects -> Int] /\ waited \in [Objects -> Nat]
BY DEF IInv, TypeOK, Walk, ListMatchesFlags, Indices, Entry

LEMMA SameCounts ==
  ASSUME Counts, UNCHANGED <<list, asked, waited>>
  PROVE  Counts'
BY DEF Counts, list, Indices

LEMMA RemovalKeepsCounts ==
  ASSUME IInv, Counts, NEW i \in Indices, RemoveEntry(i)
  PROVE  Counts'
<1> DEFINE From(j) == IF j < i THEN j ELSE j + 1
           ob == heart_beats[i].ob
<1>1. /\ num_hb_objs' = num_hb_objs - 1
      /\ flagged' = flagged \ {ob}
      /\ heart_beats' = [j \in 0 .. num_hb_objs - 2 |-> heart_beats[From(j)]]
      /\ asked' = [asked EXCEPT ![ob] = 0]
      /\ waited' = [waited EXCEPT ![ob] = 0]
  BY DEF RemoveEntry, WithoutEntry
<1>2. /\ ob \in Objects /\ i \in Int /\ num_hb_objs \in Nat
      /\ Indices' = 0 .. num_hb_objs - 2
  BY <1>1, EntriesAre DEF Indices
<1>3. ASSUME NEW j \in Indices'
      PROVE  /\ From(j) \in Indices /\ From(j) # i
             /\ heart_beats'[j] = heart_beats[From(j)]
  BY <1>1, <1>2 DEF Indices
<1>4. \A o \in Objects : o # ob => asked'[o] = asked[o] /\ waited'[o] = waited[o]
  BY <1>1, EntriesAre
<1>5. waited'[ob] = 0
  BY <1>1, <1>2, EntriesAre
<1> HIDE DEF From, ob
<1>6. ASSUME NEW j \in Indices', heart_beats'[j].ob \in HasBeat
      PROVE  Counted(heart_beats'[j], asked'[heart_beats'[j].ob],
                     waited'[heart_beats'[j].ob])
  <2>1. heart_beats[From(j)].ob # ob /\ heart_beats[From(j)].ob \in Objects
    BY <1>3, EntriesAre DEF ob
  <2> QED
    BY <1>3, <1>4, <1>6, <2>1 DEF Counts
<1>7. \A o \in Objects \ flagged' : waited'[o] = 0
  BY <1>1, <1>4, <1>5 DEF Counts
<1> QED
  BY <1>6, <1>7 DEF Counts

LEMMA DisableKeepsCounts ==
  ASSUME IInv, Counts, NEW ob \in Objects, Disable(ob)
  PROVE  Counts'
BY RemovalKeepsCounts, SameCounts DEF Disable, history

LEMMA RetimeKeepsCounts ==
  ASSUME IInv, Counts, NEW ob \in Objects, NEW to \in Int, Retime(ob, to)
  PROVE  Counts'
<1>1. CASE UNCHANGED <<list, history>>
  BY <1>1, SameCounts DEF history
<1>2. ASSUME to > 0,
             heart_beats' =
               [i \in Indices |->
                  IF heart_beats[i].ob = ob
                  THEN [ob |-> ob, ticks |-> ToShort(to), time |-> ToShort(to)]
                  ELSE heart_beats[i]],
             asked' = [asked EXCEPT ![ob] = to],
             waited' = [waited EXCEPT ![ob] = 0],
             UNCHANGED <<num_hb_objs, flagged>>
      PROVE  Counts'
  <2>1. Indices' = Indices
    BY <1>2 DEF Indices
  <2>2. /\ asked'[ob] = to /\ waited'[ob] = 0
        /\ \A o \in Objects : o # ob => asked'[o] = asked[o] /\ waited'[o] = waited[o]
    BY <1>2, EntriesAre
  <2>3. ASSUME NEW i \in Indices, heart_beats'[i].ob \in HasBeat
        PROVE  Counted(heart_beats'[i], asked'[heart_beats'[i].ob],
                       waited'[heart_beats'[i].ob])
    <3>1. CASE heart_beats[i].ob = ob
      <4>1. heart_beats'[i] = [ob |-> ob, ticks |-> ToShort(to), time |-> ToShort(to)]
        BY <1>2, <3>1
      <4>2. to \in 1 .. ShortHalf - 1 => ToShort(to) = to
        BY ShortIs, HeartBeatAssumption
      <4> QED
        BY <2>2, <4>1, <4>2 DEF Counted
    <3>2. CASE heart_beats[i].ob # ob
      <4>1. heart_beats'[i] = heart_beats[i] /\ heart_beats[i].ob \in Objects
        BY <1>2, <3>2, EntriesAre
      <4> QED
        BY <2>2, <2>3, <3>2, <4>1 DEF Counts
    <3> QED
      BY <3>1, <3>2
  <2>4. \A o \in Objects \ flagged' : waited'[o] = 0
    BY <1>2, <2>2 DEF Counts
  <2> QED
    BY <2>1, <2>3, <2>4 DEF Counts
<1> QED
  BY <1>1, <1>2 DEF Retime

LEMMA EnableKeepsCounts ==
  ASSUME IInv, Counts, NEW ob \in Objects, NEW to \in Int, Enable(ob, to)
  PROVE  Counts'
<1> DEFINE n == num_hb_objs
           interval == IF to < 0 THEN 1 ELSE to
           e == [ob |-> ob, ticks |-> ToShort(interval), time |-> ToShort(interval)]
<1>1. /\ ob \notin flagged /\ num_hb_objs' = n + 1
      /\ heart_beats' = [k \in 0 .. n |-> IF k = n THEN e ELSE heart_beats[k]]
      /\ flagged' = flagged \union {ob}
      /\ asked' = [asked EXCEPT ![ob] = interval]
      /\ waited' = waited
  BY DEF Enable
<1>2. n \in Nat /\ Indices = 0 .. n - 1 /\ Indices' = 0 .. n
  BY <1>1, EntriesAre DEF Indices
<1>3. /\ asked'[ob] = interval /\ waited[ob] = 0
      /\ \A o \in Objects : o # ob => asked'[o] = asked[o]
  BY <1>1, EntriesAre DEF Counts
<1>4. interval \in Int /\ (interval \in 1 .. ShortHalf - 1 => ToShort(interval) = interval)
  BY ShortIs, HeartBeatAssumption
<1>5. Counted(e, interval, 0)
  <2> HIDE DEF interval
  <2> QED
    BY <1>4 DEF Counted
<1>6. ASSUME NEW i \in Indices', heart_beats'[i].ob \in HasBeat
      PROVE  Counted(heart_beats'[i], asked'[heart_beats'[i].ob],
                     waited[heart_beats'[i].ob])
  <2>1. CASE i = n
    <3>1. heart_beats'[i] = e /\ e.ob = ob
      BY <1>1, <1>2, <2>1
    <3> HIDE DEF e
    <3> QED
      BY <1>3, <1>5, <3>1
  <2>2. CASE i # n
    <3>1. i \in Indices /\ heart_beats'[i] = heart_beats[i]
      BY <1>1, <1>2, <2>2
    <3>2. heart_beats[i].ob \in Objects /\ heart_beats[i].ob # ob
      BY <1>1, <3>1, EntriesAre
    <3> QED
      BY <1>3, <1>6, <3>1, <3>2 DEF Counts
  <2> QED
    BY <2>1, <2>2
<1> QED
  BY <1>1, <1>6 DEF Counts

(* The entry at the cursor has as much left as its object still waits.     *)
LEMMA ServedIsCounted ==
  ASSUME IInv, Counts, pc = "scan"
  PROVE  /\ heart_beat_index \in Indices
         /\ Served \in Objects /\ Served \in flagged /\ waited[Served] \in Nat
         /\ Served \in HasBeat /\ asked[Served] \in 1 .. ShortHalf - 1 =>
              /\ heart_beats[heart_beat_index].time = asked[Served]
              /\ waited[Served] < asked[Served]
              /\ TicksLeft = asked[Served] - (waited[Served] + 1)
              /\ IsDue <=> waited[Served] + 1 = asked[Served]
<1> DEFINE at == heart_beat_index
           o == Served
<1>1. at \in Indices /\ o \in Objects /\ o \in flagged /\ waited[o] \in Nat
  BY ServedLeavesRest, EntriesAre DEF Served
<1>2. ASSUME o \in HasBeat, asked[o] \in 1 .. ShortHalf - 1
      PROVE  /\ heart_beats[at].time = asked[o] /\ waited[o] < asked[o]
             /\ TicksLeft = asked[o] - (waited[o] + 1)
             /\ IsDue <=> waited[o] + 1 = asked[o]
  <2>1. /\ heart_beats[at].time = asked[o] /\ waited[o] < asked[o]
        /\ heart_beats[at].ticks = asked[o] - waited[o]
    BY <1>1, <1>2 DEF Counts, Counted, Served
  <2>2. /\ heart_beats[at].ticks - 1 = asked[o] - (waited[o] + 1)
        /\ heart_beats[at].ticks - 1 \in 0 .. ShortHalf - 1
    BY <1>1, <1>2, <2>1, HeartBeatAssumption
  <2>3. TicksLeft = asked[o] - (waited[o] + 1)
    BY <2>2, ShortIs DEF TicksLeft
  <2>4. IsDue <=> waited[o] + 1 = asked[o]
    BY <1>1, <1>2, <2>1, <2>3 DEF IsDue
  <2> QED
    BY <2>1, <2>3, <2>4
<1> QED
  BY <1>1, <1>2

(* A visit changes the count of the entry served and of nobody else.       *)
LEMMA VisitKeepsCounts ==
  ASSUME IInv, Counts, pc = "scan", NEW ticks \in Int, NEW walks \in Nat,
         heart_beats' = [heart_beats EXCEPT ![heart_beat_index].ticks = ticks],
         waited' = [waited EXCEPT ![Served] = walks],
         UNCHANGED <<num_hb_objs, flagged, asked>>,
         Served \in HasBeat /\ asked[Served] \in 1 .. ShortHalf - 1 =>
           walks < asked[Served] /\ ticks = asked[Served] - walks
  PROVE  Counts'
<1> DEFINE at == heart_beat_index
<1>1. at \in Indices /\ Served \in Objects /\ Served \in flagged
  BY ServedIsCounted
<1>2. Indices' = Indices
  BY DEF Indices
<1>3. \A o \in Objects : waited'[o] = IF o = Served THEN walks ELSE waited[o]
  BY EntriesAre
<1>4. /\ heart_beats'[at].ob = Served /\ heart_beats'[at].ticks = ticks
      /\ heart_beats'[at].time = heart_beats[at].time
      /\ \A i \in Indices \ {at} : heart_beats'[i] = heart_beats[i]
  BY <1>1, EntriesAre DEF Entry, Served
<1>5. ASSUME NEW i \in Indices, heart_beats'[i].ob \in HasBeat
      PROVE  Counted(heart_beats'[i], asked[heart_beats'[i].ob],
                     waited'[heart_beats'[i].ob])
  <2>1. CASE i = at
    <3>1. heart_beats'[i].ob = Served /\ waited'[Served] = walks
      BY <1>1, <1>3, <1>4, <2>1
    <3>2. Counted(heart_beats'[i], asked[Served], walks)
      BY <1>4, <1>5, <2>1, <3>1, ServedIsCounted DEF Counted
    <3> QED
      BY <3>1, <3>2
  <2>2. CASE i # at
    <3>1. heart_beats'[i] = heart_beats[i] /\ heart_beats[i].ob \in Objects
      BY <1>4, <2>2, EntriesAre
    <3>2. heart_beats[i].ob # Served
      BY <1>1, <2>2, EntriesAre DEF Served
    <3> QED
      BY <1>3, <1>5, <3>1, <3>2 DEF Counts
  <2> QED
    BY <2>1, <2>2
<1>6. \A o \in Objects \ flagged' : waited'[o] = 0
  BY <1>1, <1>3 DEF Counts
<1> QED
  BY <1>2, <1>5, <1>6 DEF Counts

LEMMA SkipKeepsCounts ==
  ASSUME IInv, Counts, Skip
  PROVE  Counts'
<1>1. /\ pc = "scan" /\ ~IsDue
      /\ heart_beats' = [heart_beats EXCEPT ![heart_beat_index].ticks = TicksLeft]
      /\ waited' = [waited EXCEPT ![Served] = IF Served \in HasBeat THEN @ + 1
                                                                    ELSE @]
      /\ UNCHANGED <<num_hb_objs, flagged, asked>>
  BY DEF Skip
<1> DEFINE walks == IF Served \in HasBeat THEN waited[Served] + 1
                                          ELSE waited[Served]
<1>2. /\ TicksLeft \in Int /\ Served \in Objects /\ waited[Served] \in Nat
      /\ walks \in Nat
  BY <1>1, ServedLeavesRest, EntriesAre
<1>3. waited' = [waited EXCEPT ![Served] = walks]
  BY <1>1, <1>2, EntriesAre
<1>4. Served \in HasBeat /\ asked[Served] \in 1 .. ShortHalf - 1 =>
        walks < asked[Served] /\ TicksLeft = asked[Served] - walks
  BY <1>1, <1>2, ServedIsCounted
<1> HIDE DEF walks
<1> QED
  BY <1>1, <1>2, <1>3, <1>4, VisitKeepsCounts

LEMMA BeatKeepsCounts ==
  ASSUME IInv, Counts, Beat
  PROVE  Counts'
<1> DEFINE ticks == heart_beats[heart_beat_index].time
<1>1. /\ pc = "scan"
      /\ heart_beats' = [heart_beats EXCEPT ![heart_beat_index].ticks = ticks]
      /\ waited' = [waited EXCEPT ![Served] = 0]
      /\ UNCHANGED <<num_hb_objs, flagged, asked>>
  BY DEF Beat
<1>2. ticks \in Int
  BY <1>1, ServedLeavesRest DEF Entry
<1>3. Served \in HasBeat /\ asked[Served] \in 1 .. ShortHalf - 1 =>
        0 < asked[Served] /\ ticks = asked[Served] - 0
  BY <1>1, ServedIsCounted, HeartBeatAssumption
<1> HIDE DEF ticks
<1> QED
  BY <1>1, <1>2, <1>3, VisitKeepsCounts

LEMMA InitCounts == Init => Counts
  BY DEF Init, Counts, Indices

LEMMA StepKeepsCounts == IInv /\ Counts /\ [Next]_vars => Counts'
<1> SUFFICES ASSUME IInv, Counts, [Next]_vars PROVE Counts'
  OBVIOUS
<1>1. ASSUME NEW ob \in Objects, NEW to \in Intervals, SetHeartBeat(ob, to)
      PROVE  Counts'
  BY <1>1, HeartBeatAssumption, DisableKeepsCounts, RetimeKeepsCounts,
     EnableKeepsCounts DEF SetHeartBeat
<1>2. ASSUME NEW ob \in Objects, Destruct(ob)
      PROVE  Counts'
  BY <1>2, DisableKeepsCounts DEF Destruct
<1>3. CASE NothingToWalk \/ StartWalk \/ BeatReturns \/ UNCHANGED vars
  BY <1>3, SameCounts DEF NothingToWalk, StartWalk, BeatReturns, vars, history
<1>4. CASE BeatFailsTooDeep
  BY <1>4, RemovalKeepsCounts, SameCounts DEF BeatFailsTooDeep, history
<1> QED
  BY <1>1, <1>2, <1>3, <1>4, SkipKeepsCounts, BeatKeepsCounts DEF Next

LEMMA AlwaysCounts == Spec => [](IInv /\ Counts)
<1>1. Init => IInv /\ Counts
  BY InitIInv, InitCounts
<1>2. IInv /\ Counts /\ [Next]_vars => IInv' /\ Counts'
  BY StepKeepsIInv, StepKeepsCounts
<1> QED
  BY <1>1, <1>2, PTL DEF Spec

(* A visit of an object whose interval fits a short is its heart beat just *)
(* when as many walks have passed it as it asked for, whatever was changed *)
(* in the list meanwhile.                                                  *)
THEOREM BeatsAlwaysOnTime == Spec => BeatsOnTime
<1> DEFINE OnTime ==
      \A o \in HasBeat :
        (asked[o] \in 1 .. ShortHalf - 1 /\ o \in pending /\ o \notin pending'
           /\ o \in flagged')
          => ((pc' = "beat" /\ current_heart_beat' = o)
                <=> waited[o] + 1 = asked[o])
<1>1. IInv /\ Counts /\ [Next]_vars => [OnTime]_vars
  <2> SUFFICES ASSUME IInv, Counts, Next, NEW o \in HasBeat,
                      asked[o] \in 1 .. ShortHalf - 1, o \in pending,
                      o \notin pending', o \in flagged'
               PROVE  (pc' = "beat" /\ current_heart_beat' = o)
                         <=> waited[o] + 1 = asked[o]
    BY DEF Next
  <2>1. \A i : ~RemoveEntry(i)
    <3> SUFFICES ASSUME NEW i, RemoveEntry(i) PROVE FALSE
      OBVIOUS
    <3> QED
      BY DEF RemoveEntry
  <2>2. CASE Skip
    <3>1. pc = "scan" /\ o = Served /\ ~IsDue /\ pc' # "beat"
      BY <2>2 DEF Skip, Advance
    <3> QED
      BY <3>1, ServedIsCounted
  <2>3. CASE Beat
    <3>1. pc = "scan" /\ o = Served /\ IsDue /\ pc' = "beat"
          /\ current_heart_beat' = o
      BY <2>3 DEF Beat
    <3> QED
      BY <3>1, ServedIsCounted
  <2>4. CASE StartWalk
    <3>1. pending = {}
      BY <2>4 DEF StartWalk, IInv, NobodyMissed
    <3> QED
      BY <3>1
  <2>5. ~(\E ob \in Objects, to \in Intervals : SetHeartBeat(ob, to))
    BY <2>1 DEF SetHeartBeat, Disable, Retime, Enable, history
  <2>6. ~(\E ob \in Objects : Destruct(ob))
    BY <2>1 DEF Destruct, Disable, history
  <2>7. ~NothingToWalk /\ ~BeatReturns /\ ~BeatFailsTooDeep
    BY <2>1 DEF NothingToWalk, BeatReturns, BeatFailsTooDeep, vars, history
  <2> QED
    BY <2>2, <2>3, <2>4, <2>5, <2>6, <2>7 DEF Next
<1> QED
  BY <1>1, AlwaysCounts, PTL DEF Spec, BeatsOnTime
=============================================================================
