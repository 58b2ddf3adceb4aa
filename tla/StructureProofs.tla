-------------------------- MODULE StructureProofs --------------------------
(***************************************************************************)
(* The two data structures of the driver that implement an abstract        *)
(* specification.  For any wheel, delays, objects and functions: the wheel *)
(* of CallOut keeps its times and its handles right and implements Timers. *)
(* For any size of ring, any room in the network and any messages: the     *)
(* ring of Output keeps its counters right and every step of it is a step  *)
(* of the bounded stream that Stream describes, or none.                   *)
(***************************************************************************)
EXTENDS CallOut, Output, FiniteSetTheorems, SequenceTheorems,
        WellFoundedInduction, TLAPS

-----------------------------------------------------------------------------
(* What the wheel looks like *)

(* The first second from t on that belongs to slot s.                      *)
Round(s, t) ==
  IF s >= Slot(t) THEN t + s - Slot(t) ELSE t + s - Slot(t) + CycleSize

(* Each call is due as many turns after the one in front as its delta      *)
(* says, and the first as many after the slot's next turn.                 *)
Spaced(list, base) ==
  \A p \in DOMAIN list :
    list[p].due = (IF p = 1 THEN base ELSE list[p - 1].due)
                  + CycleSize * list[p].delta

Earlier(c, d) == c.due < d.due \/ (c.due = d.due /\ c.id < d.id)

Sorted(list) == \A p, q \in DOMAIN list : p < q => Earlier(list[p], list[q])

(* The calls of slot s are among the first n, with the handles they got.   *)
Numbered(list, s, n) ==
  \A p \in DOMAIN list :
    /\ list[p].id \in 1 .. n
    /\ list[p].handle = ToInt(s + CycleSize * list[p].id)

Well(list, s, t, n) ==
  /\ list \in Seq(Call)
  /\ Spaced(list, Round(s, t))
  /\ Sorted(list)
  /\ Numbered(list, s, n)

Apart(lists) ==
  \A s, r \in Slots : \A p \in DOMAIN lists[s], q \in DOMAIN lists[r] :
    lists[s][p].id = lists[r][q].id => s = r /\ p = q

Wheel(lists, t, n) ==
  /\ lists \in [Slots -> Seq(Call)]
  /\ \A s \in Slots : Well(lists[s], s, t, n)
  /\ Apart(lists)

Others ==
  /\ current_time \in 0 .. Horizon
  /\ wall \in 0 .. Horizon
  /\ real_time \in 0 .. Horizon
  /\ cop \in Call \union {NoCall}
  /\ pc = "call" => cop \in Call
  /\ unique \in 0 .. MaxCalls
  /\ destructed \subseteq Objects
  /\ pc \in {"idle", "slot", "call", "beats"}

WheelInv == Others /\ Wheel(call_list, current_time, unique)

-----------------------------------------------------------------------------
(* Numbers *)

(* Every set of natural numbers that has a member has a least one.         *)
LEMMA LeastNumber ==
  ASSUME NEW T \in SUBSET Nat, T # {}
  PROVE  \E m \in T : \A k \in T : m <= k
<1> DEFINE R == StrictSubsetOrdering(Nat)
           F == FiniteSubsetsOf(Nat)
           V == {0 .. k : k \in T}
<1>1. IsWellFoundedOn(R, F)
  BY FS_StrictSubsetOrderingWellFounded
<1>2. V \subseteq F
  <2> SUFFICES ASSUME NEW k \in T PROVE 0 .. k \in F
    OBVIOUS
  <2>1. k \in Nat /\ IsFiniteSet(0 .. k) /\ 0 .. k \subseteq Nat
    BY FS_Interval
  <2> QED
    BY <2>1 DEF FiniteSubsetsOf
<1>3. V # {}
  OBVIOUS
<1>4. PICK v \in V : \A w \in V : ~(<<w, v>> \in R)
  <2> HIDE DEF R, F, V
  <2> QED
    BY <1>1, <1>2, <1>3, WFMin
<1>5. PICK m \in T : v = 0 .. m
  OBVIOUS
<1>6. ASSUME NEW k \in T PROVE m <= k
  <2> SUFFICES ASSUME ~(m <= k) PROVE FALSE
    OBVIOUS
  <2>1. m \in Nat /\ k \in Nat /\ k < m
    OBVIOUS
  <2>2. /\ 0 .. k \in SUBSET Nat /\ 0 .. m \in SUBSET Nat
        /\ 0 .. k \subseteq 0 .. m /\ 0 .. k # 0 .. m
    BY <2>1
  <2>3. <<0 .. k, 0 .. m>> \in R
    BY <2>2 DEF StrictSubsetOrdering
  <2> QED
    BY <1>4, <1>5, <2>3
<1> QED
  BY <1>6

(* Induction up to n, over the set of numbers for which something holds.   *)
LEMMA UpTo ==
  ASSUME NEW n \in Nat, NEW S, 0 \in S,
         \A k \in 0 .. n - 1 : k \in S => k + 1 \in S
  PROVE  0 .. n \subseteq S
<1> DEFINE T == {k \in 0 .. n : k \notin S}
<1>1. SUFFICES ASSUME T # {} PROVE FALSE
  OBVIOUS
<1>2. T \in SUBSET Nat
  OBVIOUS
<1> HIDE DEF T
<1>3. PICK m \in T : \A k \in T : m <= k
  BY <1>1, <1>2, LeastNumber
<1>4. m \in 0 .. n /\ m \notin S /\ m # 0
  BY <1>3 DEF T
<1>5. m - 1 \in 0 .. n - 1 /\ m - 1 \in 0 .. n
  BY <1>4
<1>6. m - 1 \notin T
  BY <1>3, <1>4, <1>5
<1>7. m - 1 \in S
  BY <1>5, <1>6 DEF T
<1>8. (m - 1) + 1 \in S
  BY <1>5, <1>7
<1>9. (m - 1) + 1 = m
  BY <1>4
<1> QED
  BY <1>4, <1>8, <1>9

(* The build's sizes.                                                      *)
LEMMA Sizes ==
  /\ CycleSize \in Nat /\ CycleSize > 0
  /\ IntHalf \in Nat /\ IntHalf > 0
  /\ MaxCalls \in Nat /\ Horizon \in Nat
BY CallOutAssumption

LEMMA Divided ==
  ASSUME NEW n \in Int
  PROVE  \E q, r \in Int :
           /\ q = n \div CycleSize /\ r = n % CycleSize
           /\ n = CycleSize * q + r /\ 0 <= r /\ r < CycleSize
BY Sizes

LEMMA RestIs ==
  ASSUME NEW q \in Int, NEW r \in Slots
  PROVE  (CycleSize * q + r) % CycleSize = r
BY Sizes DEF Slots

LEMMA Products ==
  ASSUME NEW q \in Int
  PROVE  /\ CycleSize * q \in Int
         /\ q >= 0 => CycleSize * q >= 0
         /\ q >= 1 => CycleSize * q >= CycleSize
BY Sizes

LEMMA SlotIs ==
  ASSUME NEW t \in Nat
  PROVE  Slot(t) \in Slots
BY Sizes DEF Slot, Slots

(* When the clock moves on, a slot whose turn it was waits a whole turn,   *)
(* and nothing changes for the others.                                     *)
LEMMA RoundMoves ==
  ASSUME NEW t \in Nat, NEW s \in Slots
  PROVE  /\ Round(s, t) \in Nat
         /\ Round(s, t) >= t
         /\ Round(s, t) = t <=> s = Slot(t)
         /\ Round(s, t + 1) =
              IF s = Slot(t) THEN Round(s, t) + CycleSize ELSE Round(s, t)
<1>1. PICK q, r \in Int : /\ r = t % CycleSize
                          /\ t = CycleSize * q + r /\ 0 <= r /\ r < CycleSize
  <2>1. t \in Int
    OBVIOUS
  <2> QED
    BY <2>1, Divided
<1>2. Slot(t) = r /\ r \in Slots
  BY <1>1, Sizes DEF Slot, Slots
<1>3. Slot(t + 1) = IF r + 1 < CycleSize THEN r + 1 ELSE 0
  <2>1. CASE r + 1 < CycleSize
    <3>1. t + 1 = CycleSize * q + (r + 1) /\ r + 1 \in Slots
      BY <1>1, <2>1, Sizes, Products DEF Slots
    <3>2. (t + 1) % CycleSize = r + 1
      BY <3>1, RestIs
    <3> QED
      BY <2>1, <3>2 DEF Slot
  <2>2. CASE ~(r + 1 < CycleSize)
    <3>1. r + 1 = CycleSize
      BY <1>1, <2>2, Sizes
    <3>2. t + 1 = CycleSize * (q + 1) + 0 /\ 0 \in Slots
      BY <1>1, <3>1, Sizes DEF Slots
    <3>3. (t + 1) % CycleSize = 0
      BY <3>2, RestIs
    <3> QED
      BY <2>2, <3>3 DEF Slot
  <2> QED
    BY <2>1, <2>2
<1>4. s \in 0 .. CycleSize - 1
  BY DEF Slots
<1> QED
  BY <1>1, <1>2, <1>3, <1>4, Sizes DEF Round

(* The place for a delay: its slot, and the turns of the wheel till then.  *)
LEMMA DelayLeads ==
  ASSUME NEW t \in Nat, NEW delay \in Nat
  PROVE  /\ Slot(delay + t) \in Slots
         /\ delay \div CycleSize \in Nat
         /\ t + delay =
              Round(Slot(delay + t), t) + CycleSize * (delay \div CycleSize)
<1>1. PICK q, r \in Int : /\ r = t % CycleSize
                          /\ t = CycleSize * q + r /\ 0 <= r /\ r < CycleSize
  <2>1. t \in Int
    OBVIOUS
  <2> QED
    BY <2>1, Divided
<1>2. PICK d, e \in Int :
         /\ d = delay \div CycleSize /\ e = delay % CycleSize
         /\ delay = CycleSize * d + e /\ 0 <= e /\ e < CycleSize
  <2>1. delay \in Int
    OBVIOUS
  <2> QED
    BY <2>1, Divided
<1>3. d >= 0
  <2>1. d <= -1 => CycleSize * d <= -CycleSize
    BY Sizes
  <2>2. CycleSize * d \in Int
    BY Products
  <2> QED
    BY <1>2, <2>1, <2>2, Sizes
<1>4. Slot(t) = r
  BY <1>1 DEF Slot
<1>5. Slot(delay + t) = IF r + e < CycleSize THEN r + e ELSE r + e - CycleSize
  <2>1. CASE r + e < CycleSize
    <3>1. delay + t = CycleSize * (q + d) + (r + e)
      BY <1>1, <1>2, Sizes
    <3>2. r + e \in Slots
      BY <1>1, <1>2, <2>1, Sizes DEF Slots
    <3>3. (delay + t) % CycleSize = r + e
      BY <3>1, <3>2, RestIs
    <3> QED
      BY <2>1, <3>3 DEF Slot
  <2>2. CASE ~(r + e < CycleSize)
    <3>1. delay + t = CycleSize * (q + d + 1) + (r + e - CycleSize)
      BY <1>1, <1>2, Sizes
    <3>2. r + e - CycleSize \in Slots
      BY <1>1, <1>2, <2>2, Sizes DEF Slots
    <3>3. (delay + t) % CycleSize = r + e - CycleSize
      BY <3>1, <3>2, RestIs
    <3> QED
      BY <2>2, <3>3 DEF Slot
  <2> QED
    BY <2>1, <2>2
<1>6. Round(Slot(delay + t), t) = t + e
  BY <1>1, <1>2, <1>4, <1>5, Sizes DEF Round
<1>7. Slot(delay + t) \in Slots
  BY SlotIs
<1>8. CycleSize * d \in Int
  BY Products
<1> QED
  BY <1>2, <1>3, <1>6, <1>7, <1>8

LEMMA TimeLeftIs ==
  ASSUME current_time \in Nat, NEW s \in Slots, NEW d \in Nat
  PROVE  current_time + TimeLeft(s, d) =
           Round(s, current_time) + CycleSize * d
<1>1. Slot(current_time) \in Int /\ s \in Int
  BY SlotIs DEF Slots
<1>2. CycleSize * (d + 1) = CycleSize * d + CycleSize /\ CycleSize * d \in Int
  BY Sizes
<1> QED
  BY <1>1, <1>2, Sizes DEF TimeLeft, Round

-----------------------------------------------------------------------------
(* Functions that are defined by recursion over the places of a list       *)

Follows(f, n, v, step) ==
  f[0] = v /\ \A k \in 1 .. n : f[k] = step[k][f[k - 1]]

LEMMA Recursion ==
  ASSUME NEW n \in Nat, NEW V, NEW v \in V, NEW step \in [1 .. n -> [V -> V]]
  PROVE  \E f \in [0 .. n -> V] : Follows(f, n, v, step)
<1> DEFINE Fits(f, m) == Follows(f, m, v, step)
           S == {m \in 0 .. n : \E f \in [0 .. m -> V] : Fits(f, m)}
<1>1. 0 \in S
  <2> DEFINE f == [k \in 0 .. 0 |-> v]
  <2>1. f \in [0 .. 0 -> V] /\ f[0] = v /\ 1 .. 0 = {}
    OBVIOUS
  <2>2. Fits(f, 0)
    BY <2>1 DEF Follows
  <2>3. 0 \in 0 .. n
    OBVIOUS
  <2> QED
    BY <2>1, <2>2, <2>3
<1>2. ASSUME NEW m \in 0 .. n - 1, m \in S PROVE m + 1 \in S
  <2>1. PICK f \in [0 .. m -> V] : Fits(f, m)
    BY <1>2
  <2> DEFINE g == [k \in 0 .. m + 1 |->
                     IF k <= m THEN f[k] ELSE step[m + 1][f[m]]]
  <2>2. m \in Nat /\ m + 1 \in 1 .. n /\ m + 1 \in 0 .. n /\ m \in 0 .. m
    OBVIOUS
  <2>3. step[m + 1][f[m]] \in V
    BY <2>2
  <2>4. g \in [0 .. m + 1 -> V]
    <3>1. \A k \in 0 .. m + 1 : k <= m => k \in 0 .. m
      BY <2>2
    <3> QED
      BY <2>3, <3>1
  <2>5. g[0] = v
    BY <2>1, <2>2 DEF Follows
  <2>6. ASSUME NEW k \in 1 .. m + 1 PROVE g[k] = step[k][g[k - 1]]
    <3>1. k \in 0 .. m + 1 /\ k - 1 \in 0 .. m /\ k - 1 \in 0 .. m + 1
      BY <2>2
    <3>2. g[k - 1] = f[k - 1]
      BY <2>2, <3>1
    <3>3. CASE k <= m
      <4>1. k \in 1 .. m /\ g[k] = f[k]
        BY <2>2, <3>1, <3>3
      <4> QED
        BY <2>1, <3>2, <4>1 DEF Follows
    <3>4. CASE k = m + 1
      <4>1. g[k] = step[m + 1][f[m]] /\ k - 1 = m
        BY <2>2, <3>1, <3>4
      <4> QED
        BY <3>2, <3>4, <4>1
    <3> QED
      BY <2>2, <3>3, <3>4
  <2> HIDE DEF g
  <2>7. Fits(g, m + 1)
    BY <2>5, <2>6 DEF Follows
  <2> QED
    BY <2>2, <2>4, <2>7
<1>3. n \in S
  <2> HIDE DEF S
  <2>1. 0 .. n \subseteq S
    BY <1>1, <1>2, UpTo
  <2> QED
    BY <2>1
<1> QED
  BY <1>3

LEMMA ListIs ==
  ASSUME NEW list \in Seq(Call)
  PROVE  /\ Len(list) \in Nat /\ DOMAIN list = 1 .. Len(list)
         /\ \A p \in 1 .. Len(list) :
              /\ list[p] \in Call
              /\ list[p].delta \in Nat /\ list[p].due \in Nat
              /\ list[p].id \in Nat /\ list[p].handle \in Int
<1>1. Len(list) \in Nat /\ DOMAIN list = 1 .. Len(list)
  OBVIOUS
<1>2. \A p \in 1 .. Len(list) : list[p] \in Call
  OBVIOUS
<1> QED
  BY <1>1, <1>2 DEF Call

LEMMA TurnsAre ==
  ASSUME NEW list \in Seq(Call)
  PROVE  /\ Turns(list)[0] = 0
         /\ \A k \in 0 .. Len(list) : Turns(list)[k] \in Nat
         /\ \A k \in 1 .. Len(list) :
              Turns(list)[k] = Turns(list)[k - 1] + list[k].delta
<1> DEFINE n == Len(list)
           R(f) == [k \in 0 .. n |-> IF k = 0 THEN 0 ELSE f[k - 1] + list[k].delta]
           step == [k \in 1 .. n |-> [x \in Nat |-> x + list[k].delta]]
           T == Turns(list)
<1>1. n \in Nat /\ \A k \in 1 .. n : list[k].delta \in Nat
  BY ListIs
<1>2. T = CHOOSE f : f = R(f)
  BY DEF Turns
<1>3. step \in [1 .. n -> [Nat -> Nat]]
  <2>1. \A k \in 1 .. n : [x \in Nat |-> x + list[k].delta] \in [Nat -> Nat]
    BY <1>1
  <2> HIDE DEF n
  <2> QED
    BY <2>1
<1>4. PICK f \in [0 .. n -> Nat] : Follows(f, n, 0, step)
  <2> HIDE DEF n, step
  <2> QED
    BY <1>1, <1>3, Recursion
<1>5. \A k \in 1 .. n : f[k] = f[k - 1] + list[k].delta
  <2> SUFFICES ASSUME NEW k \in 1 .. n PROVE f[k] = f[k - 1] + list[k].delta
    OBVIOUS
  <2>1. k - 1 \in 0 .. n
    BY <1>1
  <2>2. f[k - 1] \in Nat
    BY <2>1
  <2>3. step[k][f[k - 1]] = f[k - 1] + list[k].delta
    BY <2>2
  <2> QED
    BY <1>4, <2>3 DEF Follows
<1>6. f = R(f)
  <2>1. \A k \in 0 .. n : f[k] = R(f)[k]
    BY <1>1, <1>4, <1>5 DEF Follows
  <2> QED
    BY <1>4, <2>1
<1>7. T = R(T)
  <2> HIDE DEF R
  <2> QED
    BY <1>2, <1>6
<1>8. T[0] = 0
  <2>1. 0 \in 0 .. n
    BY <1>1
  <2>2. R(T)[0] = 0
    BY <2>1
  <2> QED
    BY <1>7, <2>2
<1>9. ASSUME NEW k \in 1 .. n PROVE T[k] = T[k - 1] + list[k].delta
  <2>1. k \in 0 .. n /\ k # 0
    BY <1>1
  <2>2. R(T)[k] = T[k - 1] + list[k].delta
    BY <2>1
  <2> QED
    BY <1>7, <2>2
<1> HIDE DEF T, R, step
<1>10. \A k \in 0 .. n : T[k] \in Nat
  <2> DEFINE S == {k \in 0 .. n : T[k] \in Nat}
  <2>1. 0 \in S
    BY <1>1, <1>8
  <2>2. ASSUME NEW k \in 0 .. n - 1, k \in S PROVE k + 1 \in S
    <3>1. k + 1 \in 1 .. n /\ k + 1 \in 0 .. n /\ (k + 1) - 1 = k
      BY <1>1
    <3>2. T[k + 1] = T[k] + list[k + 1].delta
      BY <1>9, <3>1
    <3>3. list[k + 1].delta \in Nat
      BY <1>1, <3>1
    <3>4. T[k] \in Nat
      BY <2>2
    <3> QED
      BY <3>1, <3>2, <3>3, <3>4
  <2> HIDE DEF S
  <2>3. 0 .. n \subseteq S
    BY <1>1, <2>1, <2>2, UpTo
  <2> QED
    BY <2>3 DEF S
<1> QED
  BY <1>8, <1>9, <1>10 DEF T

(* The deltas of a list add up to the turns until each call is due.        *)
LEMMA DueIs ==
  ASSUME NEW list \in Seq(Call), NEW base \in Nat, Spaced(list, base)
  PROVE  \A p \in 1 .. Len(list) :
           list[p].due = base + CycleSize * Turns(list)[p]
<1> DEFINE n == Len(list)
           S == {k \in 0 .. n :
                   k # 0 => list[k].due = base + CycleSize * Turns(list)[k]}
<1>1. n \in Nat
  BY ListIs
<1>2. 0 \in S
  BY <1>1
<1>3. ASSUME NEW k \in 0 .. n - 1, k \in S PROVE k + 1 \in S
  <2>1. k + 1 \in 1 .. n /\ (k + 1) - 1 = k
    BY <1>1
  <2> DEFINE c == list[k + 1]
  <2>2. c.delta \in Nat
    BY <2>1, ListIs
  <2>3. c.due = (IF k + 1 = 1 THEN base ELSE list[k].due) + CycleSize * c.delta
    BY <2>1, ListIs DEF Spaced
  <2>4. Turns(list)[k + 1] = Turns(list)[k] + c.delta
    BY <2>1, TurnsAre
  <2>5. Turns(list)[k] \in Nat /\ Turns(list)[0] = 0
    <3>1. k \in 0 .. n
      BY <1>1
    <3> QED
      BY <3>1, TurnsAre
  <2>6. (IF k + 1 = 1 THEN base ELSE list[k].due)
          = base + CycleSize * Turns(list)[k]
    <3>1. CASE k = 0
      BY <2>5, <3>1, Sizes
    <3>2. CASE k # 0
      BY <1>1, <1>3, <3>2
    <3> QED
      BY <3>1, <3>2
  <2>7. \A x, y \in Nat :
          base + CycleSize * x + CycleSize * y = base + CycleSize * (x + y)
    BY Sizes
  <2>8. c.due = base + CycleSize * Turns(list)[k + 1]
    <3> HIDE DEF c
    <3> QED
      BY <2>2, <2>3, <2>4, <2>5, <2>6, <2>7
  <2>9. k + 1 \in 0 .. n
    BY <1>1
  <2> QED
    BY <2>8, <2>9
<1> HIDE DEF S
<1>4. 0 .. n \subseteq S
  BY <1>1, <1>2, <1>3, UpTo
<1>5. \A p \in 1 .. n : p \in 0 .. n /\ p # 0
  BY <1>1
<1> QED
  BY <1>4, <1>5 DEF S

-----------------------------------------------------------------------------
(* Putting into a sequence and taking out of it                            *)

LEMMA Cut ==
  ASSUME NEW S, NEW s \in Seq(S), NEW p \in 1 .. Len(s) + 1
  PROVE  /\ SubSeq(s, 1, p - 1) \in Seq(S)
         /\ Len(SubSeq(s, 1, p - 1)) = p - 1
         /\ \A k \in 1 .. p - 1 : SubSeq(s, 1, p - 1)[k] = s[k]
         /\ SubSeq(s, p, Len(s)) \in Seq(S)
         /\ Len(SubSeq(s, p, Len(s))) = Len(s) - p + 1
         /\ \A k \in 1 .. Len(s) - p + 1 : SubSeq(s, p, Len(s))[k] = s[p + k - 1]
<1> DEFINE n == Len(s)
           a == SubSeq(s, 1, p - 1)
           b == SubSeq(s, p, n)
<1>1. n \in Nat /\ \A k \in 1 .. n : s[k] \in S
  BY LenProperties, ElementOfSeq
<1>2. a \in Seq(S) /\ Len(a) = p - 1 /\ \A k \in 1 .. p - 1 : a[k] = s[k]
  <2>1. \A k \in 1 .. p - 1 : s[k] \in S
    BY <1>1
  <2>2. p \in Int /\ p - 1 \in Int /\ 1 \in Int
    BY <1>1
  <2>3. /\ a \in Seq(S)
        /\ Len(a) = IF 1 <= p - 1 THEN (p - 1) - 1 + 1 ELSE 0
        /\ \A k \in 1 .. (p - 1) - 1 + 1 : a[k] = s[1 + k - 1]
    BY <2>1, <2>2, SubSeqProperties
  <2> HIDE DEF a, n
  <2>4. (p - 1) - 1 + 1 = p - 1 /\ (~(1 <= p - 1) => p - 1 = 0)
    BY <1>1
  <2>5. \A k \in 1 .. p - 1 : 1 + k - 1 = k
    BY <1>1
  <2> QED
    BY <2>3, <2>4, <2>5
<1>3. /\ b \in Seq(S) /\ Len(b) = n - p + 1
      /\ \A k \in 1 .. n - p + 1 : b[k] = s[p + k - 1]
  <2>1. \A k \in p .. n : s[k] \in S
    BY <1>1
  <2>2. p \in Int /\ n \in Int
    BY <1>1
  <2>3. /\ b \in Seq(S)
        /\ Len(b) = IF p <= n THEN n - p + 1 ELSE 0
        /\ \A k \in 1 .. n - p + 1 : b[k] = s[p + k - 1]
    BY <2>1, <2>2, SubSeqProperties
  <2> HIDE DEF b, n
  <2>4. ~(p <= n) => n - p + 1 = 0
    BY <1>1 DEF n
  <2> QED
    BY <2>3, <2>4
<1> QED
  BY <1>2, <1>3

LEMMA RemoveAtIs ==
  ASSUME NEW S, NEW s \in Seq(S), NEW p \in 1 .. Len(s)
  PROVE  /\ RemoveAt(s, p) \in Seq(S) /\ Len(RemoveAt(s, p)) = Len(s) - 1
         /\ \A k \in 1 .. Len(s) - 1 :
              RemoveAt(s, p)[k] = IF k < p THEN s[k] ELSE s[k + 1]
<1> DEFINE n == Len(s)
           a == SubSeq(s, 1, p - 1)
           b == SubSeq(s, p + 1, n)
           t == RemoveAt(s, p)
<1>1. n \in Nat
  BY LenProperties
<1>2. a \in Seq(S) /\ Len(a) = p - 1 /\ \A k \in 1 .. p - 1 : a[k] = s[k]
  <2>1. p \in 1 .. n + 1
    BY <1>1
  <2> QED
    BY <2>1, Cut
<1>3. b \in Seq(S) /\ Len(b) = n - p /\ \A k \in 1 .. n - p : b[k] = s[p + k]
  <2>1. p + 1 \in 1 .. n + 1
    BY <1>1
  <2>2. /\ b \in Seq(S) /\ Len(b) = n - (p + 1) + 1
        /\ \A k \in 1 .. n - (p + 1) + 1 : b[k] = s[(p + 1) + k - 1]
    BY <2>1, Cut
  <2> HIDE DEF b, n
  <2>3. n - (p + 1) + 1 = n - p
    BY <1>1
  <2>4. \A k \in 1 .. n - p : (p + 1) + k - 1 = p + k
    BY <1>1
  <2> QED
    BY <2>2, <2>3, <2>4
<1>4. t = a \o b
  BY DEF RemoveAt
<1> HIDE DEF a, b, t
<1>5. t \in Seq(S) /\ Len(t) = Len(a) + Len(b)
      /\ \A k \in 1 .. Len(a) + Len(b) :
           t[k] = IF k <= Len(a) THEN a[k] ELSE b[k - Len(a)]
  BY <1>2, <1>3, <1>4, ConcatProperties
<1>6. Len(a) + Len(b) = n - 1
  BY <1>1, <1>2, <1>3
<1>7. ASSUME NEW k \in 1 .. n - 1
      PROVE  t[k] = IF k < p THEN s[k] ELSE s[k + 1]
  <2>1. CASE k < p
    BY <1>1, <1>2, <1>5, <1>6, <2>1
  <2>2. CASE ~(k < p)
    <3>1. t[k] = b[k - (p - 1)]
      BY <1>1, <1>2, <1>5, <1>6, <2>2
    <3>2. k - (p - 1) \in 1 .. n - p /\ p + (k - (p - 1)) = k + 1
      BY <1>1, <2>2
    <3> QED
      BY <1>3, <2>2, <3>1, <3>2
  <2> QED
    BY <2>1, <2>2
<1> QED
  BY <1>5, <1>6, <1>7 DEF t

LEMMA InsertAtIs ==
  ASSUME NEW S, NEW s \in Seq(S), NEW p \in 1 .. Len(s) + 1, NEW e \in S
  PROVE  /\ InsertAt(s, p, e) \in Seq(S) /\ Len(InsertAt(s, p, e)) = Len(s) + 1
         /\ \A k \in 1 .. Len(s) + 1 :
              InsertAt(s, p, e)[k] =
                IF k < p THEN s[k] ELSE IF k = p THEN e ELSE s[k - 1]
<1> DEFINE n == Len(s)
           a == SubSeq(s, 1, p - 1)
           b == SubSeq(s, p, n)
           m == a \o <<e>>
           t == InsertAt(s, p, e)
<1>1. n \in Nat
  BY LenProperties
<1>2. a \in Seq(S) /\ Len(a) = p - 1 /\ \A k \in 1 .. p - 1 : a[k] = s[k]
  BY Cut
<1>3. /\ b \in Seq(S) /\ Len(b) = n - p + 1
      /\ \A k \in 1 .. n - p + 1 : b[k] = s[p + k - 1]
  BY Cut
<1>4. t = m \o b
  BY DEF InsertAt
<1>5. <<e>> \in Seq(S) /\ Len(<<e>>) = 1 /\ <<e>>[1] = e
  OBVIOUS
<1>6. /\ m \in Seq(S) /\ Len(m) = p
      /\ \A k \in 1 .. p : m[k] = IF k < p THEN s[k] ELSE e
  <2> DEFINE u == <<e>>
  <2> HIDE DEF a, u
  <2>1. m \in Seq(S) /\ Len(m) = Len(a) + Len(u)
        /\ \A k \in 1 .. Len(a) + Len(u) :
             m[k] = IF k <= Len(a) THEN a[k] ELSE u[k - Len(a)]
    <3>1. u \in Seq(S) /\ m = a \o u
      BY <1>5 DEF u
    <3> QED
      BY <1>2, <3>1, ConcatProperties
  <2>2. Len(a) + Len(u) = p
    BY <1>1, <1>2, <1>5 DEF u
  <2>3. ASSUME NEW k \in 1 .. p PROVE m[k] = IF k < p THEN s[k] ELSE e
    <3>1. CASE k < p
      BY <1>1, <1>2, <2>1, <2>2, <3>1
    <3>2. CASE ~(k < p)
      <4>1. k \in 1 .. Len(a) + Len(u) /\ ~(k <= Len(a)) /\ k - Len(a) = 1
        BY <1>1, <1>2, <2>2, <3>2
      <4>2. m[k] = u[1]
        BY <2>1, <4>1
      <4> QED
        BY <1>5, <3>2, <4>2 DEF u
    <3> QED
      BY <3>1, <3>2
  <2> QED
    BY <2>1, <2>2, <2>3
<1> HIDE DEF a, b, m, t
<1>7. t \in Seq(S) /\ Len(t) = Len(m) + Len(b)
      /\ \A k \in 1 .. Len(m) + Len(b) :
           t[k] = IF k <= Len(m) THEN m[k] ELSE b[k - Len(m)]
  BY <1>3, <1>4, <1>6, ConcatProperties
<1>8. Len(m) + Len(b) = n + 1
  BY <1>1, <1>3, <1>6
<1>9. ASSUME NEW k \in 1 .. n + 1
      PROVE  t[k] = IF k < p THEN s[k] ELSE IF k = p THEN e ELSE s[k - 1]
  <2>1. CASE k <= p
    BY <1>1, <1>6, <1>7, <1>8, <2>1
  <2>2. CASE ~(k <= p)
    <3>1. t[k] = b[k - p]
      BY <1>1, <1>6, <1>7, <1>8, <2>2
    <3>2. k - p \in 1 .. n - p + 1 /\ p + (k - p) - 1 = k - 1
      BY <1>1, <2>2
    <3> QED
      BY <1>3, <2>2, <3>1, <3>2
  <2> QED
    BY <2>1, <2>2
<1> QED
  BY <1>7, <1>8, <1>9 DEF t

-----------------------------------------------------------------------------
(* What each change to a list keeps                                        *)

(* The same call, but for its delta.                                       *)
Same(c, d) ==
  /\ c.ob = d.ob /\ c.fn = d.fn /\ c.handle = d.handle
  /\ c.due = d.due /\ c.id = d.id

(* The calls of one list are those at some places of another one.          *)
Keeps(new, old, places) ==
  /\ places \subseteq DOMAIN old
  /\ \A k \in DOMAIN new : \E q \in places : Same(new[k], old[q])
  /\ \A q \in places : \E k \in DOMAIN new : Same(new[k], old[q])

InOrder(list, base) == list \in Seq(Call) /\ Spaced(list, base) /\ Sorted(list)

LEMMA SetDelta ==
  ASSUME NEW c \in Call, NEW x \in Nat
  PROVE  /\ [c EXCEPT !.delta = x] \in Call
         /\ [c EXCEPT !.delta = x].delta = x
         /\ Same([c EXCEPT !.delta = x], c)
BY DEF Call, Same

WithDelta(list, p, x) == [list EXCEPT ![p].delta = x]

LEMMA DeltaAt ==
  ASSUME NEW list \in Seq(Call), NEW p \in 1 .. Len(list), NEW x \in Nat,
         NEW new, new = WithDelta(list, p, x)
  PROVE  /\ new \in Seq(Call) /\ Len(new) = Len(list)
         /\ \A k \in 1 .. Len(list) :
              /\ Same(new[k], list[k])
              /\ new[k].delta = IF k = p THEN x ELSE list[k].delta
<1>1. list[p] \in Call
  BY ListIs
<1>2. /\ [list[p] EXCEPT !.delta = x] \in Call
      /\ [list[p] EXCEPT !.delta = x].delta = x
      /\ Same([list[p] EXCEPT !.delta = x], list[p])
  BY <1>1, SetDelta
<1> DEFINE c == [list[p] EXCEPT !.delta = x]
<1>3. new = [list EXCEPT ![p] = c]
  BY DEF WithDelta
<1> HIDE DEF c
<1>4. new \in Seq(Call) /\ Len(new) = Len(list)
  BY <1>2, <1>3 DEF c
<1>5. \A k \in 1 .. Len(list) : new[k] = IF k = p THEN c ELSE list[k]
  BY <1>3
<1> QED
  BY <1>2, <1>4, <1>5 DEF c, Same

LEMMA RemovedIs ==
  ASSUME NEW list, NEW base \in Nat, InOrder(list, base),
         NEW p \in 1 .. Len(list)
  PROVE  /\ InOrder(Removed(list, p), base)
         /\ Keeps(Removed(list, p), list, (1 .. Len(list)) \ {p})
<1> DEFINE n == Len(list)
           later == IF p < n
                    THEN [list EXCEPT ![p + 1].delta = @ + list[p].delta]
                    ELSE list
           new == Removed(list, p)
           j(k) == IF k < p THEN k ELSE k + 1
<1>1. list \in Seq(Call) /\ Spaced(list, base) /\ Sorted(list)
  BY DEF InOrder
<1>2. /\ n \in Nat /\ DOMAIN list = 1 .. n
      /\ \A k \in 1 .. n : list[k].delta \in Nat /\ list[k].due \in Nat
  BY <1>1, ListIs
<1>3. /\ later \in Seq(Call) /\ Len(later) = n
      /\ \A k \in 1 .. n :
           /\ Same(later[k], list[k])
           /\ later[k].delta = IF k = p + 1 THEN list[k].delta + list[p].delta
                               ELSE list[k].delta
  <2>1. CASE p < n
    <3> DEFINE x == list[p + 1].delta + list[p].delta
    <3>1. p + 1 \in 1 .. n /\ x \in Nat
      BY <1>2, <2>1
    <3>2. later = WithDelta(list, p + 1, x)
      BY <2>1 DEF WithDelta
    <3> HIDE DEF later, x
    <3>3. /\ later \in Seq(Call) /\ Len(later) = n
          /\ \A k \in 1 .. n :
               /\ Same(later[k], list[k])
               /\ later[k].delta = IF k = p + 1 THEN x ELSE list[k].delta
      BY <1>1, <3>1, <3>2, DeltaAt
    <3> QED
      BY <3>3 DEF x
  <2>2. CASE ~(p < n)
    <3>1. later = list /\ \A k \in 1 .. n : k # p + 1
      BY <1>2, <2>2
    <3> QED
      BY <1>1, <3>1 DEF Same
  <2> QED
    BY <2>1, <2>2
<1>4. new = RemoveAt(later, p)
  BY DEF Removed
<1> HIDE DEF later, new
<1>5. /\ new \in Seq(Call) /\ Len(new) = n - 1
      /\ \A k \in 1 .. n - 1 : new[k] = later[j(k)]
  <2> HIDE DEF n
  <2>1. p \in 1 .. Len(later)
    BY <1>3 DEF n
  <2> QED
    BY <1>3, <1>4, <2>1, RemoveAtIs
<1>6. DOMAIN new = 1 .. n - 1
  BY <1>5, LenProperties
<1>7. \A k \in 1 .. n - 1 : j(k) \in 1 .. n /\ j(k) # p
  BY <1>2
<1>8. \A k \in 1 .. n - 1 : Same(new[k], list[j(k)])
  BY <1>3, <1>5, <1>7
<1>9. Sorted(new)
  <2> SUFFICES ASSUME NEW k \in 1 .. n - 1, NEW m \in 1 .. n - 1, k < m
               PROVE  Earlier(new[k], new[m])
    BY <1>6 DEF Sorted
  <2>1. j(k) < j(m) /\ j(k) \in 1 .. n /\ j(m) \in 1 .. n
    BY <1>2
  <2>2. Earlier(list[j(k)], list[j(m)])
    BY <1>1, <1>2, <2>1 DEF Sorted
  <2>3. Same(new[k], list[j(k)]) /\ Same(new[m], list[j(m)])
    BY <1>8
  <2> QED
    BY <2>2, <2>3 DEF Earlier, Same
<1>10. Spaced(new, base)
  <2> SUFFICES ASSUME NEW k \in 1 .. n - 1
               PROVE  new[k].due = (IF k = 1 THEN base ELSE new[k - 1].due)
                                   + CycleSize * new[k].delta
    BY <1>6 DEF Spaced
  <2> DEFINE Gap(i) == (IF i = 1 THEN base ELSE list[i - 1].due)
  <2>1. \A i \in 1 .. n : list[i].due = Gap(i) + CycleSize * list[i].delta
    BY <1>1, <1>2 DEF Spaced
  <2>2. new[k].due = list[j(k)].due /\ new[k].delta = later[j(k)].delta
    BY <1>5, <1>8 DEF Same
  <2>3. k # 1 => k - 1 \in 1 .. n - 1 /\ new[k - 1].due = list[j(k - 1)].due
    BY <1>2, <1>8 DEF Same
  <2>4. CASE k < p
    <3>1. j(k) = k /\ k \in 1 .. n /\ k # p + 1 /\ (k # 1 => j(k - 1) = k - 1)
      BY <1>2, <2>4
    <3>2. later[k].delta = list[k].delta
      BY <1>3, <3>1
    <3> QED
      BY <2>1, <2>2, <2>3, <3>1, <3>2
  <2>5. CASE k = p
    <3>1. /\ j(k) = p + 1 /\ p + 1 \in 1 .. n /\ p \in 1 .. n /\ p + 1 # 1
          /\ (k # 1 => j(k - 1) = p - 1)
      BY <1>2, <2>5
    <3>2. later[p + 1].delta = list[p + 1].delta + list[p].delta
      BY <1>3, <3>1
    <3>3. list[p + 1].due = list[p].due + CycleSize * list[p + 1].delta
      BY <2>1, <3>1
    <3>4. list[p].due = Gap(p) + CycleSize * list[p].delta
      BY <2>1, <3>1
    <3>5. Gap(p) = IF k = 1 THEN base ELSE new[k - 1].due
      BY <2>3, <2>5, <3>1
    <3>6. Gap(p) \in Nat
      <4>1. p # 1 => p - 1 \in 1 .. n
        BY <1>2
      <4> QED
        BY <1>2, <4>1
    <3>7. list[p + 1].delta \in Nat /\ list[p].delta \in Nat
      BY <1>2, <3>1
    <3>8. \A g, x, y \in Nat :
            (g + CycleSize * x) + CycleSize * y = g + CycleSize * (y + x)
      BY Sizes
    <3> HIDE DEF Gap
    <3>9. (Gap(p) + CycleSize * list[p].delta) + CycleSize * list[p + 1].delta
          = Gap(p) + CycleSize * (list[p + 1].delta + list[p].delta)
      BY <3>6, <3>7, <3>8
    <3> QED
      BY <2>2, <3>1, <3>2, <3>3, <3>4, <3>5, <3>9
  <2>6. CASE k > p
    <3>1. /\ j(k) = k + 1 /\ k + 1 \in 1 .. n /\ k # 1 /\ k + 1 # 1
          /\ j(k - 1) = k /\ k + 1 # p + 1 /\ (k + 1) - 1 = k
      BY <1>2, <2>6
    <3>2. later[k + 1].delta = list[k + 1].delta
      BY <1>3, <3>1
    <3>3. list[k + 1].due = list[k].due + CycleSize * list[k + 1].delta
      BY <2>1, <3>1
    <3> QED
      BY <2>2, <2>3, <3>1, <3>2, <3>3
  <2> QED
    BY <1>2, <2>4, <2>5, <2>6
<1>11. Keeps(new, list, (1 .. n) \ {p})
  <2>1. \A k \in DOMAIN new : \E q \in (1 .. n) \ {p} : Same(new[k], list[q])
    BY <1>6, <1>7, <1>8
  <2>2. ASSUME NEW q \in (1 .. n) \ {p}
        PROVE  \E k \in DOMAIN new : Same(new[k], list[q])
    <3> DEFINE k == IF q < p THEN q ELSE q - 1
    <3>1. k \in 1 .. n - 1 /\ j(k) = q
      BY <1>2
    <3> QED
      BY <1>6, <1>8, <3>1
  <2> QED
    BY <1>2, <2>1, <2>2 DEF Keeps
<1> QED
  BY <1>5, <1>9, <1>10, <1>11 DEF InOrder, new

(* The head, due at once, leaves.                                          *)
LEMMA TailIs ==
  ASSUME NEW list, NEW base \in Nat, InOrder(list, base),
         list # <<>>, list[1].delta = 0
  PROVE  /\ InOrder(Tail(list), base)
         /\ Keeps(Tail(list), list, (1 .. Len(list)) \ {1})
         /\ list[1].due = base
<1> DEFINE n == Len(list)
           new == Tail(list)
<1>1. list \in Seq(Call) /\ Spaced(list, base) /\ Sorted(list)
  BY DEF InOrder
<1>2. /\ n \in Nat /\ DOMAIN list = 1 .. n
      /\ \A k \in 1 .. n : list[k].delta \in Nat /\ list[k].due \in Nat
  BY <1>1, ListIs
<1>3. n # 0
  BY <1>1
<1>4. /\ new \in Seq(Call) /\ Len(new) = n - 1
      /\ \A k \in 1 .. n - 1 : new[k] = list[k + 1]
  BY <1>1, <1>3
<1>5. DOMAIN new = 1 .. n - 1
  BY <1>4, LenProperties
<1>6. 1 \in DOMAIN list
  BY <1>2, <1>3
<1>7. list[1].due = base
  BY <1>1, <1>6, Sizes DEF Spaced
<1>8. \A k \in 1 .. n - 1 : k + 1 \in 1 .. n /\ (k + 1) - 1 = k /\ k + 1 # 1
  BY <1>2
<1> HIDE DEF new
<1>9. Sorted(new)
  <2> SUFFICES ASSUME NEW k \in 1 .. n - 1, NEW m \in 1 .. n - 1, k < m
               PROVE  Earlier(new[k], new[m])
    BY <1>5 DEF Sorted
  <2>1. k + 1 < m + 1 /\ k + 1 \in 1 .. n /\ m + 1 \in 1 .. n
    BY <1>2
  <2>2. Earlier(list[k + 1], list[m + 1])
    BY <1>1, <1>2, <2>1 DEF Sorted
  <2> QED
    BY <1>4, <2>2
<1>10. Spaced(new, base)
  <2> SUFFICES ASSUME NEW k \in 1 .. n - 1
               PROVE  new[k].due = (IF k = 1 THEN base ELSE new[k - 1].due)
                                   + CycleSize * new[k].delta
    BY <1>5 DEF Spaced
  <2>1. list[k + 1].due = list[k].due + CycleSize * list[k + 1].delta
    BY <1>1, <1>2, <1>8 DEF Spaced
  <2>2. k # 1 => new[k - 1] = list[k]
    <3>1. k # 1 => k - 1 \in 1 .. n - 1 /\ (k - 1) + 1 = k
      BY <1>2
    <3> QED
      BY <1>4, <3>1
  <2> QED
    BY <1>4, <1>7, <2>1, <2>2
<1>11. Keeps(new, list, (1 .. n) \ {1})
  <2>1. \A k \in 1 .. n - 1 : k + 1 \in (1 .. n) \ {1} /\ Same(new[k], list[k + 1])
    BY <1>4, <1>8 DEF Same
  <2>2. \A q \in (1 .. n) \ {1} : q - 1 \in 1 .. n - 1 /\ (q - 1) + 1 = q
    BY <1>2
  <2>3. \A k \in DOMAIN new : \E q \in (1 .. n) \ {1} : Same(new[k], list[q])
    BY <1>5, <2>1
  <2>4. \A q \in (1 .. n) \ {1} : \E k \in DOMAIN new : Same(new[k], list[q])
    BY <1>5, <2>1, <2>2
  <2> QED
    BY <1>2, <2>3, <2>4 DEF Keeps
<1> QED
  BY <1>4, <1>7, <1>9, <1>10, <1>11 DEF InOrder, new

(* The slot's turn is over: its calls wait one turn less, from the slot's  *)
(* next turn on.                                                           *)
LEMMA TurnIs ==
  ASSUME NEW list, NEW base \in Nat, InOrder(list, base),
         list # <<>> => list[1].delta # 0
  PROVE  /\ InOrder(Turned(list), base + CycleSize)
         /\ Keeps(Turned(list), list, 1 .. Len(list))
<1> DEFINE new == Turned(list)
<1>1. list \in Seq(Call) /\ Spaced(list, base) /\ Sorted(list)
  BY DEF InOrder
<1> DEFINE n == Len(list)
<1> HIDE DEF new
<1>2. /\ n \in Nat /\ DOMAIN list = 1 .. n
      /\ \A k \in 1 .. n : list[k].delta \in Nat /\ list[k].due \in Nat
  BY <1>1, ListIs
<1>3. /\ new \in Seq(Call) /\ Len(new) = n
      /\ \A k \in 1 .. n :
           /\ Same(new[k], list[k])
           /\ new[k].delta = IF k = 1 THEN list[k].delta - 1 ELSE list[k].delta
  <2>1. CASE list = <<>>
    <3>1. new = list /\ n = 0 /\ \A k \in 1 .. n : FALSE
      BY <2>1 DEF new, Turned
    <3> QED
      BY <1>1, <3>1
  <2>2. CASE list # <<>>
    <3> DEFINE x == list[1].delta - 1
    <3>1. PICK p \in 1 .. n : p = 1
      BY <1>1, <1>2, <2>2
    <3>2. x \in Nat
      BY <1>2, <2>2, <3>1
    <3>3. new = WithDelta(list, p, x)
      BY <2>2, <3>1 DEF WithDelta, new, Turned
    <3> HIDE DEF x
    <3>4. /\ new \in Seq(Call) /\ Len(new) = Len(list)
          /\ \A k \in 1 .. Len(list) :
               /\ Same(new[k], list[k])
               /\ new[k].delta = IF k = p THEN x ELSE list[k].delta
      BY <1>1, <3>2, <3>3, DeltaAt
    <3> QED
      BY <3>1, <3>4 DEF x
  <2> QED
    BY <2>1, <2>2
<1>4. DOMAIN new = 1 .. n
  BY <1>3, LenProperties
<1>5. Sorted(new)
  BY <1>1, <1>2, <1>3, <1>4 DEF Sorted, Earlier, Same
<1>6. Spaced(new, base + CycleSize)
  <2> SUFFICES ASSUME NEW k \in 1 .. n
               PROVE  new[k].due =
                        (IF k = 1 THEN base + CycleSize ELSE new[k - 1].due)
                        + CycleSize * new[k].delta
    BY <1>4 DEF Spaced
  <2>1. /\ list[k].due = (IF k = 1 THEN base ELSE list[k - 1].due)
                         + CycleSize * list[k].delta
        /\ list[k].delta \in Nat
    BY <1>1, <1>2 DEF Spaced
  <2>2. new[k].due = list[k].due
    BY <1>3 DEF Same
  <2>3. CASE k = 1
    <3>1. new[k].delta = list[k].delta - 1 /\ list[k].due = base + CycleSize * list[k].delta
      BY <1>3, <2>1, <2>3
    <3>2. \A x \in Nat : base + CycleSize * x
                         = (base + CycleSize) + CycleSize * (x - 1)
      BY Sizes
    <3>3. list[k].due = (base + CycleSize) + CycleSize * (list[k].delta - 1)
      BY <2>1, <3>1, <3>2
    <3> QED
      BY <2>2, <2>3, <3>1, <3>3
  <2>4. CASE k # 1
    <3>1. k - 1 \in 1 .. n
      BY <1>2, <2>4
    <3>2. new[k - 1].due = list[k - 1].due
      BY <1>3, <3>1 DEF Same
    <3> QED
      BY <1>3, <2>1, <2>2, <2>4, <3>2
  <2> QED
    BY <2>3, <2>4
<1>7. Keeps(new, list, 1 .. n)
  BY <1>2, <1>3, <1>4 DEF Keeps
<1> QED
  BY <1>3, <1>5, <1>6, <1>7 DEF InOrder, new

(* What a call behind the list is reckoned from.                           *)
End(list, base) == IF list = <<>> THEN base ELSE list[Len(list)].due

LEMMA AppendIs ==
  ASSUME NEW list, NEW base \in Nat, InOrder(list, base), NEW c \in Call,
         c.due = End(list, base) + CycleSize * c.delta,
         \A p \in 1 .. Len(list) : Earlier(list[p], c)
  PROVE  InOrder(Append(list, c), base)
<1> DEFINE n == Len(list)
           new == Append(list, c)
<1>1. list \in Seq(Call) /\ Spaced(list, base) /\ Sorted(list)
  BY DEF InOrder
<1>2. n \in Nat /\ DOMAIN list = 1 .. n /\ (list = <<>> <=> n = 0)
  BY <1>1, EmptySeq
<1>3. /\ new \in Seq(Call) /\ Len(new) = n + 1 /\ new[n + 1] = c
      /\ \A k \in 1 .. n : new[k] = list[k]
  BY <1>1, AppendProperties
<1>4. DOMAIN new = 1 .. n + 1
  BY <1>3, LenProperties
<1> HIDE DEF new
<1>5. Sorted(new)
  <2> SUFFICES ASSUME NEW p \in 1 .. n + 1, NEW q \in 1 .. n + 1, p < q
               PROVE  Earlier(new[p], new[q])
    BY <1>4 DEF Sorted
  <2>1. p \in 1 .. n /\ new[p] = list[p]
    BY <1>2, <1>3
  <2>2. CASE q = n + 1
    BY <1>3, <2>1, <2>2
  <2>3. CASE q # n + 1
    <3>1. q \in 1 .. n /\ new[q] = list[q]
      BY <1>2, <1>3, <2>3
    <3> QED
      BY <1>1, <1>2, <2>1, <3>1 DEF Sorted
  <2> QED
    BY <2>2, <2>3
<1>6. Spaced(new, base)
  <2> SUFFICES ASSUME NEW p \in 1 .. n + 1
               PROVE  new[p].due = (IF p = 1 THEN base ELSE new[p - 1].due)
                                   + CycleSize * new[p].delta
    BY <1>4 DEF Spaced
  <2>1. p # 1 => p - 1 \in 1 .. n /\ new[p - 1] = list[p - 1]
    <3>1. p # 1 => p - 1 \in 1 .. n
      BY <1>2
    <3> QED
      BY <1>3, <3>1
  <2>2. CASE p = n + 1
    <3>1. new[p] = c
      BY <1>3, <2>2
    <3>2. End(list, base) = IF p = 1 THEN base ELSE list[p - 1].due
      BY <1>2, <2>2 DEF End
    <3> QED
      BY <2>1, <3>1, <3>2
  <2>3. CASE p # n + 1
    <3>1. p \in 1 .. n /\ new[p] = list[p]
      BY <1>2, <1>3, <2>3
    <3>2. list[p].due = (IF p = 1 THEN base ELSE list[p - 1].due)
                        + CycleSize * list[p].delta
      BY <1>1, <1>2, <3>1 DEF Spaced
    <3> QED
      BY <2>1, <3>1, <3>2
  <2> QED
    BY <2>2, <2>3
<1> QED
  BY <1>3, <1>5, <1>6 DEF InOrder, new

Sieve == [carry : Nat, kept : Seq(Call)]
Clean == [carry |-> 0, kept |-> <<>>]

LEMMA PassedIs ==
  ASSUME NEW v \in Sieve, NEW c \in Call, NEW owners
  PROVE  /\ Passed(v, c, owners) \in Sieve
         /\ v.carry \in Nat /\ v.kept \in Seq(Call)
         /\ c.ob \in owners =>
              /\ Passed(v, c, owners).carry = v.carry + c.delta
              /\ Passed(v, c, owners).kept = v.kept
         /\ c.ob \notin owners =>
              /\ Passed(v, c, owners).carry = 0
              /\ \E e \in Call :
                   /\ Same(e, c) /\ e.delta = c.delta + v.carry
                   /\ Passed(v, c, owners).kept = Append(v.kept, e)
<1>1. v.carry \in Nat /\ v.kept \in Seq(Call) /\ c.delta \in Nat
  BY DEF Sieve, Call
<1>2. CASE c.ob \in owners
  <2>1. Passed(v, c, owners) = [v EXCEPT !.carry = v.carry + c.delta]
    BY <1>2 DEF Passed
  <2>2. v = [carry |-> v.carry, kept |-> v.kept]
    BY DEF Sieve
  <2>3. Passed(v, c, owners) = [carry |-> v.carry + c.delta, kept |-> v.kept]
    BY <2>1, <2>2
  <2> QED
    BY <1>1, <1>2, <2>3 DEF Sieve
<1>3. CASE c.ob \notin owners
  <2> DEFINE e == [c EXCEPT !.delta = c.delta + v.carry]
  <2>1. e \in Call /\ e.delta = c.delta + v.carry /\ Same(e, c)
    <3>1. c.delta + v.carry \in Nat
      BY <1>1
    <3> QED
      BY <3>1, SetDelta
  <2>2. Passed(v, c, owners) = [carry |-> 0, kept |-> Append(v.kept, e)]
    BY <1>3 DEF Passed
  <2> HIDE DEF e
  <2>3. Append(v.kept, e) \in Seq(Call)
    BY <1>1, <2>1, AppendProperties
  <2>4. Passed(v, c, owners) \in Sieve
    BY <2>2, <2>3 DEF Sieve
  <2>5. /\ Passed(v, c, owners).carry = 0
        /\ Passed(v, c, owners).kept = Append(v.kept, e)
    BY <2>2
  <2> QED
    BY <1>1, <1>3, <2>1, <2>4, <2>5
<1> QED
  BY <1>2, <1>3

LEMMA SiftedIs ==
  ASSUME NEW list \in Seq(Call), NEW owners
  PROVE  /\ Sifted(list, owners)[0] = Clean
         /\ \A k \in 0 .. Len(list) : Sifted(list, owners)[k] \in Sieve
         /\ \A k \in 1 .. Len(list) :
              Sifted(list, owners)[k] =
                Passed(Sifted(list, owners)[k - 1], list[k], owners)
<1> DEFINE n == Len(list)
           R(f) == [k \in 0 .. n |-> IF k = 0 THEN [carry |-> 0, kept |-> <<>>]
                                     ELSE Passed(f[k - 1], list[k], owners)]
           step == [k \in 1 .. n |-> [v \in Sieve |-> Passed(v, list[k], owners)]]
           T == Sifted(list, owners)
<1>1. n \in Nat /\ \A k \in 1 .. n : list[k] \in Call
  BY ListIs
<1>2. T = CHOOSE f : f = R(f)
  BY DEF Sifted
<1>3. step \in [1 .. n -> [Sieve -> Sieve]]
  <2>1. \A k \in 1 .. n :
          [v \in Sieve |-> Passed(v, list[k], owners)] \in [Sieve -> Sieve]
    BY <1>1, PassedIs
  <2> HIDE DEF n
  <2> QED
    BY <2>1
<1>4. Clean \in Sieve
  <2>1. <<>> \in Seq(Call)
    OBVIOUS
  <2> QED
    BY <2>1 DEF Clean, Sieve
<1>5. PICK f \in [0 .. n -> Sieve] : Follows(f, n, Clean, step)
  <2> HIDE DEF n, step
  <2> QED
    BY <1>1, <1>3, <1>4, Recursion
<1>6. \A k \in 1 .. n : f[k] = Passed(f[k - 1], list[k], owners)
  <2> SUFFICES ASSUME NEW k \in 1 .. n
               PROVE  f[k] = Passed(f[k - 1], list[k], owners)
    OBVIOUS
  <2>1. k - 1 \in 0 .. n
    BY <1>1
  <2>2. f[k - 1] \in Sieve
    BY <2>1
  <2>3. step[k][f[k - 1]] = Passed(f[k - 1], list[k], owners)
    BY <2>2
  <2> QED
    BY <1>5, <2>3 DEF Follows
<1>7. f = R(f)
  <2>1. f[0] = Clean
    BY <1>5 DEF Follows
  <2>2. \A k \in 0 .. n : f[k] = R(f)[k]
    BY <1>1, <1>6, <2>1 DEF Clean
  <2> QED
    BY <1>5, <2>2
<1>8. T = R(T)
  <2> HIDE DEF R
  <2> QED
    BY <1>2, <1>7
<1>9. T[0] = Clean
  <2>1. 0 \in 0 .. n
    BY <1>1
  <2>2. R(T)[0] = Clean
    BY <2>1 DEF Clean
  <2> QED
    BY <1>8, <2>2
<1>10. ASSUME NEW k \in 1 .. n PROVE T[k] = Passed(T[k - 1], list[k], owners)
  <2>1. k \in 0 .. n /\ k # 0
    BY <1>1
  <2>2. R(T)[k] = Passed(T[k - 1], list[k], owners)
    BY <2>1
  <2> QED
    BY <1>8, <2>2
<1> HIDE DEF T, R, step
<1>11. \A k \in 0 .. n : T[k] \in Sieve
  <2> DEFINE S == {k \in 0 .. n : T[k] \in Sieve}
  <2>1. 0 \in S
    BY <1>1, <1>4, <1>9
  <2>2. ASSUME NEW k \in 0 .. n - 1, k \in S PROVE k + 1 \in S
    <3>1. k + 1 \in 1 .. n /\ k + 1 \in 0 .. n /\ (k + 1) - 1 = k
      BY <1>1
    <3>2. T[k + 1] = Passed(T[k], list[k + 1], owners)
      BY <1>10, <3>1
    <3>3. list[k + 1] \in Call /\ T[k] \in Sieve
      BY <1>1, <2>2, <3>1
    <3> QED
      BY <3>1, <3>2, <3>3, PassedIs
  <2> HIDE DEF S
  <2>3. 0 .. n \subseteq S
    BY <1>1, <2>1, <2>2, UpTo
  <2> QED
    BY <2>3 DEF S
<1> QED
  BY <1>9, <1>10, <1>11 DEF T

(* Whoever is taken out, the calls behind inherit the turns.               *)
LEMMA RemovedAllIs ==
  ASSUME NEW list, NEW base \in Nat, InOrder(list, base), NEW owners
  PROVE  /\ InOrder(RemovedAll(list, owners), base)
         /\ Keeps(RemovedAll(list, owners), list,
                  {q \in 1 .. Len(list) : list[q].ob \notin owners})
<1> DEFINE n == Len(list)
           T == Sifted(list, owners)
           Stay(k) == {q \in 1 .. k : list[q].ob \notin owners}
           Reach(k) == IF k = 0 THEN base ELSE list[k].due
           Right(k) ==
             /\ InOrder(T[k].kept, base)
             /\ Keeps(T[k].kept, list, Stay(k))
             /\ Reach(k) = End(T[k].kept, base) + CycleSize * T[k].carry
           S == {k \in 0 .. n : Right(k)}
<1>1. list \in Seq(Call) /\ Spaced(list, base) /\ Sorted(list)
  BY DEF InOrder
<1>2. /\ n \in Nat /\ DOMAIN list = 1 .. n
      /\ \A k \in 1 .. n : /\ list[k] \in Call
                           /\ list[k].delta \in Nat /\ list[k].due \in Nat
  BY <1>1, ListIs
<1>3. /\ T[0] = Clean
      /\ \A k \in 0 .. n : T[k] \in Sieve
      /\ \A k \in 1 .. n : T[k] = Passed(T[k - 1], list[k], owners)
  BY <1>1, SiftedIs
<1> HIDE DEF T
<1>4. 0 \in S
  <2>1. T[0].kept = <<>> /\ T[0].carry = 0
    BY <1>3 DEF Clean
  <2>2. InOrder(<<>>, base)
    BY DEF InOrder, Spaced, Sorted
  <2>3. Keeps(<<>>, list, Stay(0))
    <3>1. Stay(0) = {} /\ DOMAIN <<>> = {}
      OBVIOUS
    <3> QED
      BY <3>1 DEF Keeps
  <2>4. Reach(0) = End(<<>>, base) + CycleSize * 0
    BY Sizes DEF End
  <2>5. Right(0)
    BY <2>1, <2>2, <2>3, <2>4
  <2> QED
    BY <1>2, <2>5
<1>5. ASSUME NEW k \in 0 .. n - 1, k \in S PROVE k + 1 \in S
  <2> DEFINE c == list[k + 1]
             v == T[k]
             w == T[k + 1]
  <2>1. k + 1 \in 1 .. n /\ k + 1 \in 0 .. n /\ k \in 0 .. n /\ (k + 1) - 1 = k
    BY <1>2
  <2>2. Right(k)
    BY <1>5
  <2>3. w = Passed(v, c, owners) /\ v \in Sieve /\ c \in Call
    BY <1>2, <1>3, <2>1
  <2>4. c.due = Reach(k) + CycleSize * c.delta /\ c.delta \in Nat /\ c.due \in Nat
    <3>1. /\ c.due = (IF k + 1 = 1 THEN base ELSE list[(k + 1) - 1].due)
                     + CycleSize * c.delta
          /\ c.delta \in Nat /\ c.due \in Nat
      BY <1>1, <1>2, <2>1 DEF Spaced
    <3>2. k + 1 = 1 <=> k = 0
      BY <2>1
    <3> QED
      BY <2>1, <3>1, <3>2
  <2>5. v.carry \in Nat /\ v.kept \in Seq(Call)
    BY <2>3, PassedIs
  <2>6. End(v.kept, base) \in Nat
    <3>1. v.kept # <<>> => Len(v.kept) \in 1 .. Len(v.kept)
      BY <2>5, EmptySeq, LenProperties
    <3>2. v.kept # <<>> => v.kept[Len(v.kept)].due \in Nat
      BY <2>5, <3>1, ListIs
    <3> QED
      BY <3>2 DEF End
  <2>7. Reach(k) = End(v.kept, base) + CycleSize * v.carry
    BY <2>2
  <2>8. c.due = End(v.kept, base) + CycleSize * (c.delta + v.carry)
    <3>1. \A g, x, y \in Nat :
            (g + CycleSize * x) + CycleSize * y = g + CycleSize * (y + x)
      BY Sizes
    <3>2. (End(v.kept, base) + CycleSize * v.carry) + CycleSize * c.delta
          = End(v.kept, base) + CycleSize * (c.delta + v.carry)
      <4> HIDE DEF c, v
      <4> QED
        BY <2>4, <2>5, <2>6, <3>1
    <3> QED
      BY <2>4, <2>7, <3>2
  <2>9. Reach(k + 1) = c.due
    BY <2>1
  <2>10. /\ Stay(k + 1) \subseteq 1 .. n
         /\ Stay(k + 1) = IF c.ob \in owners THEN Stay(k) ELSE Stay(k) \union {k + 1}
    <3>1. 1 .. k + 1 = (1 .. k) \union {k + 1} /\ 1 .. k + 1 \subseteq 1 .. n
      BY <2>1
    <3> QED
      BY <3>1
  <2>11. CASE c.ob \in owners
    <3>1. w.carry = v.carry + c.delta /\ w.kept = v.kept
      BY <2>3, <2>11, PassedIs
    <3>2. w.carry = c.delta + v.carry
      <4> HIDE DEF c, v, w
      <4> QED
        BY <2>4, <2>5, <3>1
    <3>3. /\ InOrder(w.kept, base)
          /\ Keeps(w.kept, list, Stay(k + 1))
          /\ Reach(k + 1) = End(w.kept, base) + CycleSize * w.carry
      <4> HIDE DEF c, v, w, Stay, Reach
      <4> QED
        BY <2>2, <2>8, <2>9, <2>10, <2>11, <3>1, <3>2 DEF v
    <3> QED
      BY <2>1, <3>3
  <2>12. CASE c.ob \notin owners
    <3>1. PICK e \in Call : /\ Same(e, c) /\ e.delta = c.delta + v.carry
                            /\ w.kept = Append(v.kept, e)
      <4> HIDE DEF c, v, w
      <4> QED
        BY <2>3, <2>12, PassedIs
    <3>2. w.carry = 0
      BY <2>3, <2>12, PassedIs
    <3>3. e.due = c.due
      BY <3>1 DEF Same
    <3>4. DOMAIN v.kept = 1 .. Len(v.kept) /\ Len(v.kept) \in Nat
      BY <2>5, LenProperties
    <3>5. InOrder(v.kept, base) /\ Keeps(v.kept, list, Stay(k))
      BY <2>2
    <3>6. ASSUME NEW p \in 1 .. Len(v.kept) PROVE Earlier(v.kept[p], e)
      <4>1. PICK q \in Stay(k) : Same(v.kept[p], list[q])
        <5> HIDE DEF v, Stay
        <5> QED
          BY <3>4, <3>5 DEF Keeps
      <4>2. q \in 1 .. n /\ q < k + 1
        BY <1>2
      <4>3. Earlier(list[q], list[k + 1])
        BY <1>1, <1>2, <2>1, <4>2 DEF Sorted
      <4> QED
        BY <3>1, <4>1, <4>3 DEF Earlier, Same
    <3>7. InOrder(w.kept, base)
      <4>1. e.due = End(v.kept, base) + CycleSize * e.delta
        BY <2>8, <3>1, <3>3
      <4> HIDE DEF c, v, w
      <4> QED
        BY <3>1, <3>5, <3>6, <4>1, AppendIs
    <3>8. /\ Len(w.kept) = Len(v.kept) + 1 /\ w.kept[Len(v.kept) + 1] = e
          /\ DOMAIN w.kept = 1 .. Len(v.kept) + 1
          /\ \A p \in 1 .. Len(v.kept) : w.kept[p] = v.kept[p]
      <4> HIDE DEF c, v, w
      <4>1. w.kept \in Seq(Call)
        BY <2>5, <3>1, AppendProperties
      <4> QED
        BY <2>5, <3>1, <4>1, AppendProperties, LenProperties
    <3>9. Keeps(w.kept, list, Stay(k + 1))
      <4> HIDE DEF v, w, Stay
      <4>1. Stay(k + 1) = Stay(k) \union {k + 1} /\ Stay(k + 1) \subseteq DOMAIN list
        BY <1>2, <2>10, <2>12
      <4>2. Same(w.kept[Len(v.kept) + 1], list[k + 1])
        BY <3>1, <3>8
      <4>3. ASSUME NEW p \in DOMAIN w.kept
            PROVE  \E q \in Stay(k + 1) : Same(w.kept[p], list[q])
        <5>1. p \in 1 .. Len(v.kept) \/ p = Len(v.kept) + 1
          BY <3>4, <3>8
        <5> QED
          BY <3>4, <3>5, <3>8, <4>1, <4>2, <5>1 DEF Keeps
      <4>4. ASSUME NEW q \in Stay(k + 1)
            PROVE  \E p \in DOMAIN w.kept : Same(w.kept[p], list[q])
        <5>1. CASE q = k + 1
          <6>1. Len(v.kept) + 1 \in DOMAIN w.kept
            BY <3>4, <3>8
          <6> QED
            BY <4>2, <5>1, <6>1
        <5>2. CASE q \in Stay(k)
          <6>1. PICK p \in 1 .. Len(v.kept) : Same(v.kept[p], list[q])
            BY <3>4, <3>5, <5>2 DEF Keeps
          <6>2. p \in DOMAIN w.kept
            BY <3>4, <3>8
          <6> QED
            BY <3>8, <6>1, <6>2
        <5> QED
          BY <4>1, <5>1, <5>2
      <4> QED
        BY <4>1, <4>3, <4>4 DEF Keeps
    <3>10. Reach(k + 1) = End(w.kept, base) + CycleSize * w.carry
      <4>1. w.kept # <<>>
        BY <3>4, <3>8
      <4>2. End(w.kept, base) = e.due
        BY <3>8, <4>1 DEF End
      <4>3. c.due + CycleSize * 0 = c.due
        BY <2>4, Sizes
      <4> QED
        BY <2>9, <3>2, <3>3, <4>2, <4>3
    <3> QED
      BY <2>1, <3>7, <3>9, <3>10
  <2> QED
    BY <2>11, <2>12
<1> HIDE DEF S
<1>6. 0 .. n \subseteq S
  BY <1>2, <1>4, <1>5, UpTo
<1>7. n \in 0 .. n
  BY <1>2
<1>8. Right(n)
  BY <1>6, <1>7 DEF S
<1> QED
  BY <1>8 DEF RemovedAll, T

(* More turns, later.                                                      *)
LEMMA TurnsOrder ==
  ASSUME NEW base \in Nat, NEW x \in Nat, NEW y \in Nat
  PROVE  /\ x <= y => base + CycleSize * x <= base + CycleSize * y
         /\ x < y => base + CycleSize * x < base + CycleSize * y
<1>1. CycleSize * y = CycleSize * x + CycleSize * (y - x)
  BY Sizes
<1>2. CycleSize * x \in Int /\ CycleSize * y \in Int
  BY Products
<1>3. y - x \in Int
  OBVIOUS
<1>4. /\ CycleSize * (y - x) \in Int
      /\ y - x >= 0 => CycleSize * (y - x) >= 0
      /\ y - x >= 1 => CycleSize * (y - x) >= CycleSize
  BY <1>3, Products
<1> QED
  BY <1>1, <1>2, <1>4, Sizes

LEMMA PlaceForIs ==
  ASSUME NEW list \in Seq(Call), NEW turns \in Nat,
         NEW p, p = PlaceFor(list, turns)
  PROVE  /\ p \in 1 .. Len(list) + 1
         /\ p <= Len(list) => Turns(list)[p] > turns
         /\ \A k \in 1 .. p - 1 : Turns(list)[k] <= turns
<1> DEFINE n == Len(list)
           T == {q \in 1 .. n + 1 : q <= n => Turns(list)[q] > turns}
<1>1. n \in Nat /\ \A k \in 1 .. n : Turns(list)[k] \in Nat
  BY TurnsAre, ListIs
<1>2. T \in SUBSET Nat /\ n + 1 \in T
  BY <1>1
<1>3. PICK m \in T : \A q \in T : m <= q
  <2> HIDE DEF T
  <2> QED
    BY <1>2, LeastNumber
<1>4. ASSUME NEW k \in 1 .. m - 1 PROVE Turns(list)[k] <= turns
  <2>1. k \notin T /\ k \in 1 .. n
    BY <1>1, <1>3
  <2> QED
    BY <1>1, <2>1
<1>5. \E q \in 1 .. n + 1 :
        /\ q <= n => Turns(list)[q] > turns
        /\ \A k \in 1 .. q - 1 : Turns(list)[k] <= turns
  BY <1>3, <1>4
<1> QED
  BY <1>5 DEF PlaceFor

(* A call comes between those of a list.                                   *)
Gains(new, old, c) ==
  \E p \in 1 .. Len(old) + 1 :
    /\ DOMAIN new = 1 .. Len(old) + 1
    /\ \A k \in 1 .. Len(old) + 1 :
         Same(new[k], IF k < p THEN old[k] ELSE IF k = p THEN c ELSE old[k - 1])

LEMMA InsertedIs ==
  ASSUME NEW list, NEW base \in Nat, InOrder(list, base), NEW c \in Call,
         NEW turns \in Nat, c.due = base + CycleSize * turns,
         \A k \in 1 .. Len(list) : list[k].id < c.id
  PROVE  /\ InOrder(Inserted(list, c, turns), base)
         /\ Gains(Inserted(list, c, turns), list, c)
<1> DEFINE n == Len(list)
           p == PlaceFor(list, turns)
           T == Turns(list)
           delta == turns - T[p - 1]
           later == IF p <= n THEN [list EXCEPT ![p].delta = @ - delta]
                    ELSE list
           e == [c EXCEPT !.delta = delta]
           new == Inserted(list, c, turns)
           Was(k) == IF k < p THEN list[k] ELSE IF k = p THEN c ELSE list[k - 1]
<1>1. list \in Seq(Call) /\ Spaced(list, base) /\ Sorted(list)
  BY DEF InOrder
<1>2. /\ n \in Nat /\ DOMAIN list = 1 .. n
      /\ \A k \in 1 .. n : /\ list[k] \in Call
                           /\ list[k].delta \in Nat /\ list[k].due \in Nat
                           /\ list[k].id \in Nat
  BY <1>1, ListIs
<1>3. /\ T[0] = 0
      /\ \A k \in 0 .. n : T[k] \in Nat
      /\ \A k \in 1 .. n : T[k] = T[k - 1] + list[k].delta
  BY <1>1, TurnsAre
<1>4. /\ p \in 1 .. n + 1
      /\ p <= n => T[p] > turns
      /\ \A k \in 1 .. p - 1 : T[k] <= turns
  BY <1>1, PlaceForIs
<1>5. \A k \in 1 .. n : list[k].due = base + CycleSize * T[k]
  BY <1>1, DueIs
<1>6. new = InsertAt(later, p, e)
  BY DEF Inserted
<1> HIDE DEF p, T, new
<1>7. T[p - 1] \in Nat /\ delta \in Nat
  <2>1. p - 1 \in 0 .. n
    BY <1>2, <1>4
  <2>2. T[p - 1] <= turns
    <3>1. CASE p = 1
      BY <1>3, <3>1
    <3>2. CASE p # 1
      <4>1. p - 1 \in 1 .. p - 1
        BY <1>4, <3>2
      <4> QED
        BY <1>4, <4>1
    <3> QED
      BY <3>1, <3>2
  <2> QED
    BY <1>3, <2>1, <2>2
<1>8. e \in Call /\ e.delta = delta /\ Same(e, c)
  <2> HIDE DEF delta
  <2> QED
    BY <1>7, SetDelta
<1>9. /\ later \in Seq(Call) /\ Len(later) = n
      /\ \A k \in 1 .. n :
           /\ Same(later[k], list[k])
           /\ later[k].delta = IF k = p THEN list[k].delta - delta
                               ELSE list[k].delta
  <2>1. CASE p <= n
    <3> DEFINE x == list[p].delta - delta
    <3>1. p \in 1 .. n
      BY <1>4, <2>1
    <3>2. x \in Nat
      <4>1. T[p] = T[p - 1] + list[p].delta /\ list[p].delta \in Nat /\ T[p] > turns
        BY <1>2, <1>3, <1>4, <2>1, <3>1
      <4> QED
        BY <1>7, <4>1
    <3>3. later = WithDelta(list, p, x)
      BY <2>1 DEF WithDelta
    <3> HIDE DEF later, x
    <3>4. /\ later \in Seq(Call) /\ Len(later) = n
          /\ \A k \in 1 .. n :
               /\ Same(later[k], list[k])
               /\ later[k].delta = IF k = p THEN x ELSE list[k].delta
      BY <1>1, <3>1, <3>2, <3>3, DeltaAt
    <3> QED
      BY <3>4 DEF x
  <2>2. CASE ~(p <= n)
    <3>1. later = list /\ \A k \in 1 .. n : k # p
      BY <1>2, <1>4, <2>2
    <3> HIDE DEF later
    <3>2. \A k \in 1 .. n : Same(later[k], list[k]) /\ later[k].delta = list[k].delta
      BY <3>1 DEF Same
    <3> QED
      BY <1>1, <3>1, <3>2
  <2> QED
    BY <2>1, <2>2
<1> HIDE DEF later, e, delta
<1>10. /\ new \in Seq(Call) /\ Len(new) = n + 1
       /\ \A k \in 1 .. n + 1 :
            new[k] = IF k < p THEN later[k] ELSE IF k = p THEN e ELSE later[k - 1]
  <2> HIDE DEF n
  <2>1. p \in 1 .. Len(later) + 1
    BY <1>4, <1>9
  <2>2. /\ new \in Seq(Call) /\ Len(new) = Len(later) + 1
        /\ \A k \in 1 .. Len(later) + 1 :
             new[k] = IF k < p THEN later[k] ELSE IF k = p THEN e ELSE later[k - 1]
    <3>1. later \in Seq(Call)
      BY <1>9
    <3> QED
      BY <1>6, <1>8, <2>1, <3>1, InsertAtIs
  <2>3. Len(later) = n
    BY <1>9
  <2> QED
    BY <2>2, <2>3
<1>11. DOMAIN new = 1 .. n + 1
  BY <1>10, LenProperties
<1>12. \A k \in 1 .. n + 1 : /\ k < p => k \in 1 .. n
                             /\ k > p => k - 1 \in 1 .. n /\ k - 1 >= p
  BY <1>2, <1>4
<1>13. \A k \in 1 .. n + 1 : Same(new[k], Was(k))
  <2> SUFFICES ASSUME NEW k \in 1 .. n + 1 PROVE Same(new[k], Was(k))
    OBVIOUS
  <2>1. CASE k < p
    BY <1>9, <1>10, <1>12, <2>1
  <2>2. CASE k = p
    <3>1. new[k] = e /\ Was(k) = c
      BY <1>4, <1>10, <2>2
    <3> QED
      BY <1>8, <3>1
  <2>3. CASE k > p
    <3>1. new[k] = later[k - 1] /\ Was(k) = list[k - 1] /\ k - 1 \in 1 .. n
      BY <1>4, <1>10, <1>12, <2>3
    <3> QED
      BY <1>9, <3>1
  <2> QED
    BY <1>4, <2>1, <2>2, <2>3
<1>14. \A k \in 1 .. n : k < p => Earlier(list[k], c)
  <2> SUFFICES ASSUME NEW k \in 1 .. n, k < p PROVE Earlier(list[k], c)
    OBVIOUS
  <2>1. k \in 1 .. p - 1 /\ k \in 0 .. n
    BY <1>4
  <2>2. T[k] <= turns /\ T[k] \in Nat
    BY <1>3, <1>4, <2>1
  <2>3. base + CycleSize * T[k] <= base + CycleSize * turns
    BY <2>2, TurnsOrder
  <2>4. list[k].due <= c.due
    BY <1>5, <2>3
  <2>5. c.due \in Nat
    BY DEF Call
  <2> QED
    BY <1>2, <2>4, <2>5 DEF Earlier
<1>15. \A k \in 1 .. n : k >= p => Earlier(c, list[k])
  <2> SUFFICES ASSUME NEW k \in 1 .. n, k >= p PROVE Earlier(c, list[k])
    OBVIOUS
  <2>1. p <= n /\ p \in 1 .. n /\ p \in 0 .. n
    BY <1>2, <1>4
  <2>2. T[p] > turns /\ T[p] \in Nat
    BY <1>3, <1>4, <2>1
  <2>3. base + CycleSize * turns < base + CycleSize * T[p]
    BY <2>2, TurnsOrder
  <2>4. c.due < list[p].due
    BY <1>5, <2>1, <2>3
  <2>5. list[p].due <= list[k].due
    <3>1. CASE k = p
      BY <1>2, <3>1
    <3>2. CASE k # p
      <4>1. Earlier(list[p], list[k])
        BY <1>1, <1>2, <2>1, <3>2 DEF Sorted
      <4> QED
        BY <1>2, <2>1, <4>1 DEF Earlier
    <3> QED
      BY <3>1, <3>2
  <2>6. c.due \in Nat
    BY DEF Call
  <2> QED
    BY <1>2, <2>1, <2>4, <2>5, <2>6 DEF Earlier
<1>16. Sorted(new)
  <2> SUFFICES ASSUME NEW k \in 1 .. n + 1, NEW m \in 1 .. n + 1, k < m
               PROVE  Earlier(new[k], new[m])
    BY <1>11 DEF Sorted
  <2>1. Earlier(Was(k), Was(m))
    <3>1. CASE m < p
      <4>1. /\ Was(k) = list[k] /\ Was(m) = list[m]
            /\ k \in 1 .. n /\ m \in 1 .. n
        BY <1>4, <1>12, <3>1
      <4> QED
        BY <1>1, <1>2, <4>1 DEF Sorted
    <3>2. CASE m = p
      <4>1. Was(k) = list[k] /\ Was(m) = c /\ k \in 1 .. n /\ k < p
        BY <1>4, <1>12, <3>2
      <4> QED
        BY <1>14, <4>1
    <3>3. CASE m > p /\ k < p
      <4>1. /\ Was(k) = list[k] /\ Was(m) = list[m - 1]
            /\ k \in 1 .. n /\ m - 1 \in 1 .. n /\ k < m - 1
        BY <1>4, <1>12, <3>3
      <4> QED
        BY <1>1, <1>2, <4>1 DEF Sorted
    <3>4. CASE m > p /\ k = p
      <4>1. /\ Was(k) = c /\ Was(m) = list[m - 1]
            /\ m - 1 \in 1 .. n /\ m - 1 >= p
        BY <1>4, <1>12, <3>4
      <4> QED
        BY <1>15, <4>1
    <3>5. CASE k > p
      <4>1. /\ Was(k) = list[k - 1] /\ Was(m) = list[m - 1]
            /\ k - 1 \in 1 .. n /\ m - 1 \in 1 .. n /\ k - 1 < m - 1
        BY <1>4, <1>12, <3>5
      <4> QED
        BY <1>1, <1>2, <4>1 DEF Sorted
    <3> QED
      BY <1>4, <3>1, <3>2, <3>3, <3>4, <3>5
  <2>2. Same(new[k], Was(k)) /\ Same(new[m], Was(m))
    BY <1>13
  <2> HIDE DEF Was
  <2> QED
    BY <2>1, <2>2 DEF Earlier, Same
<1>17. Spaced(new, base)
  <2> SUFFICES ASSUME NEW k \in 1 .. n + 1
               PROVE  new[k].due = (IF k = 1 THEN base ELSE new[k - 1].due)
                                   + CycleSize * new[k].delta
    BY <1>11 DEF Spaced
  <2>1. new[k].due = Was(k).due
    BY <1>13 DEF Same
  <2>2. k # 1 => k - 1 \in 1 .. n + 1 /\ new[k - 1].due = Was(k - 1).due
    <3>1. k # 1 => k - 1 \in 1 .. n + 1
      BY <1>2
    <3> QED
      BY <1>13, <3>1 DEF Same
  <2>3. CASE k < p
    <3>1. k \in 1 .. n /\ Was(k) = list[k] /\ (k # 1 => Was(k - 1) = list[k - 1])
      BY <1>4, <1>12, <2>3
    <3>2. new[k].delta = list[k].delta
      BY <1>4, <1>9, <1>10, <2>3, <3>1
    <3>3. list[k].due = (IF k = 1 THEN base ELSE list[k - 1].due)
                        + CycleSize * list[k].delta
      BY <1>1, <1>2, <3>1 DEF Spaced
    <3> QED
      BY <2>1, <2>2, <3>1, <3>2, <3>3
  <2>4. (IF p = 1 THEN base ELSE list[p - 1].due) = base + CycleSize * T[p - 1]
    <3>1. CASE p = 1
      BY <1>3, <3>1, Sizes
    <3>2. CASE p # 1
      <4>1. p - 1 \in 1 .. n
        BY <1>2, <1>4, <3>2
      <4> QED
        BY <1>5, <3>2, <4>1
    <3> QED
      BY <3>1, <3>2
  <2>5. CASE k = p
    <3>1. Was(k) = c /\ new[k].delta = delta /\ (k # 1 => Was(k - 1) = list[k - 1])
      BY <1>4, <1>8, <1>10, <2>5
    <3>2. \A x, y \in Nat :
            base + CycleSize * y = (base + CycleSize * x) + CycleSize * (y - x)
      BY Sizes
    <3>3. c.due = (base + CycleSize * T[p - 1]) + CycleSize * delta
      BY <1>7, <3>2 DEF delta
    <3> QED
      BY <2>1, <2>2, <2>4, <2>5, <3>1, <3>3
  <2>6. CASE k > p
    <3>1. /\ Was(k) = list[k - 1] /\ k - 1 \in 1 .. n /\ k # 1
          /\ new[k].delta = later[k - 1].delta
      BY <1>4, <1>10, <1>12, <2>6
    <3>2. CASE k - 1 = p
      <4>1. Was(k - 1) = c
        BY <3>2
      <4>2. later[p].delta = list[p].delta - delta /\ p \in 1 .. n
        BY <1>9, <3>1, <3>2
      <4>3. T[p] = T[p - 1] + list[p].delta /\ list[p].delta \in Nat
        BY <1>2, <1>3, <4>2
      <4>4. list[p].due = base + CycleSize * T[p]
        BY <1>5, <4>2
      <4>5. \A x, y, z \in Nat :
              base + CycleSize * (x + y)
              = (base + CycleSize * z) + CycleSize * (y - (z - x))
        BY Sizes
      <4>6. base + CycleSize * (T[p - 1] + list[p].delta)
            = (base + CycleSize * turns)
              + CycleSize * (list[p].delta - (turns - T[p - 1]))
        BY <1>7, <4>3, <4>5
      <4>7. list[p].due = c.due + CycleSize * (list[p].delta - delta)
        BY <4>3, <4>4, <4>6 DEF delta
      <4> QED
        BY <2>1, <2>2, <3>1, <3>2, <4>1, <4>2, <4>7
    <3>3. CASE k - 1 # p
      <4>1. /\ Was(k - 1) = list[(k - 1) - 1] /\ k - 1 # 1 /\ k - 1 > p
        BY <1>4, <2>6, <3>1, <3>3
      <4>2. later[k - 1].delta = list[k - 1].delta
        BY <1>9, <3>1, <3>3
      <4>3. list[k - 1].due = list[(k - 1) - 1].due + CycleSize * list[k - 1].delta
        BY <1>1, <1>2, <3>1, <4>1 DEF Spaced
      <4> QED
        BY <2>1, <2>2, <3>1, <4>1, <4>2, <4>3
    <3> QED
      BY <3>2, <3>3
  <2> QED
    BY <1>4, <2>3, <2>5, <2>6
<1>18. InOrder(new, base)
  BY <1>10, <1>16, <1>17 DEF InOrder
<1>19. Gains(new, list, c)
  BY <1>4, <1>11, <1>13 DEF Gains
<1> QED
  BY <1>18, <1>19 DEF new

-----------------------------------------------------------------------------
(* The wheel and the calls it shows                                        *)

PlacesOf(lists) ==
  UNION {{<<s, p>> : p \in DOMAIN lists[s]} : s \in Slots}

Pend(lists) ==
  UNION {{Shown(lists[s][p]) : p \in DOMAIN lists[s]} : s \in Slots}

LEMMA PlaceIs ==
  ASSUME NEW lists
  PROVE  /\ \A w \in PlacesOf(lists) :
              /\ w[1] \in Slots /\ w[2] \in DOMAIN lists[w[1]]
              /\ w = <<w[1], w[2]>>
         /\ \A s \in Slots : \A p \in DOMAIN lists[s] : <<s, p>> \in PlacesOf(lists)
BY DEF PlacesOf

LEMMA PendIs ==
  ASSUME NEW lists
  PROVE  {Shown(lists[w[1]][w[2]]) : w \in PlacesOf(lists)} = Pend(lists)
<1> DEFINE A == {Shown(lists[w[1]][w[2]]) : w \in PlacesOf(lists)}
<1>1. ASSUME NEW c \in A PROVE c \in Pend(lists)
  <2>1. PICK w \in PlacesOf(lists) : c = Shown(lists[w[1]][w[2]])
    OBVIOUS
  <2>2. w[1] \in Slots /\ w[2] \in DOMAIN lists[w[1]]
    BY PlaceIs
  <2> QED
    BY <2>1, <2>2 DEF Pend
<1>2. ASSUME NEW c \in Pend(lists) PROVE c \in A
  <2>1. PICK s \in Slots : \E p \in DOMAIN lists[s] : c = Shown(lists[s][p])
    BY DEF Pend
  <2>2. PICK p \in DOMAIN lists[s] : c = Shown(lists[s][p])
    BY <2>1
  <2>3. <<s, p>> \in PlacesOf(lists)
    BY PlaceIs
  <2>4. <<s, p>>[1] = s /\ <<s, p>>[2] = p
    OBVIOUS
  <2> QED
    BY <2>2, <2>3, <2>4
<1> QED
  BY <1>1, <1>2

LEMMA PendingIs ==
  /\ {Shown(At(w)) : w \in Places} = Pend(call_list)
  /\ {Shown(At(w)) : w \in Places}' = Pend(call_list')
<1>1. {Shown(At(w)) : w \in Places} = Pend(call_list)
  <2>1. Places = PlacesOf(call_list)
    BY DEF Places, PlacesOf
  <2>2. \A w : At(w) = call_list[w[1]][w[2]]
    BY DEF At
  <2> QED
    BY <2>1, <2>2, PendIs
<1>2. {Shown(At(w)) : w \in Places}' = Pend(call_list')
  <2>1. Places' = PlacesOf(call_list')
    BY DEF Places, PlacesOf
  <2>2. {Shown(At(w)) : w \in Places}'
          = {Shown(call_list'[w[1]][w[2]]) : w \in PlacesOf(call_list')}
    BY <2>1 DEF At, Shown
  <2>3. {Shown(call_list'[w[1]][w[2]]) : w \in PlacesOf(call_list')}
          = Pend(call_list')
    BY PendIs
  <2> QED
    BY <2>2, <2>3
<1> QED
  BY <1>1, <1>2

(* The search of remove_call_out() finds one of the calls it looks for.    *)
LEMMA FirstIs ==
  ASSUME call_list \in [Slots -> Seq(Call)],
         NEW places, places \subseteq Places, places # {}
  PROVE  FirstOf(places) \in places
<1>1. \A w \in places : w[1] \in Slots /\ w[2] \in Nat /\ w = <<w[1], w[2]>>
  <2> SUFFICES ASSUME NEW w \in places
               PROVE  w[1] \in Slots /\ w[2] \in Nat /\ w = <<w[1], w[2]>>
    OBVIOUS
  <2>1. w \in PlacesOf(call_list)
    BY DEF Places, PlacesOf
  <2>2. /\ w[1] \in Slots /\ w[2] \in DOMAIN call_list[w[1]]
        /\ w = <<w[1], w[2]>>
    BY <2>1, PlaceIs
  <2>3. call_list[w[1]] \in Seq(Call)
    BY <2>2
  <2> QED
    BY <2>2, <2>3, ListIs
<1> DEFINE slots == {w[1] : w \in places}
<1>2. slots \in SUBSET Nat /\ slots # {}
  BY <1>1 DEF Slots
<1>3. PICK s \in slots : \A r \in slots : s <= r
  <2> HIDE DEF slots
  <2> QED
    BY <1>2, LeastNumber
<1> DEFINE within == {p \in Nat : <<s, p>> \in places}
<1>4. within \in SUBSET Nat /\ within # {}
  <2>1. PICK w \in places : w[1] = s
    OBVIOUS
  <2>2. w = <<s, w[2]>> /\ w[2] \in Nat
    BY <1>1, <2>1
  <2> QED
    BY <2>2
<1>5. PICK p \in within : \A q \in within : p <= q
  <2> HIDE DEF within
  <2> QED
    BY <1>4, LeastNumber
<1>6. ASSUME NEW v \in places PROVE ~Before(v, <<s, p>>)
  <2>1. s <= v[1] /\ v[1] \in Nat /\ s \in Nat
    BY <1>2, <1>3
  <2>2. v[1] = s => v[2] \in within
    BY <1>1
  <2>3. v[1] = s => p <= v[2] /\ v[2] \in Nat /\ p \in Nat
    BY <1>5, <2>2
  <2>4. <<s, p>>[1] = s /\ <<s, p>>[2] = p
    OBVIOUS
  <2> HIDE DEF slots, within
  <2> QED
    BY <2>1, <2>3, <2>4 DEF Before
<1>7. <<s, p>> \in places
  BY <1>5
<1>8. \E w \in places : \A v \in places : ~Before(v, w)
  BY <1>6, <1>7
<1> QED
  BY <1>8 DEF FirstOf

(* Two pending calls are told apart by their number if that gives away     *)
(* their slot and when they are due.                                       *)
LEMMA ApartBy ==
  ASSUME NEW lists \in [Slots -> Seq(Call)],
         \A s \in Slots : Sorted(lists[s]),
         \A s, r \in Slots : \A p \in DOMAIN lists[s], q \in DOMAIN lists[r] :
           lists[s][p].id = lists[r][q].id =>
             s = r /\ lists[s][p].due = lists[r][q].due
  PROVE  Apart(lists)
<1> SUFFICES ASSUME NEW s \in Slots, NEW r \in Slots,
                    NEW p \in DOMAIN lists[s], NEW q \in DOMAIN lists[r],
                    lists[s][p].id = lists[r][q].id
             PROVE  s = r /\ p = q
  BY DEF Apart
<1>1. s = r /\ lists[s][p].due = lists[s][q].due /\ lists[s][p].id = lists[s][q].id
  OBVIOUS
<1>2. p \in DOMAIN lists[s] /\ q \in DOMAIN lists[s] /\ Sorted(lists[s])
  BY <1>1
<1>3. lists[s] \in Seq(Call)
  OBVIOUS
<1>4. /\ p \in Int /\ q \in Int
      /\ lists[s][p].due \in Nat /\ lists[s][p].id \in Nat
  BY <1>2, <1>3, ListIs
<1>5. ~(p < q)
  BY <1>1, <1>2, <1>4 DEF Sorted, Earlier
<1>6. ~(q < p)
  BY <1>1, <1>2, <1>4 DEF Sorted, Earlier
<1> QED
  BY <1>1, <1>4, <1>5, <1>6

LEMMA SameShown ==
  ASSUME NEW c, NEW d, Same(c, d)
  PROVE  Shown(c) = Shown(d)
BY DEF Same, Shown

LEMMA KeepsAll ==
  ASSUME NEW list
  PROVE  Keeps(list, list, DOMAIN list)
BY DEF Keeps, Same

(* The lists of the wheel at time u, when some calls have been taken out.  *)
Reduced(new, lists, kept, u) ==
  \A s \in Slots : /\ InOrder(new[s], Round(s, u))
                   /\ Keeps(new[s], lists[s], kept[s])

(* A change that only takes calls out leaves a wheel.                      *)
LEMMA KeepsWheel ==
  ASSUME NEW lists, NEW t \in Nat, NEW n \in Nat, Wheel(lists, t, n),
         NEW new \in [Slots -> Seq(Call)], NEW u \in Nat, NEW kept,
         Reduced(new, lists, kept, u)
  PROVE  /\ Wheel(new, u, n)
         /\ Pend(new) = UNION {{Shown(lists[s][q]) : q \in kept[s]} : s \in Slots}
<1>0. \A s \in Slots : /\ InOrder(new[s], Round(s, u))
                       /\ Keeps(new[s], lists[s], kept[s])
  BY DEF Reduced
<1>1. /\ Apart(lists)
      /\ \A s \in Slots : Numbered(lists[s], s, n)
  BY DEF Wheel, Well
<1>2. ASSUME NEW s \in Slots
      PROVE  Well(new[s], s, u, n)
  <2>1. Numbered(new[s], s, n)
    <3> SUFFICES ASSUME NEW p \in DOMAIN new[s]
                 PROVE  /\ new[s][p].id \in 1 .. n
                        /\ new[s][p].handle = ToInt(s + CycleSize * new[s][p].id)
      BY DEF Numbered
    <3>1. PICK q \in DOMAIN lists[s] : Same(new[s][p], lists[s][q])
      BY <1>0 DEF Keeps
    <3>2. /\ lists[s][q].id \in 1 .. n
          /\ lists[s][q].handle = ToInt(s + CycleSize * lists[s][q].id)
      BY <1>1 DEF Numbered
    <3>3. /\ new[s][p].id = lists[s][q].id
          /\ new[s][p].handle = lists[s][q].handle
      BY <3>1 DEF Same
    <3> QED
      BY <3>2, <3>3
  <2> QED
    BY <1>0, <2>1 DEF Well, InOrder
<1>3. Apart(new)
  <2>1. ASSUME NEW s \in Slots, NEW r \in Slots,
               NEW p \in DOMAIN new[s], NEW q \in DOMAIN new[r],
               new[s][p].id = new[r][q].id
        PROVE  s = r /\ new[s][p].due = new[r][q].due
    <3>1. PICK i \in DOMAIN lists[s] : Same(new[s][p], lists[s][i])
      BY <1>0 DEF Keeps
    <3>2. PICK j \in DOMAIN lists[r] : Same(new[r][q], lists[r][j])
      BY <1>0 DEF Keeps
    <3>3. lists[s][i].id = lists[r][j].id
      BY <2>1, <3>1, <3>2 DEF Same
    <3>4. s = r /\ i = j
      BY <1>1, <3>3 DEF Apart
    <3> QED
      BY <3>1, <3>2, <3>4 DEF Same
  <2>2. \A s \in Slots : Sorted(new[s])
    BY <1>0 DEF InOrder
  <2> QED
    BY <2>1, <2>2, ApartBy
<1>4. Pend(new) = UNION {{Shown(lists[s][q]) : q \in kept[s]} : s \in Slots}
  <2> DEFINE B == UNION {{Shown(lists[s][q]) : q \in kept[s]} : s \in Slots}
  <2>1. ASSUME NEW c \in Pend(new) PROVE c \in B
    <3>1. PICK s \in Slots : \E p \in DOMAIN new[s] : c = Shown(new[s][p])
      BY DEF Pend
    <3>2. PICK p \in DOMAIN new[s] : c = Shown(new[s][p])
      BY <3>1
    <3>3. PICK q \in kept[s] : Same(new[s][p], lists[s][q])
      BY <1>0 DEF Keeps
    <3>4. c = Shown(lists[s][q])
      BY <3>2, <3>3, SameShown
    <3> QED
      BY <3>4
  <2>2. ASSUME NEW c \in B PROVE c \in Pend(new)
    <3>1. PICK s \in Slots : \E q \in kept[s] : c = Shown(lists[s][q])
      OBVIOUS
    <3>2. PICK q \in kept[s] : c = Shown(lists[s][q])
      BY <3>1
    <3>3. PICK p \in DOMAIN new[s] : Same(new[s][p], lists[s][q])
      BY <1>0 DEF Keeps
    <3>4. c = Shown(new[s][p])
      BY <3>2, <3>3, SameShown
    <3> QED
      BY <3>4 DEF Pend
  <2> QED
    BY <2>1, <2>2
<1> QED
  BY <1>2, <1>3, <1>4 DEF Wheel

(* The lists that differ from others in slot s only.                       *)
Replaced(new, lists, s, list) ==
  /\ new \in [Slots -> Seq(Call)]
  /\ new[s] = list
  /\ \A r \in Slots : r # s => new[r] = lists[r]

LEMMA Placed ==
  ASSUME NEW lists \in [Slots -> Seq(Call)], NEW s \in Slots,
         NEW list \in Seq(Call)
  PROVE  Replaced([lists EXCEPT ![s] = list], lists, s, list)
BY DEF Replaced

Lost(new, lists, c) == c \in Pend(lists) /\ Pend(new) = Pend(lists) \ {c}

(* One call leaves one list.                                               *)
LEMMA TakenOut ==
  ASSUME NEW lists, NEW t \in Nat, NEW n \in Nat, Wheel(lists, t, n),
         NEW s \in Slots, NEW p \in 1 .. Len(lists[s]),
         NEW list, InOrder(list, Round(s, t)),
         Keeps(list, lists[s], (1 .. Len(lists[s])) \ {p}),
         NEW new, Replaced(new, lists, s, list)
  PROVE  /\ Wheel(new, t, n)
         /\ Lost(new, lists, Shown(lists[s][p]))
<1> DEFINE kept == [r \in Slots |-> IF r = s THEN (1 .. Len(lists[s])) \ {p}
                                    ELSE DOMAIN lists[r]]
           d == lists[s][p]
<1>0. /\ new \in [Slots -> Seq(Call)] /\ new[s] = list
      /\ \A r \in Slots : r # s => new[r] = lists[r]
  BY DEF Replaced
<1>1. /\ lists \in [Slots -> Seq(Call)] /\ Apart(lists)
      /\ \A r \in Slots : InOrder(lists[r], Round(r, t))
  BY DEF Wheel, Well, InOrder
<1>2. \A r \in Slots : DOMAIN lists[r] = 1 .. Len(lists[r])
  BY <1>1, ListIs
<1>4. ASSUME NEW r \in Slots
      PROVE  InOrder(new[r], Round(r, t)) /\ Keeps(new[r], lists[r], kept[r])
  <2>1. CASE r = s
    <3>1. new[r] = list /\ kept[r] = (1 .. Len(lists[s])) \ {p}
      BY <1>0, <1>1, <2>1
    <3> QED
      BY <2>1, <3>1
  <2>2. CASE r # s
    <3>1. new[r] = lists[r] /\ kept[r] = DOMAIN lists[r]
      BY <1>0, <1>1, <2>2
    <3> QED
      BY <1>1, <3>1, KeepsAll
  <2> QED
    BY <2>1, <2>2
<1>5. /\ Wheel(new, t, n)
      /\ Pend(new) = UNION {{Shown(lists[r][q]) : q \in kept[r]} : r \in Slots}
  <2> HIDE DEF kept
  <2>1. Reduced(new, lists, kept, t)
    BY <1>4 DEF Reduced
  <2>2. new \in [Slots -> Seq(Call)]
    BY <1>0
  <2>3. Wheel(new, t, n)
    BY <2>1, <2>2, KeepsWheel
  <2>4. Pend(new) = UNION {{Shown(lists[r][q]) : q \in kept[r]} : r \in Slots}
    BY <2>1, <2>2, KeepsWheel
  <2> QED
    BY <2>3, <2>4
<1>6. Shown(d) \in Pend(lists)
  <2>1. p \in DOMAIN lists[s]
    BY <1>2
  <2> HIDE DEF d
  <2>2. d \in {lists[s][q] : q \in DOMAIN lists[s]}
    BY <2>1 DEF d
  <2> QED
    BY <2>2 DEF Pend
<1>7. ASSUME NEW r \in Slots, NEW q \in DOMAIN lists[r], Shown(lists[r][q]) = Shown(d)
      PROVE  r = s /\ q = p
  <2>1. lists[r][q].id = lists[s][p].id
    BY <1>7 DEF Shown
  <2>2. p \in DOMAIN lists[s]
    BY <1>2
  <2> QED
    BY <1>1, <2>1, <2>2 DEF Apart
<1>8. ASSUME NEW c \in Pend(new) PROVE c \in Pend(lists) \ {Shown(d)}
  <2>1. PICK r \in Slots : \E q \in kept[r] : c = Shown(lists[r][q])
    <3> HIDE DEF kept
    <3> QED
      BY <1>5
  <2>2. PICK q \in kept[r] : c = Shown(lists[r][q])
    BY <2>1
  <2>3. q \in DOMAIN lists[r] /\ ~(r = s /\ q = p)
    BY <1>2
  <2>4. c # Shown(d)
    BY <1>7, <2>2, <2>3
  <2> QED
    BY <2>2, <2>3, <2>4 DEF Pend
<1>9. ASSUME NEW c \in Pend(lists), c # Shown(d) PROVE c \in Pend(new)
  <2>1. PICK r \in Slots : \E q \in DOMAIN lists[r] : c = Shown(lists[r][q])
    BY DEF Pend
  <2>2. PICK q \in DOMAIN lists[r] : c = Shown(lists[r][q])
    BY <2>1
  <2>3. q \in kept[r]
    BY <1>2, <1>9, <2>2
  <2> HIDE DEF kept
  <2>4. c \in {Shown(lists[r][i]) : i \in kept[r]}
    BY <2>2, <2>3
  <2> QED
    BY <1>5, <2>4
<1>10. Pend(new) = Pend(lists) \ {Shown(d)}
  <2> HIDE DEF d
  <2> QED
    BY <1>8, <1>9
<1> QED
  BY <1>5, <1>6, <1>10 DEF Lost

(* A new call joins the wheel.                                             *)
LEMMA PutIn ==
  ASSUME NEW lists, NEW t \in Nat, NEW n \in Nat, Wheel(lists, t, n),
         NEW s \in Slots, NEW list, InOrder(list, Round(s, t)),
         NEW c \in Call, Gains(list, lists[s], c),
         c.id = n + 1, c.handle = ToInt(s + CycleSize * (n + 1)),
         NEW new, Replaced(new, lists, s, list)
  PROVE  /\ Wheel(new, t, n + 1)
         /\ Pend(new) = Pend(lists) \union {Shown(c)}
<1> DEFINE m == Len(lists[s])
<1>0. /\ new \in [Slots -> Seq(Call)] /\ new[s] = list
      /\ \A r \in Slots : r # s => new[r] = lists[r]
  BY DEF Replaced
<1>1. /\ lists \in [Slots -> Seq(Call)] /\ Apart(lists)
      /\ \A r \in Slots : InOrder(lists[r], Round(r, t)) /\ Numbered(lists[r], r, n)
  BY DEF Wheel, Well, InOrder
<1>2. m \in Nat /\ \A r \in Slots : DOMAIN lists[r] = 1 .. Len(lists[r])
  BY <1>1, ListIs
<1>3. PICK p \in 1 .. m + 1 :
        /\ DOMAIN list = 1 .. m + 1
        /\ \A k \in 1 .. m + 1 :
             Same(list[k], IF k < p THEN lists[s][k]
                           ELSE IF k = p THEN c ELSE lists[s][k - 1])
  BY DEF Gains
<1> DEFINE Old(r, x) == \E q \in DOMAIN lists[r] : Same(x, lists[r][q])
           New(r, x) == r = s /\ Same(x, c)
<1>4. ASSUME NEW r \in Slots, NEW k \in DOMAIN new[r]
      PROVE  Old(r, new[r][k]) \/ New(r, new[r][k])
  <2>1. CASE r # s
    <3>1. new[r] = lists[r]
      BY <1>0, <2>1
    <3> QED
      BY <3>1 DEF Same
  <2>2. CASE r = s
    <3>1. new[r] = list /\ k \in 1 .. m + 1
      BY <1>0, <1>3, <2>2
    <3>2. CASE k < p
      <4>1. k \in DOMAIN lists[s] /\ Same(list[k], lists[s][k])
        BY <1>2, <1>3, <3>1, <3>2
      <4> QED
        BY <2>2, <3>1, <4>1
    <3>3. CASE k = p
      <4>1. Same(list[k], c)
        BY <1>3, <3>1, <3>3
      <4> QED
        BY <2>2, <3>1, <4>1
    <3>4. CASE k > p
      <4>1. k - 1 \in DOMAIN lists[s] /\ Same(list[k], lists[s][k - 1])
        BY <1>2, <1>3, <3>1, <3>4
      <4> QED
        BY <2>2, <3>1, <4>1
    <3> QED
      BY <1>2, <3>1, <3>2, <3>3, <3>4
  <2> QED
    BY <2>1, <2>2
<1>5. ASSUME NEW r \in Slots, NEW q \in DOMAIN lists[r]
      PROVE  \E k \in DOMAIN new[r] : Same(new[r][k], lists[r][q])
  <2>1. CASE r # s
    <3>1. new[r] = lists[r]
      BY <1>0, <2>1
    <3> QED
      BY <3>1 DEF Same
  <2>2. CASE r = s
    <3>1. new[r] = list /\ DOMAIN new[r] = 1 .. m + 1 /\ q \in 1 .. m
      BY <1>0, <1>2, <1>3, <2>2
    <3>2. CASE q < p
      <4>1. q \in 1 .. m + 1 /\ Same(list[q], lists[s][q])
        BY <1>2, <1>3, <3>1, <3>2
      <4> QED
        BY <2>2, <3>1, <4>1
    <3>3. CASE ~(q < p)
      <4>1. q + 1 \in 1 .. m + 1 /\ ~(q + 1 < p) /\ q + 1 # p /\ (q + 1) - 1 = q
        BY <1>2, <3>1, <3>3
      <4>2. Same(list[q + 1], lists[s][q])
        BY <1>3, <4>1
      <4> QED
        BY <2>2, <3>1, <4>1, <4>2
    <3> QED
      BY <3>2, <3>3
  <2> QED
    BY <2>1, <2>2
<1>6. p \in DOMAIN new[s] /\ Same(new[s][p], c)
  BY <1>0, <1>3
<1>7. ASSUME NEW r \in Slots, NEW x, Old(r, x)
      PROVE  x.id \in 1 .. n /\ x.handle = ToInt(r + CycleSize * x.id)
  BY <1>1, <1>7 DEF Numbered, Same
<1>8. ASSUME NEW r \in Slots
      PROVE  Well(new[r], r, t, n + 1)
  <2>1. InOrder(new[r], Round(r, t))
    BY <1>0, <1>1
  <2>2. Numbered(new[r], r, n + 1)
    <3> SUFFICES ASSUME NEW k \in DOMAIN new[r]
                 PROVE  /\ new[r][k].id \in 1 .. n + 1
                        /\ new[r][k].handle = ToInt(r + CycleSize * new[r][k].id)
      BY DEF Numbered
    <3> DEFINE x == new[r][k]
    <3>1. CASE Old(r, x)
      <4> HIDE DEF Old, x
      <4>1. x.id \in 1 .. n /\ x.handle = ToInt(r + CycleSize * x.id)
        BY <1>7, <3>1
      <4> QED
        BY <4>1 DEF x
    <3>2. CASE New(r, x)
      <4>1. x.id = n + 1 /\ x.handle = ToInt(r + CycleSize * (n + 1))
        BY <3>2 DEF Same
      <4> QED
        BY <4>1
    <3> QED
      BY <1>4, <3>1, <3>2
  <2> QED
    BY <2>1, <2>2 DEF Well, InOrder
<1>9. Apart(new)
  <2>1. ASSUME NEW r \in Slots, NEW v \in Slots,
               NEW k \in DOMAIN new[r], NEW j \in DOMAIN new[v],
               new[r][k].id = new[v][j].id
        PROVE  r = v /\ new[r][k].due = new[v][j].due
    <3> DEFINE x == new[r][k]
               y == new[v][j]
    <3>1. /\ Old(r, x) \/ New(r, x)
          /\ Old(v, y) \/ New(v, y)
          /\ x.id = y.id
      BY <1>4, <2>1
    <3> HIDE DEF x, y
    <3>2. CASE Old(r, x) /\ Old(v, y)
      <4>1. PICK i \in DOMAIN lists[r] : Same(x, lists[r][i])
        BY <3>2
      <4>2. PICK l \in DOMAIN lists[v] : Same(y, lists[v][l])
        BY <3>2
      <4>3. lists[r][i].id = lists[v][l].id
        BY <3>1, <4>1, <4>2 DEF Same
      <4>4. r = v /\ i = l
        BY <1>1, <4>3 DEF Apart
      <4> QED
        BY <4>1, <4>2, <4>4 DEF Same, x, y
    <3>3. CASE New(r, x) /\ New(v, y)
      BY <3>3 DEF Same, x, y
    <3>4. CASE Old(r, x) /\ New(v, y)
      <4>1. x.id \in 1 .. n
        <5> HIDE DEF Old
        <5> QED
          BY <1>7, <3>4
      <4>2. y.id = n + 1
        BY <3>4 DEF Same
      <4> QED
        BY <3>1, <4>1, <4>2
    <3>5. CASE New(r, x) /\ Old(v, y)
      <4>1. y.id \in 1 .. n
        <5> HIDE DEF Old
        <5> QED
          BY <1>7, <3>5
      <4>2. x.id = n + 1
        BY <3>5 DEF Same
      <4> QED
        BY <3>1, <4>1, <4>2
    <3> HIDE DEF Old, New
    <3> QED
      BY <3>1, <3>2, <3>3, <3>4, <3>5
  <2>2. \A r \in Slots : Sorted(new[r])
    BY <1>8 DEF Well
  <2> QED
    BY <1>0, <2>1, <2>2, ApartBy
<1>10. ASSUME NEW e \in Pend(new) PROVE e \in Pend(lists) \union {Shown(c)}
  <2>1. PICK r \in Slots : \E k \in DOMAIN new[r] : e = Shown(new[r][k])
    BY DEF Pend
  <2>2. PICK k \in DOMAIN new[r] : e = Shown(new[r][k])
    BY <2>1
  <2>3. CASE Old(r, new[r][k])
    <3>1. PICK q \in DOMAIN lists[r] : Same(new[r][k], lists[r][q])
      BY <2>3
    <3>2. e = Shown(lists[r][q])
      BY <2>2, <3>1, SameShown
    <3> QED
      BY <3>2 DEF Pend
  <2>4. CASE New(r, new[r][k])
    BY <2>2, <2>4, SameShown
  <2> QED
    BY <1>4, <2>3, <2>4
<1>11. ASSUME NEW e \in Pend(lists) PROVE e \in Pend(new)
  <2>1. PICK r \in Slots : \E q \in DOMAIN lists[r] : e = Shown(lists[r][q])
    BY DEF Pend
  <2>2. PICK q \in DOMAIN lists[r] : e = Shown(lists[r][q])
    BY <2>1
  <2>3. PICK k \in DOMAIN new[r] : Same(new[r][k], lists[r][q])
    BY <1>5
  <2>4. e = Shown(new[r][k])
    BY <2>2, <2>3, SameShown
  <2> QED
    BY <2>4 DEF Pend
<1>12. Shown(c) \in Pend(new)
  <2>1. Shown(c) = Shown(new[s][p])
    BY <1>6, SameShown
  <2> QED
    BY <1>6, <2>1 DEF Pend
<1>13. Wheel(new, t, n + 1)
  BY <1>0, <1>8, <1>9 DEF Wheel
<1> QED
  BY <1>10, <1>11, <1>12, <1>13

(* The calls of some owners leave all lists.                               *)
LEMMA OwnersOut ==
  ASSUME NEW lists, NEW t \in Nat, NEW n \in Nat, Wheel(lists, t, n),
         NEW owners,
         NEW new, new = [s \in Slots |-> RemovedAll(lists[s], owners)]
  PROVE  /\ Wheel(new, t, n)
         /\ Pend(new) = {c \in Pend(lists) : c.ob \notin owners}
<1> DEFINE kept == [s \in Slots |->
                      {q \in 1 .. Len(lists[s]) : lists[s][q].ob \notin owners}]
<1>1. /\ lists \in [Slots -> Seq(Call)]
      /\ \A s \in Slots : InOrder(lists[s], Round(s, t)) /\ Round(s, t) \in Nat
      /\ \A s \in Slots : DOMAIN lists[s] = 1 .. Len(lists[s])
  BY RoundMoves, ListIs DEF Wheel, Well, InOrder
<1>2. ASSUME NEW s \in Slots
      PROVE  /\ InOrder(new[s], Round(s, t))
             /\ Keeps(new[s], lists[s], kept[s])
  <2> DEFINE list == lists[s]
             base == Round(s, t)
  <2>1. InOrder(list, base) /\ base \in Nat
    BY <1>1
  <2> HIDE DEF list, base
  <2>2. /\ InOrder(RemovedAll(list, owners), base)
        /\ Keeps(RemovedAll(list, owners), list,
                 {q \in 1 .. Len(list) : list[q].ob \notin owners})
    BY <2>1, RemovedAllIs
  <2> QED
    BY <2>2 DEF list, base
<1>3. new \in [Slots -> Seq(Call)]
  BY <1>2 DEF InOrder
<1>4. Reduced(new, lists, kept, t)
  BY <1>2 DEF Reduced
<1>5. /\ Wheel(new, t, n)
      /\ Pend(new) = UNION {{Shown(lists[s][q]) : q \in kept[s]} : s \in Slots}
  <2> HIDE DEF kept
  <2> QED
    BY <1>3, <1>4, KeepsWheel
<1>6. \A c : Shown(c).ob = c.ob
  BY DEF Shown
<1>7. UNION {{Shown(lists[s][q]) : q \in kept[s]} : s \in Slots}
        = {c \in Pend(lists) : c.ob \notin owners}
  BY <1>1, <1>6 DEF Pend
<1> QED
  BY <1>5, <1>7

(* The clock moves on from a slot with nothing due.                        *)
LEMMA TurnedOver ==
  ASSUME NEW lists, NEW t \in Nat, NEW n \in Nat, Wheel(lists, t, n),
         lists[Slot(t)] # <<>> => lists[Slot(t)][1].delta # 0,
         NEW new, Replaced(new, lists, Slot(t), Turned(lists[Slot(t)]))
  PROVE  /\ Wheel(new, t + 1, n)
         /\ Pend(new) = Pend(lists)
<1> DEFINE kept == [s \in Slots |-> DOMAIN lists[s]]
<1>0. /\ new \in [Slots -> Seq(Call)]
      /\ new[Slot(t)] = Turned(lists[Slot(t)])
      /\ \A r \in Slots : r # Slot(t) => new[r] = lists[r]
  BY DEF Replaced
<1>1. /\ lists \in [Slots -> Seq(Call)]
      /\ \A s \in Slots : InOrder(lists[s], Round(s, t)) /\ Round(s, t) \in Nat
      /\ \A s \in Slots : DOMAIN lists[s] = 1 .. Len(lists[s])
  BY RoundMoves, ListIs DEF Wheel, Well, InOrder
<1>2. ASSUME NEW s \in Slots
      PROVE  /\ InOrder(new[s], Round(s, t + 1))
             /\ Keeps(new[s], lists[s], kept[s])
  <2>1. Round(s, t + 1) =
          IF s = Slot(t) THEN Round(s, t) + CycleSize ELSE Round(s, t)
    BY RoundMoves
  <2>2. CASE s = Slot(t)
    <3> DEFINE list == lists[s]
               base == Round(s, t)
    <3>1. InOrder(list, base) /\ base \in Nat /\ (list # <<>> => list[1].delta # 0)
      BY <1>1, <2>2
    <3> HIDE DEF list, base
    <3>2. /\ InOrder(Turned(list), base + CycleSize)
          /\ Keeps(Turned(list), list, 1 .. Len(list))
      BY <3>1, TurnIs
    <3> QED
      BY <1>0, <1>1, <2>1, <2>2, <3>2 DEF list, base
  <2>3. CASE s # Slot(t)
    <3>1. new[s] = lists[s] /\ kept[s] = DOMAIN lists[s]
      BY <1>0, <2>3
    <3> QED
      BY <1>1, <2>1, <2>3, <3>1, KeepsAll
  <2> QED
    BY <2>2, <2>3
<1>3. Reduced(new, lists, kept, t + 1)
  BY <1>2 DEF Reduced
<1>4. /\ Wheel(new, t + 1, n)
      /\ Pend(new) = UNION {{Shown(lists[s][q]) : q \in kept[s]} : s \in Slots}
  <2> HIDE DEF kept
  <2>1. PICK u \in Nat : u = t + 1
    OBVIOUS
  <2> QED
    BY <1>0, <1>3, <2>1, KeepsWheel
<1>5. UNION {{Shown(lists[s][q]) : q \in kept[s]} : s \in Slots} = Pend(lists)
  BY DEF Pend
<1> QED
  BY <1>4, <1>5

-----------------------------------------------------------------------------
(* The steps of the promise                                                *)

LEMMA RunningIs ==
  /\ UNCHANGED <<pc, cop>> =>
       (IF pc = "call" THEN Shown(cop) ELSE NoCall)'
         = (IF pc = "call" THEN Shown(cop) ELSE NoCall)
  /\ pc # "call" => (IF pc = "call" THEN Shown(cop) ELSE NoCall) = NoCall
  /\ pc' # "call" => (IF pc = "call" THEN Shown(cop) ELSE NoCall)' = NoCall
BY DEF Shown

LEMMA Schedules ==
  ASSUME NEW ob \in Objects, NEW fn \in Functions, NEW asked \in Delays,
         NEW delay, delay = IF asked < 0 THEN 0 ELSE asked,
         unique' = unique + 1,
         Pend(call_list') = Pend(call_list) \union
           {[id |-> unique + 1, ob |-> ob, fn |-> fn,
             due |-> current_time + delay]},
         UNCHANGED <<current_time, cop, destructed, pc>>
  PROVE  Promise!Next
<1>1. Promise!Schedule(ob, fn, delay)
  BY PendingIs, RunningIs DEF Promise!Schedule
<1>2. delay \in {IF d < 0 THEN 0 ELSE d : d \in Delays}
  OBVIOUS
<1> QED
  BY <1>1, <1>2 DEF Promise!Next

LEMMA Cancels ==
  ASSUME NEW c \in Pend(call_list), Pend(call_list') = Pend(call_list) \ {c},
         UNCHANGED <<unique, current_time, cop, destructed, pc>>
  PROVE  Promise!Next
<1>1. Promise!Cancel(c)
  BY PendingIs, RunningIs DEF Promise!Cancel
<1>2. c \in {Shown(At(w)) : w \in Places}
  BY PendingIs
<1> QED
  BY <1>1, <1>2 DEF Promise!Next

LEMMA CancelsAllOf ==
  ASSUME NEW owners \in SUBSET Objects, destructed \subseteq owners,
         Pend(call_list') = {c \in Pend(call_list) : c.ob \notin owners},
         UNCHANGED <<unique, current_time, cop, destructed, pc>>
  PROVE  Promise!Next
<1>1. Promise!CancelAllOf(owners)
  BY PendingIs, RunningIs DEF Promise!CancelAllOf
<1> QED
  BY <1>1 DEF Promise!Next

LEMMA Destructs ==
  ASSUME NEW ob \in Objects, destructed' = destructed \union {ob},
         UNCHANGED <<call_list, unique, current_time, cop, pc>>
  PROVE  Promise!Next
<1>1. Promise!Destruct(ob)
  BY PendingIs, RunningIs DEF Promise!Destruct
<1> QED
  BY <1>1 DEF Promise!Next

(* c comes before all pending calls but itself.                            *)
Foremost(c, calls) == \A d \in calls : c.due < d.due \/ (c.due = d.due /\ c.id <= d.id)

LEMMA Runs ==
  ASSUME NEW d, Shown(d) \in Pend(call_list), Foremost(Shown(d), Pend(call_list)),
         d.due = current_time, d.ob \notin destructed,
         pc # "call", pc' = "call", cop' = d,
         Pend(call_list') = Pend(call_list) \ {Shown(d)},
         UNCHANGED <<unique, current_time, destructed>>
  PROVE  Promise!Next
<1>1. Shown(d) \in {Shown(At(w)) : w \in Places}
  BY PendingIs
<1>2. Foremost(Shown(d), {Shown(At(w)) : w \in Places})
  BY PendingIs
<1>3. Promise!IsNext(Shown(d))
  BY <1>2 DEF Promise!IsNext, Foremost
<1>4. Shown(d).due = d.due /\ Shown(d).ob = d.ob
  BY DEF Shown
<1>5. (IF pc = "call" THEN Shown(cop) ELSE NoCall)' = Shown(d)
  BY DEF Shown
<1>6. Promise!Run(Shown(d))
  BY <1>3, <1>4, <1>5, PendingIs, RunningIs DEF Promise!Run
<1> QED
  BY <1>1, <1>6 DEF Promise!Next

LEMMA Drops ==
  ASSUME NEW d, Shown(d) \in Pend(call_list), Foremost(Shown(d), Pend(call_list)),
         d.due = current_time, d.ob \in destructed, pc # "call",
         Pend(call_list') = Pend(call_list) \ {Shown(d)},
         UNCHANGED <<unique, current_time, cop, destructed, pc>>
  PROVE  Promise!Next
<1>1. Shown(d) \in {Shown(At(w)) : w \in Places}
  BY PendingIs
<1>2. Foremost(Shown(d), {Shown(At(w)) : w \in Places})
  BY PendingIs
<1>3. Promise!IsNext(Shown(d))
  BY <1>2 DEF Promise!IsNext, Foremost
<1>4. Shown(d).due = d.due /\ Shown(d).ob = d.ob
  BY DEF Shown
<1>5. Promise!Drop(Shown(d))
  BY <1>3, <1>4, PendingIs, RunningIs DEF Promise!Drop
<1> QED
  BY <1>1, <1>5 DEF Promise!Next

LEMMA Finishes ==
  ASSUME cop \in Call, pc = "call", pc' # "call",
         UNCHANGED <<call_list, unique, current_time, destructed>>
  PROVE  Promise!Next
<1>1. Shown(cop) # NoCall
  <2>1. Shown(cop) \in [id : Nat, ob : Objects, fn : Functions, due : Nat]
    BY DEF Shown, Call
  <2> QED
    BY <2>1, CallOutAssumption
<1>2. (IF pc = "call" THEN Shown(cop) ELSE NoCall) = Shown(cop)
  OBVIOUS
<1>3. Promise!Finish
  BY <1>1, <1>2, PendingIs, RunningIs DEF Promise!Finish
<1> QED
  BY <1>3 DEF Promise!Next

LEMMA Ticks ==
  ASSUME \A c \in Pend(call_list) : c.due > current_time,
         pc # "call", pc' # "call", current_time' = current_time + 1,
         Pend(call_list') = Pend(call_list),
         UNCHANGED <<unique, destructed>>
  PROVE  Promise!Next
<1>1. \A c \in {Shown(At(w)) : w \in Places} : c.due > current_time
  BY PendingIs
<1>2. Promise!Tick
  BY <1>1, PendingIs, RunningIs DEF Promise!Tick
<1> QED
  BY <1>2 DEF Promise!Next

LEMMA Stutters ==
  ASSUME UNCHANGED <<call_list, unique, current_time, destructed>>,
         (pc # "call" /\ pc' # "call") \/ UNCHANGED <<pc, cop>>
  PROVE  UNCHANGED Promise!vars
<1>1. (IF pc = "call" THEN Shown(cop) ELSE NoCall)'
        = (IF pc = "call" THEN Shown(cop) ELSE NoCall)
  BY RunningIs
<1>2. {Shown(At(w)) : w \in Places}' = {Shown(At(w)) : w \in Places}
  BY PendingIs
<1> QED
  BY <1>1, <1>2 DEF Promise!vars

-----------------------------------------------------------------------------
(* Each action keeps the wheel and is a step of the promise, or none       *)

LEMMA ToIntIs ==
  ASSUME NEW n \in Int
  PROVE  ToInt(n) \in Int
<1>1. 2 * IntHalf \in Nat /\ 2 * IntHalf > 0
  BY Sizes
<1> DEFINE m == 2 * IntHalf
<1>2. m \in Nat /\ m > 0
  BY <1>1
<1> HIDE DEF m
<1>3. (n + IntHalf) % m \in Int
  BY <1>2, Sizes
<1> QED
  BY <1>3, Sizes DEF ToInt, m

LEMMA WheelFacts ==
  ASSUME Others, Wheel(call_list, current_time, unique)
  PROVE  /\ current_time \in Nat /\ unique \in Nat
         /\ call_list \in [Slots -> Seq(Call)]
         /\ Slot(current_time) \in Slots
         /\ \A s \in Slots :
              /\ InOrder(call_list[s], Round(s, current_time))
              /\ Round(s, current_time) \in Nat
              /\ Len(call_list[s]) \in Nat
              /\ DOMAIN call_list[s] = 1 .. Len(call_list[s])
              /\ \A p \in 1 .. Len(call_list[s]) :
                   /\ call_list[s][p] \in Call
                   /\ call_list[s][p].due \in Nat
                   /\ call_list[s][p].id \in 1 .. unique
<1>1. current_time \in Nat /\ unique \in Nat
  BY Sizes DEF Others
<1>2. call_list \in [Slots -> Seq(Call)]
  BY DEF Wheel
<1>3. ASSUME NEW s \in Slots
      PROVE  /\ InOrder(call_list[s], Round(s, current_time))
             /\ Round(s, current_time) \in Nat
             /\ Len(call_list[s]) \in Nat
             /\ DOMAIN call_list[s] = 1 .. Len(call_list[s])
             /\ \A p \in 1 .. Len(call_list[s]) :
                  /\ call_list[s][p] \in Call
                  /\ call_list[s][p].due \in Nat
                  /\ call_list[s][p].id \in 1 .. unique
  <2>1. Well(call_list[s], s, current_time, unique)
    BY DEF Wheel
  <2>2. call_list[s] \in Seq(Call)
    BY <1>2
  <2>3. InOrder(call_list[s], Round(s, current_time))
    BY <2>1 DEF Well, InOrder
  <2>4. Round(s, current_time) \in Nat
    BY <1>1, RoundMoves
  <2>5. /\ Len(call_list[s]) \in Nat
        /\ DOMAIN call_list[s] = 1 .. Len(call_list[s])
        /\ \A p \in 1 .. Len(call_list[s]) :
             call_list[s][p] \in Call /\ call_list[s][p].due \in Nat
    BY <2>2, ListIs
  <2>6. \A p \in DOMAIN call_list[s] : call_list[s][p].id \in 1 .. unique
    BY <2>1 DEF Well, Numbered
  <2> QED
    BY <2>3, <2>4, <2>5, <2>6
<1>4. Slot(current_time) \in Slots
  BY <1>1, SlotIs
<1> QED
  BY <1>1, <1>2, <1>3, <1>4

(* No call of a list is due before its slot's turn, and none at it unless  *)
(* the head is.                                                            *)
LEMMA NotBefore ==
  ASSUME NEW list, NEW base \in Nat, InOrder(list, base),
         NEW p \in 1 .. Len(list)
  PROVE  /\ list[p].due >= base
         /\ list[1].delta # 0 => list[p].due > base
         /\ p # 1 => Earlier(list[1], list[p])
<1>1. list \in Seq(Call) /\ Spaced(list, base) /\ Sorted(list)
  BY DEF InOrder
<1>2. /\ Len(list) \in Nat /\ DOMAIN list = 1 .. Len(list)
      /\ \A k \in 1 .. Len(list) : list[k].delta \in Nat /\ list[k].due \in Nat
  BY <1>1, ListIs
<1>3. 1 \in DOMAIN list
  BY <1>2
<1>4. list[1].due = base + CycleSize * list[1].delta /\ list[1].delta \in Nat
  BY <1>1, <1>2, <1>3 DEF Spaced
<1>5. /\ CycleSize * list[1].delta >= 0
      /\ list[1].delta # 0 => CycleSize * list[1].delta > 0
      /\ CycleSize * list[1].delta \in Int
  <2>1. list[1].delta \in Int
    BY <1>4
  <2>2. /\ CycleSize * list[1].delta \in Int
        /\ list[1].delta >= 0 => CycleSize * list[1].delta >= 0
        /\ list[1].delta >= 1 => CycleSize * list[1].delta >= CycleSize
    BY <2>1, Products
  <2> QED
    BY <1>4, <2>2, Sizes
<1>6. list[1].due >= base /\ (list[1].delta # 0 => list[1].due > base)
  BY <1>4, <1>5
<1>7. p # 1 => Earlier(list[1], list[p])
  BY <1>1, <1>2, <1>3 DEF Sorted
<1>8. list[p].due >= list[1].due
  BY <1>2, <1>3, <1>7 DEF Earlier
<1>9. list[p].due \in Nat /\ list[1].due \in Nat
  BY <1>2, <1>3
<1> QED
  BY <1>6, <1>7, <1>8, <1>9

(* The head of the current list, when it waits no more, is the call the    *)
(* promise has to serve next.                                              *)
LEMMA HeadIs ==
  ASSUME Others, Wheel(call_list, current_time, unique), IsDue
  PROVE  /\ 1 \in 1 .. Len(call_list[Slot(current_time)])
         /\ DueCall \in Call
         /\ DueCall.due = current_time
         /\ Foremost(Shown(DueCall), Pend(call_list))
<1> DEFINE s == Slot(current_time)
           list == call_list[s]
<1>1. /\ current_time \in Nat /\ s \in Slots
      /\ \A r \in Slots :
           /\ InOrder(call_list[r], Round(r, current_time))
           /\ Round(r, current_time) \in Nat
           /\ DOMAIN call_list[r] = 1 .. Len(call_list[r])
           /\ \A p \in 1 .. Len(call_list[r]) :
                   /\ call_list[r][p] \in Call
                   /\ call_list[r][p].due \in Nat
                   /\ call_list[r][p].id \in 1 .. unique
  BY WheelFacts
<1>2. list \in Seq(Call) /\ list # <<>> /\ list[1].delta = 0 /\ DueCall = list[1]
  BY <1>1 DEF InOrder, IsDue, DueCall
<1>3. Len(list) \in Nat /\ Len(list) # 0
  BY <1>2, EmptySeq, LenProperties
<1>4. 1 \in 1 .. Len(list)
  BY <1>3
<1>5. Round(s, current_time) = current_time
  BY <1>1, RoundMoves
<1>6. list[1].due = current_time
  <2> DEFINE base == Round(s, current_time)
  <2>1. InOrder(list, base) /\ base \in Nat
    BY <1>1
  <2> HIDE DEF list, base
  <2>2. list[1].due = base
    BY <1>2, <2>1, TailIs
  <2> QED
    BY <1>5, <2>2 DEF base
<1>7. ASSUME NEW d \in Pend(call_list)
      PROVE  LET c == Shown(DueCall) IN c.due < d.due \/ (c.due = d.due /\ c.id <= d.id)
  <2>1. PICK r \in Slots : \E q \in DOMAIN call_list[r] : d = Shown(call_list[r][q])
    BY DEF Pend
  <2>2. PICK q \in DOMAIN call_list[r] : d = Shown(call_list[r][q])
    BY <2>1
  <2> DEFINE e == call_list[r][q]
  <2>3. /\ Shown(DueCall).due = current_time /\ Shown(DueCall).id = list[1].id
        /\ d.due = e.due /\ d.id = e.id
    BY <1>2, <1>6, <2>2 DEF Shown
  <2>4. InOrder(call_list[r], Round(r, current_time)) /\ q \in 1 .. Len(call_list[r])
    BY <1>1
  <2>5. e.due \in Nat /\ e.id \in Nat /\ list[1].id \in Nat
    BY <1>1, <1>4, <2>4
  <2>6. CASE r = s
    <3>1. CASE q = 1
      BY <1>6, <2>3, <2>5, <2>6, <3>1
    <3>2. CASE q # 1
      <4>1. Earlier(call_list[r][1], e)
        BY <1>1, <2>4, <3>2, NotBefore
      <4> QED
        BY <1>6, <2>3, <2>5, <2>6, <4>1 DEF Earlier
    <3> QED
      BY <3>1, <3>2
  <2>7. CASE r # s
    <3>1. e.due >= Round(r, current_time)
      BY <1>1, <2>4, NotBefore
    <3>2. Round(r, current_time) > current_time
      BY <1>1, <2>7, RoundMoves
    <3> QED
      BY <1>1, <2>3, <2>5, <3>1, <3>2
  <2> QED
    BY <2>6, <2>7
<1> QED
  BY <1>2, <1>4, <1>6, <1>7 DEF Foremost

(* When the head of the current list still waits, nothing is due.          *)
LEMMA NothingDue ==
  ASSUME Others, Wheel(call_list, current_time, unique), ~IsDue
  PROVE  \A c \in Pend(call_list) : c.due > current_time
<1> DEFINE s == Slot(current_time)
<1>1. /\ current_time \in Nat /\ s \in Slots
      /\ \A r \in Slots :
           /\ InOrder(call_list[r], Round(r, current_time))
           /\ Round(r, current_time) \in Nat
           /\ Len(call_list[r]) \in Nat
           /\ DOMAIN call_list[r] = 1 .. Len(call_list[r])
           /\ \A p \in 1 .. Len(call_list[r]) : call_list[r][p].due \in Nat
  BY WheelFacts
<1> SUFFICES ASSUME NEW d \in Pend(call_list) PROVE d.due > current_time
  OBVIOUS
<1>2. PICK r \in Slots : \E q \in DOMAIN call_list[r] : d = Shown(call_list[r][q])
  BY DEF Pend
<1>3. PICK q \in DOMAIN call_list[r] : d = Shown(call_list[r][q])
  BY <1>2
<1>4. d.due = call_list[r][q].due /\ q \in 1 .. Len(call_list[r])
  BY <1>1, <1>3 DEF Shown
<1>5. /\ Round(r, current_time) >= current_time
      /\ Round(r, current_time) = current_time <=> r = s
      /\ Round(r, current_time) \in Nat
  BY <1>1, RoundMoves
<1>6. call_list[r][q].due \in Nat
  BY <1>1, <1>4
<1>7. CASE r = s
  <2>1. call_list[r][1].delta # 0
    <3>1. call_list[r] # <<>>
      BY <1>1, <1>4
    <3> QED
      BY <1>7, <3>1 DEF IsDue
  <2>2. call_list[r][q].due > Round(r, current_time)
    BY <1>1, <1>4, <2>1, NotBefore
  <2> QED
    BY <1>1, <1>4, <1>5, <1>6, <2>2
<1>8. CASE r # s
  <2>1. call_list[r][q].due >= Round(r, current_time)
    BY <1>1, <1>4, NotBefore
  <2> QED
    BY <1>1, <1>4, <1>5, <1>6, <1>8, <2>1
<1> QED
  BY <1>7, <1>8

Kept == WheelInv' /\ [Promise!Next]_(Promise!vars)

LEMMA NewCallOutKeeps ==
  ASSUME WheelInv, NEW ob \in Objects, NEW fn \in Functions,
         NEW asked \in Delays, NewCallOut(ob, fn, asked)
  PROVE  Kept
<1> DEFINE delay == IF asked < 0 THEN 0 ELSE asked
           s == Slot(delay + current_time)
           turns == delay \div CycleSize
           c == [ob |-> ob, fn |-> fn, delta |-> 0,
                 handle |-> ToInt(s + CycleSize * (unique + 1)),
                 due |-> current_time + delay, id |-> unique + 1]
           list == call_list[s]
           base == Round(s, current_time)
           new == Inserted(list, c, turns)
<1>1. /\ current_time \in Nat /\ unique \in Nat
      /\ Others /\ Wheel(call_list, current_time, unique)
      /\ call_list \in [Slots -> Seq(Call)]
  BY WheelFacts DEF WheelInv
<1>2. delay \in Nat
  BY CallOutAssumption
<1>3. /\ unique < MaxCalls /\ unique' = unique + 1
      /\ call_list' = [call_list EXCEPT ![s] = new]
      /\ UNCHANGED <<clock, cop, destructed, pc>>
  BY DEF NewCallOut
<1>4. UNCHANGED <<current_time, wall, real_time, cop, destructed, pc>>
  BY <1>3 DEF clock
<1>5. /\ s \in Slots /\ turns \in Nat
      /\ current_time + delay = base + CycleSize * turns
  <2> HIDE DEF delay
  <2> QED
    BY <1>1, <1>2, DelayLeads
<1>6. c \in Call
  <2>1. ToInt(s + CycleSize * (unique + 1)) \in Int
    <3>1. s + CycleSize * (unique + 1) \in Int
      <4> HIDE DEF s
      <4> QED
        BY <1>1, <1>5, Sizes DEF Slots
    <3> QED
      BY <3>1, ToIntIs
  <2>2. current_time + delay \in Nat /\ unique + 1 \in Nat
    BY <1>1, <1>2
  <2> HIDE DEF delay, s
  <2> QED
    BY <2>1, <2>2 DEF Call
<1>7. /\ c.id = unique + 1 /\ c.due = current_time + delay
      /\ c.handle = ToInt(s + CycleSize * (unique + 1))
      /\ Shown(c) = [id |-> unique + 1, ob |-> ob, fn |-> fn,
                     due |-> current_time + delay]
  <2> HIDE DEF delay, s
  <2> QED
    BY DEF Shown
<1>8. /\ InOrder(list, base) /\ base \in Nat
      /\ \A k \in 1 .. Len(list) : list[k].id \in 1 .. unique
  <2> HIDE DEF s
  <2> QED
    BY <1>1, <1>5, WheelFacts
<1>9. InOrder(new, base) /\ Gains(new, list, c)
  <2>1. \A k \in 1 .. Len(list) : list[k].id < c.id
    BY <1>1, <1>7, <1>8
  <2>2. c.due = base + CycleSize * turns
    BY <1>5, <1>7
  <2> HIDE DEF c, list, base, turns
  <2> QED
    BY <1>5, <1>6, <1>8, <2>1, <2>2, InsertedIs
<1> HIDE DEF new, c, list, base, turns, s, delay
<1>10. Replaced(call_list', call_list, s, new)
  <2>1. new \in Seq(Call)
    BY <1>9 DEF InOrder
  <2> QED
    BY <1>1, <1>3, <1>5, <2>1, Placed
<1>11. /\ Wheel(call_list', current_time, unique + 1)
       /\ Pend(call_list') = Pend(call_list) \union {Shown(c)}
  BY <1>1, <1>5, <1>6, <1>7, <1>9, <1>10, PutIn DEF list, base
<1>12. WheelInv'
  <2>1. Others'
    BY <1>1, <1>3, <1>4, Sizes DEF Others
  <2> QED
    BY <1>3, <1>4, <1>11, <2>1 DEF WheelInv
<1>13. Promise!Next
  BY <1>3, <1>4, <1>7, <1>11, Schedules DEF delay
<1> QED
  BY <1>12, <1>13 DEF Kept

LEMMA RemoveAtPlaceKeeps ==
  ASSUME WheelInv, NEW w \in Places, RemoveAtPlace(w)
  PROVE  Kept
<1> DEFINE s == w[1]
           p == w[2]
           list == call_list[s]
           base == Round(s, current_time)
           new == Removed(list, p)
<1>1. /\ current_time \in Nat /\ unique \in Nat
      /\ Others /\ Wheel(call_list, current_time, unique)
      /\ call_list \in [Slots -> Seq(Call)]
  BY WheelFacts DEF WheelInv
<1>2. s \in Slots /\ p \in DOMAIN list
  <2>1. w \in PlacesOf(call_list)
    BY DEF Places, PlacesOf
  <2> QED
    BY <2>1, PlaceIs
<1>3. InOrder(list, base) /\ base \in Nat /\ DOMAIN list = 1 .. Len(list)
  BY <1>1, <1>2, WheelFacts
<1>4. /\ call_list' = [call_list EXCEPT ![s] = new]
      /\ UNCHANGED <<unique, current_time, wall, real_time, cop, destructed, pc>>
  BY DEF RemoveAtPlace, clock
<1> HIDE DEF list, base, s, p
<1>5. p \in 1 .. Len(list)
  BY <1>2, <1>3
<1>6. InOrder(new, base) /\ Keeps(new, list, (1 .. Len(list)) \ {p})
  BY <1>3, <1>5, RemovedIs
<1> HIDE DEF new
<1>7. Replaced(call_list', call_list, s, new)
  <2>1. new \in Seq(Call)
    BY <1>6 DEF InOrder
  <2> QED
    BY <1>1, <1>2, <1>4, <2>1, Placed
<1>8. /\ Wheel(call_list', current_time, unique)
      /\ Shown(list[p]) \in Pend(call_list)
      /\ Pend(call_list') = Pend(call_list) \ {Shown(list[p])}
  <2>1. InOrder(new, Round(s, current_time))
    BY <1>6 DEF base
  <2>2. p \in 1 .. Len(call_list[s])
    BY <1>5 DEF list
  <2>3. Keeps(new, call_list[s], (1 .. Len(call_list[s])) \ {p})
    BY <1>6, <1>5 DEF list
  <2>4. /\ Wheel(call_list', current_time, unique)
        /\ Lost(call_list', call_list, Shown(call_list[s][p]))
    BY <1>1, <1>2, <1>7, <2>1, <2>2, <2>3, TakenOut
  <2> QED
    BY <2>4 DEF list, Lost
<1>9. WheelInv'
  BY <1>1, <1>4, <1>8 DEF WheelInv, Others
<1>10. Promise!Next
  BY <1>4, <1>8, Cancels
<1> QED
  BY <1>9, <1>10 DEF Kept

LEMMA RemoveOwnersKeeps ==
  ASSUME WheelInv, NEW owners \in SUBSET Objects, destructed \subseteq owners,
         RemoveOwners(owners)
  PROVE  Kept
<1>1. /\ current_time \in Nat /\ unique \in Nat
      /\ Others /\ Wheel(call_list, current_time, unique)
  BY WheelFacts DEF WheelInv
<1>2. /\ call_list' = [s \in Slots |-> RemovedAll(call_list[s], owners)]
      /\ UNCHANGED <<unique, current_time, wall, real_time, cop, destructed, pc>>
  BY DEF RemoveOwners, clock
<1>3. /\ Wheel(call_list', current_time, unique)
      /\ Pend(call_list') = {c \in Pend(call_list) : c.ob \notin owners}
  BY <1>1, <1>2, OwnersOut
<1>4. WheelInv'
  BY <1>1, <1>2, <1>3 DEF WheelInv, Others
<1>5. Promise!Next
  BY <1>2, <1>3, CancelsAllOf
<1> QED
  BY <1>4, <1>5 DEF Kept

LEMMA DestructKeeps ==
  ASSUME WheelInv, NEW ob \in Objects, Destruct(ob)
  PROVE  Kept
<1>1. /\ destructed' = destructed \union {ob}
      /\ UNCHANGED <<call_list, unique, current_time, wall, real_time, cop, pc>>
  BY DEF Destruct, clock, wheel
<1>2. WheelInv'
  BY <1>1 DEF WheelInv, Others
<1>3. Promise!Next
  BY <1>1, Destructs
<1> QED
  BY <1>2, <1>3 DEF Kept

(* What StartCall and DropCall have in common.                             *)
LEMMA TakeHeadKeeps ==
  ASSUME WheelInv, IsDue, TakeHead, UNCHANGED <<unique, clock>>
  PROVE  /\ Wheel(call_list', current_time', unique')
         /\ Shown(DueCall) \in Pend(call_list)
         /\ Pend(call_list') = Pend(call_list) \ {Shown(DueCall)}
<1> DEFINE s == Slot(current_time)
           list == call_list[s]
           base == Round(s, current_time)
           new == Tail(list)
<1>1. /\ current_time \in Nat /\ unique \in Nat /\ s \in Slots
      /\ Others /\ Wheel(call_list, current_time, unique)
      /\ call_list \in [Slots -> Seq(Call)]
      /\ InOrder(list, base) /\ base \in Nat
  BY WheelFacts DEF WheelInv
<1>2. 1 \in 1 .. Len(list)
  BY <1>1, HeadIs
<1>3. list # <<>> /\ list[1].delta = 0 /\ DueCall = list[1]
  BY DEF IsDue, DueCall
<1>4. call_list' = [call_list EXCEPT ![s] = new] /\ UNCHANGED <<unique, current_time>>
  BY DEF TakeHead, clock
<1> HIDE DEF list, base, s
<1>5. InOrder(new, base) /\ Keeps(new, list, (1 .. Len(list)) \ {1})
  BY <1>1, <1>3, TailIs
<1> HIDE DEF new
<1>6. Replaced(call_list', call_list, s, new)
  <2>1. new \in Seq(Call)
    BY <1>5 DEF InOrder
  <2> QED
    BY <1>1, <1>4, <2>1, Placed
<1>7. PICK p \in 1 .. Len(list) : p = 1
  BY <1>2
<1>8. /\ Wheel(call_list', current_time, unique)
      /\ Shown(list[p]) \in Pend(call_list)
      /\ Pend(call_list') = Pend(call_list) \ {Shown(list[p])}
  <2>1. InOrder(new, Round(s, current_time))
    BY <1>5 DEF base
  <2>2. p \in 1 .. Len(call_list[s])
    BY <1>7 DEF list
  <2>3. Keeps(new, call_list[s], (1 .. Len(call_list[s])) \ {p})
    BY <1>5, <1>7 DEF list
  <2>4. /\ Wheel(call_list', current_time, unique)
        /\ Lost(call_list', call_list, Shown(call_list[s][p]))
    BY <1>1, <1>6, <2>1, <2>2, <2>3, TakenOut
  <2> QED
    BY <2>4 DEF list, Lost
<1> QED
  BY <1>3, <1>4, <1>7, <1>8

LEMMA StartCallKeeps ==
  ASSUME WheelInv, StartCall
  PROVE  Kept
<1>1. /\ Others /\ Wheel(call_list, current_time, unique)
  BY DEF WheelInv
<1>2. /\ pc = "slot" /\ IsDue /\ DueCall.ob \notin destructed /\ TakeHead
      /\ cop' = DueCall /\ pc' = "call"
      /\ UNCHANGED <<unique, current_time, wall, real_time, destructed>>
      /\ UNCHANGED <<unique, clock>>
  BY DEF StartCall, clock
<1>3. /\ Wheel(call_list', current_time', unique')
      /\ Shown(DueCall) \in Pend(call_list)
      /\ Pend(call_list') = Pend(call_list) \ {Shown(DueCall)}
  BY <1>2, TakeHeadKeeps
<1>4. /\ DueCall \in Call /\ DueCall.due = current_time
      /\ Foremost(Shown(DueCall), Pend(call_list))
  BY <1>1, <1>2, HeadIs
<1>5. WheelInv'
  BY <1>1, <1>2, <1>3, <1>4 DEF WheelInv, Others
<1>6. Promise!Next
  BY <1>2, <1>3, <1>4, Runs
<1> QED
  BY <1>5, <1>6 DEF Kept

LEMMA DropCallKeeps ==
  ASSUME WheelInv, DropCall
  PROVE  Kept
<1>1. /\ Others /\ Wheel(call_list, current_time, unique)
  BY DEF WheelInv
<1>2. /\ pc = "slot" /\ IsDue /\ DueCall.ob \in destructed /\ TakeHead
      /\ UNCHANGED <<unique, current_time, wall, real_time, cop, destructed, pc>>
      /\ UNCHANGED <<unique, clock>>
  BY DEF DropCall, clock
<1>3. /\ Wheel(call_list', current_time', unique')
      /\ Shown(DueCall) \in Pend(call_list)
      /\ Pend(call_list') = Pend(call_list) \ {Shown(DueCall)}
  BY <1>2, TakeHeadKeeps
<1>4. /\ DueCall.due = current_time
      /\ Foremost(Shown(DueCall), Pend(call_list))
  BY <1>1, <1>2, HeadIs
<1>5. WheelInv'
  BY <1>1, <1>2, <1>3 DEF WheelInv, Others
<1>6. Promise!Next
  BY <1>2, <1>3, <1>4, Drops
<1> QED
  BY <1>5, <1>6 DEF Kept

LEMMA CallEndsKeeps ==
  ASSUME WheelInv, CallReturns
  PROVE  Kept
<1>1. /\ pc = "call" /\ pc' = "slot" /\ cop' = NoCall
      /\ UNCHANGED <<call_list, unique, current_time, wall, real_time, destructed>>
  BY DEF CallReturns, clock, wheel
<1>2. cop \in Call
  BY <1>1 DEF WheelInv, Others
<1>3. WheelInv'
  BY <1>1, <1>2 DEF WheelInv, Others
<1>4. Promise!Next
  BY <1>1, <1>2, Finishes
<1> QED
  BY <1>3, <1>4 DEF Kept

LEMMA NextSecondKeeps ==
  ASSUME WheelInv, NextSecond
  PROVE  Kept
<1> DEFINE s == Slot(current_time)
           list == call_list[s]
           base == Round(s, current_time)
           new == Turned(list)
<1>1. /\ current_time \in Nat /\ unique \in Nat /\ s \in Slots
      /\ Others /\ Wheel(call_list, current_time, unique)
      /\ call_list \in [Slots -> Seq(Call)]
      /\ InOrder(list, base) /\ base \in Nat
  BY WheelFacts DEF WheelInv
<1>2. /\ pc = "slot" /\ ~IsDue /\ current_time < real_time
      /\ call_list' = [call_list EXCEPT ![s] = new]
      /\ current_time' = current_time + 1 /\ pc' = "beats"
      /\ UNCHANGED <<unique, wall, real_time, cop, destructed>>
  BY DEF NextSecond
<1>3. list # <<>> => list[1].delta # 0
  BY <1>2 DEF IsDue
<1>4. InOrder(new, base + CycleSize)
  <2> HIDE DEF list, base
  <2> QED
    BY <1>1, <1>3, TurnIs
<1>5. Replaced(call_list', call_list, s, new)
  <2> HIDE DEF new, s
  <2>1. new \in Seq(Call)
    BY <1>4 DEF InOrder
  <2> QED
    BY <1>1, <1>2, <2>1, Placed
<1>6. /\ Wheel(call_list', current_time + 1, unique)
      /\ Pend(call_list') = Pend(call_list)
  BY <1>1, <1>3, <1>5, TurnedOver
<1>7. WheelInv'
  <2>1. Others'
    BY <1>1, <1>2, Sizes DEF Others
  <2> QED
    BY <1>2, <1>6, <2>1 DEF WheelInv
<1>8. Promise!Next
  <2>1. \A c \in Pend(call_list) : c.due > current_time
    BY <1>1, <1>2, NothingDue
  <2> QED
    BY <1>2, <1>6, <2>1, Ticks
<1> QED
  BY <1>7, <1>8 DEF Kept

(* The wheel stands still.                                                 *)
LEMMA StillKeeps ==
  ASSUME WheelInv,
         StartRound \/ BeatsDone \/ EndRound \/ WallClockTicks \/ UNCHANGED vars
  PROVE  Kept
<1>1. /\ UNCHANGED <<call_list, unique, current_time, destructed>>
      /\ (pc # "call" /\ pc' # "call") \/ UNCHANGED <<pc, cop>>
  BY DEF StartRound, BeatsDone, EndRound, WallClockTicks, vars, clock, wheel
<1>2. UNCHANGED Promise!vars
  BY <1>1, Stutters
<1>3. Others'
  BY Sizes DEF WheelInv, Others, StartRound, BeatsDone, EndRound,
               WallClockTicks, vars, clock, wheel
<1> QED
  BY <1>1, <1>2, <1>3 DEF Kept, WheelInv

LEMMA StepKeeps ==
  ASSUME WheelInv, [Next]_vars
  PROVE  Kept
<1>1. CASE Lpc
  <2>1. CASE \E ob \in Objects, fn \in Functions, delay \in Delays :
               NewCallOut(ob, fn, delay)
    BY <2>1, NewCallOutKeeps
  <2>2. CASE \E ob \in Objects, fn \in Functions : RemoveCallOut(ob, fn)
    <3>1. PICK ob \in Objects, fn \in Functions : RemoveCallOut(ob, fn)
      BY <2>2
    <3> DEFINE places == Named(ob, fn)
    <3>2. places \subseteq Places /\ places # {} /\ RemoveAtPlace(FirstOf(places))
      BY <3>1 DEF RemoveCallOut, Named
    <3> HIDE DEF places
    <3>3. FirstOf(places) \in Places
      BY <3>2, FirstIs DEF WheelInv, Wheel
    <3> QED
      BY <3>2, <3>3, RemoveAtPlaceKeeps
  <2>3. CASE \E h \in {At(w).handle : w \in Places} : RemoveCallOutByHandle(h)
    <3>1. PICK h \in {At(w).handle : w \in Places} : RemoveCallOutByHandle(h)
      BY <2>3
    <3> DEFINE places == WithHandle(h)
    <3>2. places \subseteq Places /\ places # {} /\ RemoveAtPlace(FirstOf(places))
      BY <3>1 DEF RemoveCallOutByHandle, WithHandle
    <3> HIDE DEF places
    <3>3. FirstOf(places) \in Places
      BY <3>2, FirstIs DEF WheelInv, Wheel
    <3> QED
      BY <3>2, <3>3, RemoveAtPlaceKeeps
  <2>4. CASE \E ob \in Objects : RemoveAllCallOut(ob)
    <3>1. PICK ob \in Objects : RemoveAllCallOut(ob)
      BY <2>4
    <3> DEFINE owners == destructed \union {ob}
    <3>2. /\ owners \in SUBSET Objects /\ destructed \subseteq owners
          /\ RemoveOwners(owners)
      BY <3>1 DEF RemoveAllCallOut, WheelInv, Others
    <3> HIDE DEF owners
    <3> QED
      BY <3>2, RemoveOwnersKeeps
  <2>5. CASE ReclaimCallOuts
    <3>1. destructed \in SUBSET Objects /\ RemoveOwners(destructed)
      BY <2>5 DEF ReclaimCallOuts, WheelInv, Others
    <3> QED
      BY <3>1, RemoveOwnersKeeps
  <2>6. CASE \E ob \in Objects : Destruct(ob)
    BY <2>6, DestructKeeps
  <2> QED
    BY <1>1, <2>1, <2>2, <2>3, <2>4, <2>5, <2>6 DEF Lpc
<1>2. CASE Driver
  BY <1>2, StartCallKeeps, DropCallKeeps, CallEndsKeeps, NextSecondKeeps,
     StillKeeps DEF Driver
<1>3. CASE WallClockTicks \/ UNCHANGED vars
  BY <1>3, StillKeeps
<1> QED
  BY <1>1, <1>2, <1>3 DEF Next

LEMMA StartsKept ==
  ASSUME Init
  PROVE  WheelInv /\ Promise!Init
<1>1. \A s \in Slots : s \in Nat /\ s <= Horizon
  BY CallOutAssumption DEF Slots
<1>2. current_time \in Nat /\ current_time \in 0 .. Horizon
  BY <1>1, Sizes DEF Init
<1>3. \A s \in Slots : call_list[s] = <<>>
  BY DEF Init
<1>4. Others
  BY <1>2, Sizes DEF Init, Others
<1>5. call_list \in [Slots -> Seq(Call)]
  <2>1. <<>> \in Seq(Call)
    OBVIOUS
  <2> QED
    BY <2>1 DEF Init
<1>6. \A s \in Slots : Well(call_list[s], s, current_time, unique)
  <2>1. \A s, t, n : Well(<<>>, s, t, n)
    <3>1. <<>> \in Seq(Call) /\ DOMAIN <<>> = {}
      OBVIOUS
    <3> QED
      BY <3>1 DEF Well, Spaced, Sorted, Numbered
  <2> QED
    BY <1>3, <2>1
<1>7. \A s \in Slots : DOMAIN call_list[s] = {}
  BY <1>3
<1>8. Apart(call_list)
  BY <1>7 DEF Apart
<1>9. Pend(call_list) = {}
  BY <1>7 DEF Pend
<1>10. {Shown(At(w)) : w \in Places} = {}
  BY <1>9, PendingIs
<1>11. Promise!Init
  BY <1>2, <1>10 DEF Init, Promise!Init
<1> QED
  BY <1>4, <1>5, <1>6, <1>8, <1>11 DEF WheelInv, Wheel

LEMMA WheelHolds == Spec => []WheelInv
<1>1. WheelInv /\ [Next]_vars => WheelInv'
  BY StepKeeps DEF Kept
<1>2. Init => WheelInv
  BY StartsKept
<1> QED
  BY <1>1, <1>2, PTL DEF Spec

(* In every state the wheel, the clock and the call that runs are what the *)
(* code takes them for, however many calls are asked for.                  *)
THEOREM CallOutTypes == Spec => []TypeOK
<1>1. WheelInv => TypeOK
  BY DEF WheelInv, Others, Wheel, TypeOK
<1> QED
  BY <1>1, WheelHolds, PTL

LEMMA PlacedAt ==
  ASSUME WheelInv, NEW w \in Places
  PROVE  /\ w[1] \in Slots /\ w[2] \in 1 .. Len(call_list[w[1]])
         /\ w = <<w[1], w[2]>>
         /\ At(w) = call_list[w[1]][w[2]]
         /\ At(w).id \in 1 .. unique
         /\ At(w).handle = ToInt(w[1] + CycleSize * At(w).id)
         /\ Spaced(call_list[w[1]], Round(w[1], current_time))
         /\ Sorted(call_list[w[1]])
         /\ call_list[w[1]] \in Seq(Call)
         /\ At(w).due \in Nat
<1>1. w \in PlacesOf(call_list)
  BY DEF Places, PlacesOf
<1>2. w[1] \in Slots /\ w[2] \in DOMAIN call_list[w[1]] /\ w = <<w[1], w[2]>>
  BY <1>1, PlaceIs
<1>3. Well(call_list[w[1]], w[1], current_time, unique)
  BY <1>2 DEF WheelInv, Wheel
<1>4. call_list[w[1]] \in Seq(Call)
  BY <1>3 DEF Well
<1>5. w[2] \in 1 .. Len(call_list[w[1]])
  BY <1>2, <1>4, ListIs
<1>6. call_list[w[1]][w[2]].due \in Nat
  BY <1>4, <1>5, ListIs
<1> QED
  BY <1>2, <1>3, <1>4, <1>5, <1>6 DEF At, Well, Numbered

(* The deltas never drift: through every insertion, removal and turn, what *)
(* time_left() finds for a pending call leads to the second it was asked   *)
(* for, and calls for the same second keep the order of the requests.      *)
THEOREM WheelNeverDrifts == Spec => []WheelKeepsTime
<1>1. WheelInv => WheelKeepsTime
  <2> SUFFICES ASSUME WheelInv PROVE WheelKeepsTime
    OBVIOUS
  <2>1. current_time \in Nat
    BY WheelFacts DEF WheelInv
  <2>2. ASSUME NEW w \in Places
        PROVE  At(w).due = current_time + TimeLeftAt(w)
    <3> DEFINE s == w[1]
               p == w[2]
               list == call_list[s]
               base == Round(s, current_time)
    <3>1. /\ s \in Slots /\ p \in 1 .. Len(list) /\ At(w) = list[p]
          /\ Spaced(list, base) /\ list \in Seq(Call)
      BY PlacedAt
    <3>2. base \in Nat
      BY <2>1, <3>1, RoundMoves
    <3>3. TimeLeftAt(w) = TimeLeft(s, Turns(list)[p])
      BY DEF TimeLeftAt
    <3> HIDE DEF list, s, p
    <3>4. Turns(list)[p] \in Nat
      <4>1. p \in 0 .. Len(list)
        BY <3>1
      <4> QED
        BY <3>1, <4>1, TurnsAre
    <3>5. current_time + TimeLeft(s, Turns(list)[p])
            = base + CycleSize * Turns(list)[p]
      BY <2>1, <3>1, <3>4, TimeLeftIs
    <3>6. list[p].due = base + CycleSize * Turns(list)[p]
      <4> HIDE DEF base
      <4> QED
        BY <3>1, <3>2, DueIs
    <3> QED
      BY <3>1, <3>3, <3>5, <3>6
  <2>3. ASSUME NEW v \in Places, NEW w \in Places,
               v[1] = w[1], v[2] < w[2], At(v).due = At(w).due
        PROVE  At(v).id < At(w).id
    <3>1. /\ v[2] \in 1 .. Len(call_list[w[1]])
          /\ At(v) = call_list[w[1]][v[2]]
          /\ At(v).due \in Nat
      BY <2>3, PlacedAt
    <3>2. /\ w[2] \in 1 .. Len(call_list[w[1]])
          /\ At(w) = call_list[w[1]][w[2]]
          /\ Sorted(call_list[w[1]]) /\ call_list[w[1]] \in Seq(Call)
      BY PlacedAt
    <3>3. DOMAIN call_list[w[1]] = 1 .. Len(call_list[w[1]])
      BY <3>2, ListIs
    <3>4. Earlier(At(v), At(w))
      BY <2>3, <3>1, <3>2, <3>3 DEF Sorted
    <3> QED
      BY <2>3, <3>1, <3>4 DEF Earlier
  <2> QED
    BY <2>2, <2>3 DEF WheelKeepsTime
<1> QED
  BY <1>1, WheelHolds, PTL

HandleSpan == (2 * IntHalf) \div CycleSize

LEMMA SpanIs ==
  HandleSpan \in Nat /\ HandleSpan > 0 /\ 2 * IntHalf = CycleSize * HandleSpan
<1>1. 2 * IntHalf \in Int /\ 2 * IntHalf > 0
  BY Sizes
<1>2. PICK q, r \in Int :
         /\ q = HandleSpan /\ r = (2 * IntHalf) % CycleSize
         /\ 2 * IntHalf = CycleSize * q + r
  BY <1>1, Divided DEF HandleSpan
<1>3. r = 0
  BY <1>2, CallOutAssumption
<1>4. 2 * IntHalf = CycleSize * q
  <2>1. CycleSize * q \in Int
    BY Products
  <2> QED
    BY <1>2, <1>3, <2>1
<1>5. q > 0
  <2>1. q <= 0 => CycleSize * q <= 0
    BY Sizes
  <2> QED
    BY <1>1, <1>4, <2>1
<1> QED
  BY <1>2, <1>4, <1>5

(* A handle is cut down to an int by whole rounds of the counter.          *)
LEMMA HandleIs ==
  ASSUME NEW s \in Slots, NEW i \in Nat
  PROVE  \E k \in Int :
           ToInt(s + CycleSize * i) = CycleSize * (i - HandleSpan * k) + s
<1> DEFINE n == s + CycleSize * i
           m == 2 * IntHalf
<1>1. s \in Int /\ n \in Int /\ m \in Nat /\ m > 0
  BY Sizes DEF Slots
<1>2. \E k, r \in Int : /\ r = (n + IntHalf) % m
                        /\ n + IntHalf = m * k + r
  <2> HIDE DEF n, m
  <2> QED
    BY <1>1, Sizes
<1>3. PICK k, r \in Int : /\ r = (n + IntHalf) % m
                          /\ n + IntHalf = m * k + r
  BY <1>2
<1>4. ToInt(n) = r - IntHalf
  BY <1>3 DEF ToInt
<1>5. ToInt(n) = n - m * k
  <2> HIDE DEF n, m
  <2>1. m * k \in Int
    BY <1>1
  <2> QED
    BY <1>1, <1>3, <1>4, <2>1, Sizes
<1>6. m * k = CycleSize * (HandleSpan * k)
  <2>1. m * k = (CycleSize * HandleSpan) * k
    BY SpanIs
  <2> QED
    BY <2>1, SpanIs, Sizes
<1>7. HandleSpan * k \in Int
  BY SpanIs
<1>8. (s + CycleSize * i) - CycleSize * (HandleSpan * k)
        = CycleSize * (i - HandleSpan * k) + s
  <2> DEFINE x == HandleSpan * k
  <2>1. x \in Int
    BY <1>7
  <2> HIDE DEF x
  <2>2. (s + CycleSize * i) - CycleSize * x = CycleSize * (i - x) + s
    BY <1>1, <2>1, Sizes
  <2> QED
    BY <2>2 DEF x
<1> QED
  BY <1>5, <1>6, <1>8

(* However often the counter goes round, a handle leads to the slot of its *)
(* call, and calls with the same handle were asked for a multiple of the   *)
(* counter's span apart.                                                   *)
THEOREM HandlesStayApart == Spec => []HandlesFarApart
<1>1. WheelInv => HandlesFarApart
  <2> SUFFICES ASSUME WheelInv, NEW v \in Places, NEW w \in Places
               PROVE  /\ v \in WithHandle(At(v).handle)
                      /\ v # w /\ At(v).handle = At(w).handle =>
                           (At(v).id - At(w).id) % HandleSpan = 0
    BY DEF HandlesFarApart, HandleSpan
  <2>1. ASSUME NEW u \in Places
        PROVE  /\ u[1] \in Slots /\ At(u).id \in Nat
               /\ \E k \in Int :
                    At(u).handle = CycleSize * (At(u).id - HandleSpan * k) + u[1]
               /\ Slot(At(u).handle) = u[1]
    <3> DEFINE s == u[1]
               i == At(u).id
    <3>1. s \in Slots /\ i \in 1 .. unique /\ At(u).handle = ToInt(s + CycleSize * i)
      BY PlacedAt
    <3>2. i \in Nat
      BY <3>1, WheelFacts DEF WheelInv
    <3> HIDE DEF s, i
    <3>3. PICK k \in Int : At(u).handle = CycleSize * (i - HandleSpan * k) + s
      BY <3>1, <3>2, HandleIs
    <3>4. i - HandleSpan * k \in Int
      BY <3>2, SpanIs
    <3>5. Slot(At(u).handle) = s
      BY <3>1, <3>3, <3>4, RestIs DEF Slot
    <3> QED
      BY <3>1, <3>2, <3>3, <3>5 DEF s, i
  <2>2. v \in WithHandle(At(v).handle)
    BY <2>1 DEF WithHandle
  <2>3. ASSUME At(v).handle = At(w).handle
        PROVE  (At(v).id - At(w).id) % HandleSpan = 0
    <3> DEFINE i == At(v).id
               j == At(w).id
               s == v[1]
    <3>1. s \in Slots /\ w[1] = s /\ i \in Nat /\ j \in Nat
      BY <2>1, <2>3
    <3>2. PICK k \in Int : At(v).handle = CycleSize * (i - HandleSpan * k) + s
      BY <2>1
    <3>3. PICK l \in Int : At(w).handle = CycleSize * (j - HandleSpan * l) + s
      BY <2>1, <3>1
    <3> HIDE DEF i, j, s
    <3> DEFINE x == i - HandleSpan * k
               y == j - HandleSpan * l
    <3>4. x \in Int /\ y \in Int
      BY <3>1, SpanIs
    <3>5. CycleSize * x = CycleSize * y
      <4>1. CycleSize * x + s = CycleSize * y + s
        BY <2>3, <3>2, <3>3
      <4> HIDE DEF x, y
      <4>2. CycleSize * x \in Int /\ CycleSize * y \in Int /\ s \in Int
        BY <3>1, <3>4, Products DEF Slots
      <4> QED
        BY <4>1, <4>2
    <3>6. x = y
      <4> HIDE DEF x, y
      <4> QED
        BY <3>4, <3>5, Sizes
    <3>7. i - j = HandleSpan * (k - l) + 0
      <4>1. HandleSpan * k - HandleSpan * l = HandleSpan * (k - l)
        BY SpanIs
      <4>2. HandleSpan * k \in Int /\ HandleSpan * l \in Int
        BY SpanIs
      <4> DEFINE a == HandleSpan * k
                 b == HandleSpan * l
      <4>3. a \in Int /\ b \in Int /\ i - a = j - b
        BY <3>6, <4>2
      <4> HIDE DEF a, b
      <4>4. i - j = (a - b) + 0
        BY <3>1, <4>3
      <4> QED
        BY <4>1, <4>4 DEF a, b
    <3>8. (HandleSpan * (k - l) + 0) % HandleSpan = 0
      BY SpanIs
    <3> QED
      BY <3>7, <3>8 DEF i, j
  <2> QED
    BY <2>2, <2>3
<1> QED
  BY <1>1, WheelHolds, PTL

(* The wheel keeps the promise of Timers: a call that nobody cancels is    *)
(* served in the very second it was asked for, in order, and never for a   *)
(* destructed owner; time does not pass while one is due.                  *)
THEOREM WheelKeepsPromise == Spec => KeepsPromise
<1>1. Init => Promise!Init
  BY StartsKept
<1>2. WheelInv /\ [Next]_vars => [Promise!Next]_(Promise!vars)
  BY StepKeeps DEF Kept
<1> QED
  BY <1>1, <1>2, WheelHolds, PTL DEF Spec, KeepsPromise, Promise!Spec

-----------------------------------------------------------------------------
(* The ring of Output *)

N == MESSAGE_BUF_SIZE
Char == {"x", "nl", "iac"}

(* What is written and why the ring is flushed go together: a writer waits *)
(* for the ring with characters left, other flushes come between messages, *)
(* and nothing happens on a link that is down.                             *)
WritersWait ==
  /\ net_dead => task = NoTask /\ flushing = "no"
  /\ task.kind = "none" => task = NoTask
  /\ flushing \in {"full", "pair"} => task.rest # <<>>
  /\ flushing \in {"flush", "remove", "end"} => task = NoTask

RingInv == OutputTypeOK /\ WritersWait

-----------------------------------------------------------------------------
(* Places of the ring *)

Wrap(x) == x % N

LEMMA OnceRound ==
  ASSUME NEW x \in 0 .. 2 * N - 1
  PROVE  Wrap(x) = IF x < N THEN x ELSE x - N
BY OutputAssumption DEF N, Wrap

LEMMA RingPlaces ==
  ASSUME RingInv
  PROVE  /\ N \in Nat /\ N > 1
         /\ message_consumer \in 0 .. N - 1
         /\ message_producer \in 0 .. N - 1
         /\ message_length \in 0 .. N
         /\ message_producer =
              IF message_consumer + message_length < N
              THEN message_consumer + message_length
              ELSE message_consumer + message_length - N
<1>1. /\ N \in Nat /\ N > 1
      /\ message_consumer \in 0 .. N - 1
      /\ message_producer \in 0 .. N - 1
      /\ message_length \in 0 .. N
      /\ message_producer = Wrap(message_consumer + message_length)
  BY OutputAssumption DEF N, Wrap, RingInv, OutputTypeOK, Index
<1>2. message_consumer + message_length \in 0 .. 2 * N - 1
  BY <1>1
<1> QED
  BY <1>1, <1>2, OnceRound

(* The len bytes from c on.                                                *)
Ring(buf, c, len) == [k \in 1 .. len |-> buf[Wrap(c + k - 1)]]

LEMMA RingIsSeq ==
  ASSUME NEW buf \in [Index -> Byte], NEW c \in 0 .. N - 1, NEW len \in 0 .. N
  PROVE  /\ Ring(buf, c, len) \in Seq(Byte)
         /\ Len(Ring(buf, c, len)) = len
         /\ \A k \in 1 .. len : Ring(buf, c, len)[k] = buf[Wrap(c + k - 1)]
<1>0. N \in Nat /\ N > 1 /\ Index = 0 .. N - 1
  BY OutputAssumption DEF N, Index
<1>1. \A k \in 1 .. len : buf[Wrap(c + k - 1)] \in Byte
  <2> TAKE k \in 1 .. len
  <2>1. c + k - 1 \in 0 .. 2 * N - 1
    BY <1>0
  <2>2. Wrap(c + k - 1) \in 0 .. N - 1
    BY <1>0, <2>1, OnceRound
  <2> QED
    BY <1>0, <2>2
<1>2. Ring(buf, c, len) \in [1 .. len -> Byte]
  BY <1>1 DEF Ring
<1>3. len \in Nat
  BY <1>0
<1>4. Ring(buf, c, len) \in Seq(Byte)
  BY <1>2, <1>3, SeqDef
<1>5. /\ DOMAIN Ring(buf, c, len) = 1 .. len
      /\ DOMAIN Ring(buf, c, len) = 1 .. Len(Ring(buf, c, len))
      /\ Len(Ring(buf, c, len)) \in Nat
  BY <1>2, <1>4, LenProperties
<1> QED
  BY <1>3, <1>4, <1>5 DEF Ring

LEMMA QueueIsRing == Queue = Ring(message_buf, message_consumer, message_length)
BY DEF Queue, Ring, Wrap, N

(* A character b of n bytes is put behind the len bytes from c on, at p.   *)
Puts(new, buf, c, len, p, b, n) ==
  /\ buf \in [Index -> Byte] /\ new \in [Index -> Byte]
  /\ c \in 0 .. N - 1 /\ len \in 0 .. N /\ p = Wrap(c + len)
  /\ b \in Seq(Byte) /\ n \in 1 .. 2 /\ Len(b) = n /\ len + n <= N
  /\ \A i \in Index :
       new[i] = IF i = Wrap(p) THEN b[1]
                ELSE IF n = 2 /\ i = Wrap(p + 1) THEN b[2] ELSE buf[i]

LEMMA RingGrows ==
  ASSUME NEW new, NEW buf, NEW c, NEW len, NEW p, NEW b, NEW n,
         Puts(new, buf, c, len, p, b, n)
  PROVE  /\ Ring(new, c, len + n) = Ring(buf, c, len) \o b
         /\ Wrap(p + n) \in Index
         /\ Wrap(p + n) = Wrap(c + (len + n))
<1> /\ buf \in [Index -> Byte] /\ new \in [Index -> Byte]
    /\ c \in 0 .. N - 1 /\ len \in 0 .. N /\ p = Wrap(c + len)
    /\ b \in Seq(Byte) /\ n \in 1 .. 2 /\ Len(b) = n /\ len + n <= N
  BY DEF Puts
<1>0. N \in Nat /\ N > 1 /\ Index = 0 .. N - 1
  BY OutputAssumption DEF N, Index
<1>1. p = IF c + len < N THEN c + len ELSE c + len - N
  <2>1. c + len \in 0 .. 2 * N - 1
    BY <1>0
  <2> QED
    BY <1>0, <2>1, OnceRound
<1>2. p \in 0 .. N - 1
  BY <1>0, <1>1
<1>3. /\ Wrap(p) = p
      /\ Wrap(p + 1) = (IF p + 1 < N THEN p + 1 ELSE p + 1 - N)
      /\ Wrap(p + 2) = (IF p + 2 < N THEN p + 2 ELSE p + 2 - N)
  <2>1. /\ p \in 0 .. 2 * N - 1 /\ p + 1 \in 0 .. 2 * N - 1
        /\ p + 2 \in 0 .. 2 * N - 1
    BY <1>0, <1>2
  <2> QED
    BY <1>0, <1>2, <2>1, OnceRound
<1>4. Wrap(p + n) \in Index /\ Wrap(p + n) = Wrap(c + (len + n))
  <2>1. c + (len + n) \in 0 .. 2 * N - 1
    BY <1>0
  <2>2. Wrap(c + (len + n)) = IF c + (len + n) < N THEN c + (len + n)
                              ELSE c + (len + n) - N
    BY <1>0, <2>1, OnceRound
  <2>3. CASE n = 1
    BY <1>0, <1>1, <1>2, <1>3, <2>2, <2>3
  <2>4. CASE n = 2
    BY <1>0, <1>1, <1>2, <1>3, <2>2, <2>4
  <2> QED
    BY <2>3, <2>4
<1>7. /\ Ring(buf, c, len) \in Seq(Byte) /\ Len(Ring(buf, c, len)) = len
      /\ \A k \in 1 .. len : Ring(buf, c, len)[k] = buf[Wrap(c + k - 1)]
  BY RingIsSeq
<1>8. /\ Ring(new, c, len + n) \in Seq(Byte)
      /\ Len(Ring(new, c, len + n)) = len + n
      /\ \A k \in 1 .. len + n :
           Ring(new, c, len + n)[k] = new[Wrap(c + k - 1)]
  <2>1. len + n \in 0 .. N
    BY <1>0
  <2> QED
    BY <2>1, RingIsSeq
<1>9. /\ Ring(buf, c, len) \o b \in Seq(Byte)
      /\ Len(Ring(buf, c, len) \o b) = len + n
      /\ \A k \in 1 .. len + n :
           (Ring(buf, c, len) \o b)[k] =
             IF k <= len THEN Ring(buf, c, len)[k] ELSE b[k - len]
  <2> DEFINE q == Ring(buf, c, len)
  <2>1. q \in Seq(Byte) /\ Len(q) = len
    BY <1>7
  <2> HIDE DEF q
  <2>2. /\ q \o b \in Seq(Byte) /\ Len(q \o b) = Len(q) + Len(b)
        /\ \A k \in 1 .. Len(q) + Len(b) :
             (q \o b)[k] = IF k <= Len(q) THEN q[k] ELSE b[k - Len(q)]
    BY <2>1, ConcatProperties
  <2> QED
    BY <2>1, <2>2 DEF q
<1>10. ASSUME NEW k \in 1 .. len + n
       PROVE  Ring(new, c, len + n)[k] = (Ring(buf, c, len) \o b)[k]
  <2>1. c + k - 1 \in 0 .. 2 * N - 1
    BY <1>0
  <2>2. Wrap(c + k - 1) = IF c + k - 1 < N THEN c + k - 1 ELSE c + k - 1 - N
    BY <1>0, <2>1, OnceRound
  <2>3. Wrap(c + k - 1) \in Index
    BY <1>0, <2>1, <2>2
  <2>4. CASE k <= len
    <3>1. Wrap(c + k - 1) # p /\ (n = 2 => Wrap(c + k - 1) # Wrap(p + 1))
      BY <1>0, <1>1, <1>2, <1>3, <2>2, <2>4
    <3>2. new[Wrap(c + k - 1)] = buf[Wrap(c + k - 1)]
      BY <1>3, <2>3, <3>1 DEF Puts
    <3>3. k \in 1 .. len
      BY <2>4
    <3> QED
      BY <1>7, <1>8, <1>9, <2>4, <3>2, <3>3
  <2>5. CASE k = len + 1
    <3>1. Wrap(c + k - 1) = p
      BY <1>0, <1>1, <2>2, <2>5
    <3>2. new[Wrap(c + k - 1)] = b[1]
      BY <1>3, <2>3, <3>1 DEF Puts
    <3>3. ~(k <= len) /\ k - len = 1
      BY <2>5
    <3> QED
      BY <1>8, <1>9, <3>2, <3>3
  <2>6. CASE n = 2 /\ k = len + 2
    <3>1. Wrap(c + k - 1) = Wrap(p + 1) /\ Wrap(p + 1) # p
      BY <1>0, <1>1, <1>2, <1>3, <2>2, <2>6
    <3>2. new[Wrap(c + k - 1)] = b[2]
      BY <1>3, <2>3, <2>6, <3>1 DEF Puts
    <3>3. ~(k <= len) /\ k - len = 2
      BY <2>6
    <3>4. (Ring(buf, c, len) \o b)[k] = b[k - len]
      BY <1>9, <3>3
    <3>5. Ring(new, c, len + n)[k] = new[Wrap(c + k - 1)]
      BY <1>8
    <3> QED
      BY <3>2, <3>3, <3>4, <3>5
  <2>7. k <= len \/ k = len + 1 \/ (n = 2 /\ k = len + 2)
    BY <1>0
  <2> QED
    BY <2>4, <2>5, <2>6, <2>7
<1>11. Ring(new, c, len + n) = Ring(buf, c, len) \o b
  BY <1>8, <1>9, <1>10, SeqEqual
<1> QED
  BY <1>4, <1>11

(* The first n of the len bytes from c on go, and do not pass the end.     *)
Gives(buf, c, len, n) ==
  /\ buf \in [Index -> Byte]
  /\ c \in 0 .. N - 1 /\ len \in 0 .. N
  /\ n \in 1 .. len /\ c + n <= N

LEMMA RingShrinks ==
  ASSUME NEW buf, NEW c, NEW len, NEW n, Gives(buf, c, len, n)
  PROVE  /\ Ring(buf, c, n) = SubSeq(Ring(buf, c, len), 1, n)
         /\ Ring(buf, Wrap(c + n), len - n)
              = SubSeq(Ring(buf, c, len), n + 1, len)
         /\ Wrap(c + n) \in Index
         /\ Wrap(c + len) = Wrap(Wrap(c + n) + (len - n))
<1> /\ buf \in [Index -> Byte]
    /\ c \in 0 .. N - 1 /\ len \in 0 .. N
    /\ n \in 1 .. len /\ c + n <= N
  BY DEF Gives
<1> DEFINE q == Ring(buf, c, len)
           d == Wrap(c + n)
<1>0. N \in Nat /\ N > 1 /\ Index = 0 .. N - 1
  BY OutputAssumption DEF N, Index
<1>1. d = (IF c + n < N THEN c + n ELSE 0) /\ d \in Index
  <2>1. c + n \in 0 .. 2 * N - 1
    BY <1>0
  <2> QED
    BY <1>0, <2>1, OnceRound
<1>2. Wrap(c + len) = Wrap(d + (len - n))
  <2>1. c + len \in 0 .. 2 * N - 1 /\ d + (len - n) \in 0 .. 2 * N - 1
    BY <1>0, <1>1
  <2> HIDE DEF d
  <2> QED
    BY <1>0, <1>1, <2>1, OnceRound
<1>3. /\ q \in Seq(Byte) /\ Len(q) = len
      /\ \A k \in 1 .. len : q[k] = buf[Wrap(c + k - 1)]
  BY RingIsSeq
<1>4. /\ Ring(buf, c, n) \in Seq(Byte) /\ Len(Ring(buf, c, n)) = n
      /\ \A k \in 1 .. n : Ring(buf, c, n)[k] = buf[Wrap(c + k - 1)]
  <2>1. n \in 0 .. N
    BY <1>0
  <2> QED
    BY <2>1, RingIsSeq
<1>5. /\ Ring(buf, d, len - n) \in Seq(Byte)
      /\ Len(Ring(buf, d, len - n)) = len - n
      /\ \A k \in 1 .. len - n :
           Ring(buf, d, len - n)[k] = buf[Wrap(d + k - 1)]
  <2>1. len - n \in 0 .. N /\ d \in 0 .. N - 1
    BY <1>0, <1>1
  <2> HIDE DEF d
  <2> QED
    BY <2>1, RingIsSeq
<1> HIDE DEF q, d
<1>6. /\ SubSeq(q, 1, n) \in Seq(Byte) /\ Len(SubSeq(q, 1, n)) = n
      /\ \A k \in 1 .. n : SubSeq(q, 1, n)[k] = q[k]
  <2>1. \A i \in 1 .. n : q[i] \in Byte
    BY <1>0, <1>3, ElementOfSeq
  <2>2. 1 \in Int /\ n \in Int /\ n - 1 + 1 = n /\ 1 <= n
        /\ \A k \in 1 .. n : 1 + k - 1 = k
    BY <1>0
  <2> QED
    BY <2>1, <2>2, SubSeqProperties
<1>7. /\ SubSeq(q, n + 1, len) \in Seq(Byte)
      /\ Len(SubSeq(q, n + 1, len)) = len - n
      /\ \A k \in 1 .. len - n : SubSeq(q, n + 1, len)[k] = q[n + k]
  <2>1. \A i \in n + 1 .. len : q[i] \in Byte
    BY <1>0, <1>3, ElementOfSeq
  <2>2. /\ n + 1 \in Int /\ len \in Int /\ len - (n + 1) + 1 = len - n
        /\ (~(n + 1 <= len) => len - n = 0)
        /\ \A k \in 1 .. len - n : n + 1 + k - 1 = n + k
    BY <1>0
  <2> QED
    BY <2>1, <2>2, SubSeqProperties
<1>8. Ring(buf, c, n) = SubSeq(q, 1, n)
  <2>1. \A k \in 1 .. n : Ring(buf, c, n)[k] = SubSeq(q, 1, n)[k]
    BY <1>0, <1>3, <1>4, <1>6
  <2> QED
    BY <1>4, <1>6, <2>1, SeqEqual
<1>9. Ring(buf, d, len - n) = SubSeq(q, n + 1, len)
  <2>1. ASSUME NEW k \in 1 .. len - n
        PROVE  Ring(buf, d, len - n)[k] = SubSeq(q, n + 1, len)[k]
    <3>1. /\ d + k - 1 \in 0 .. 2 * N - 1
          /\ c + (n + k) - 1 \in 0 .. 2 * N - 1
          /\ n + k \in 1 .. len
      BY <1>0, <1>1
    <3>2. /\ Wrap(d + k - 1) = (IF d + k - 1 < N THEN d + k - 1
                               ELSE d + k - 1 - N)
          /\ Wrap(c + (n + k) - 1) = (IF c + (n + k) - 1 < N
                                     THEN c + (n + k) - 1
                                     ELSE c + (n + k) - 1 - N)
      BY <1>0, <1>1, <3>1, OnceRound
    <3>3. Wrap(d + k - 1) = Wrap(c + (n + k) - 1)
      <4>1. CASE c + n < N
        BY <1>0, <1>1, <3>2, <4>1
      <4>2. CASE c + n = N
        BY <1>0, <1>1, <3>2, <4>2
      <4> QED
        BY <1>0, <4>1, <4>2
    <3>4. q[n + k] = buf[Wrap(c + (n + k) - 1)]
      BY <1>3, <3>1
    <3> QED
      BY <1>5, <1>7, <3>3, <3>4
  <2> QED
    BY <1>5, <1>7, <2>1, SeqEqual
<1> QED
  BY <1>1, <1>2, <1>8, <1>9 DEF q, d

(* What send() is offered is a part of what the ring holds.                *)
LEMMA SegmentIsHeld ==
  ASSUME RingInv, message_length # 0
  PROVE  /\ Segment \in 1 .. message_length
         /\ message_consumer + Segment \in 1 .. N
BY RingPlaces DEF Segment, N

-----------------------------------------------------------------------------
(* Steps: each keeps the invariant and is a step of the stream.            *)
RingStep == [Abstract!Next]_(Abstract!vars)

offer == IF task.rest = <<>> THEN NoTask ELSE task

LEMMA SameRing ==
  ASSUME UNCHANGED ring
  PROVE  UNCHANGED Queue
BY DEF ring, Queue

LEMMA Unseen ==
  ASSUME UNCHANGED <<Queue, wire, net_dead>>, offer' = offer
  PROVE  RingStep
BY DEF RingStep, Abstract!vars, offer

LEMMA AddKeeps ==
  ASSUME RingInv, NEW m \in Messages, Add(m.kind, m.rest)
  PROVE  RingInv' /\ RingStep
<1>1. /\ m \in [kind : {"text", "vtext", "binary"},
               rest : Seq({"x", "nl", "iac"})]
      /\ [kind |-> m.kind, rest |-> m.rest] = m
  BY OutputAssumption
<1>2. /\ task = NoTask /\ flushing = "no" /\ ~net_dead
      /\ written' \in 0 .. MaxMessages
      /\ task' = m
      /\ UNCHANGED <<ring, net_dead, flushing, wire, held>>
  BY <1>1, OutputAssumption DEF Add, RingInv, OutputTypeOK
<1>3. RingInv'
  <2>1. OutputTypeOK'
    BY <1>1, <1>2 DEF RingInv, OutputTypeOK, ring
  <2>2. WritersWait'
    BY <1>1, <1>2 DEF WritersWait
  <2> QED
    BY <2>1, <2>2 DEF RingInv
<1>4. UNCHANGED <<Queue, wire, net_dead>>
  BY <1>2, SameRing
<1>5. RingStep
  <2>1. CASE m.rest = <<>>
    BY <1>2, <1>4, <2>1, Unseen DEF offer, NoTask
  <2>2. CASE m.rest # <<>>
    BY <1>2, <1>4, <2>2
      DEF RingStep, Abstract!Next, Abstract!Offer, Abstract!NoOffer, NoTask
  <2> QED
    BY <2>1, <2>2
<1> QED
  BY <1>3, <1>5

LEMMA PutCharKeeps ==
  ASSUME RingInv, PutChar
  PROVE  RingInv' /\ RingStep
<1> DEFINE b == IF Paired THEN <<First, Next1>> ELSE <<Next1>>
           n == IF Paired THEN 2 ELSE 1
           rest == task.rest
<1>1. /\ rest \in Seq(Char) /\ rest # <<>> /\ flushing = "no"
      /\ ~net_dead /\ task.kind \in {"text", "vtext", "binary"}
      /\ task \in [kind : {"none", "text", "vtext", "binary"}, rest : Seq(Char)]
  BY DEF RingInv, OutputTypeOK, PutChar, Writing, WritersWait, NoTask, Char
<1>2. /\ Next1 \in Char /\ Tail(rest) \in Seq(Char)
      /\ Len(Tail(rest)) = Len(rest) - 1 /\ Len(rest) \in Nat
  BY <1>1, HeadTailProperties, LenProperties DEF Next1
<1>3. /\ b \in Seq(Byte) /\ Len(b) = n /\ n \in 1 .. 2
      /\ b[1] \in Byte /\ (n = 2 => b[2] \in Byte)
  <2>1. Next1 \in Byte /\ First \in Byte
    BY <1>2 DEF First, Byte, Char
  <2> QED
    BY <2>1
<1>4. message_length + n <= N
  BY RingPlaces DEF PutChar, WouldOverflow, N
<1>5. /\ message_buf' = [i \in Index |->
                           IF i = Wrap(message_producer + 1 - 1) THEN b[1]
                           ELSE IF Paired /\ i = Wrap(message_producer + 2 - 1)
                                THEN b[2] ELSE message_buf[i]]
      /\ message_producer' = Wrap(message_producer + (Len(b) + 1) - 1)
      /\ message_length' = message_length + Len(b)
      /\ task' = [task EXCEPT !.rest = Tail(rest)]
      /\ UNCHANGED <<message_consumer, net_dead, flushing, wire, held, written>>
  BY DEF PutChar, Wrap, N
<1> HIDE DEF b, n, rest
<1>6. /\ message_producer + 1 - 1 = message_producer
      /\ message_producer + 2 - 1 = message_producer + 1
      /\ message_producer + (Len(b) + 1) - 1 = message_producer + n
  BY <1>3, RingPlaces
<1>7. /\ \A i \in Index :
           message_buf'[i] = IF i = Wrap(message_producer) THEN b[1]
                             ELSE IF n = 2 /\ i = Wrap(message_producer + 1)
                                  THEN b[2] ELSE message_buf[i]
      /\ message_producer' = Wrap(message_producer + n)
      /\ message_length' = message_length + n
  BY <1>3, <1>5, <1>6 DEF n
<1>8. /\ message_buf \in [Index -> Byte] /\ message_consumer \in 0 .. N - 1
      /\ message_length \in 0 .. N
      /\ message_producer = Wrap(message_consumer + message_length)
  BY RingPlaces DEF RingInv, OutputTypeOK, Wrap, N
<1>9. message_buf' \in [Index -> Byte]
  <2>1. \A i \in Index : message_buf'[i] \in Byte
    BY <1>3, <1>7, <1>8
  <2> QED
    BY <1>5, <2>1
<1>10. /\ Ring(message_buf', message_consumer, message_length + n)
            = Ring(message_buf, message_consumer, message_length) \o b
       /\ message_producer' \in Index
       /\ message_producer' = Wrap(message_consumer + (message_length + n))
  <2>1. /\ Ring(message_buf', message_consumer, message_length + n)
             = Ring(message_buf, message_consumer, message_length) \o b
        /\ Wrap(message_producer + n) \in Index
        /\ Wrap(message_producer + n)
             = Wrap(message_consumer + (message_length + n))
    <3>1. Puts(message_buf', message_buf, message_consumer, message_length,
               message_producer, b, n)
      BY <1>3, <1>4, <1>7, <1>8, <1>9 DEF Puts
    <3> QED
      BY <3>1, RingGrows
  <2> QED
    BY <1>7, <2>1
<1>11. message_length' \in 0 .. N
  BY <1>3, <1>4, <1>7, <1>8, RingPlaces
<1>12. RingInv'
  <2>1. task' \in [kind : {"none", "text", "vtext", "binary"}, rest : Seq(Char)]
        /\ task'.kind = task.kind
    BY <1>1, <1>2, <1>5
  <2>2. message_producer' = (message_consumer' + message_length') % N
    BY <1>5, <1>7, <1>10 DEF Wrap
  <2>3. OutputTypeOK'
    BY <1>5, <1>9, <1>10, <1>11, <2>1, <2>2 DEF RingInv, OutputTypeOK, N, Char
  <2>4. WritersWait'
    BY <1>1, <1>5, <2>1 DEF WritersWait
  <2> QED
    BY <2>3, <2>4 DEF RingInv
<1>13. RingStep
  <2>1. Queue' = Queue \o b
    <3>1. Queue' = Ring(message_buf', message_consumer', message_length')
      BY DEF Queue, Ring, Wrap, N
    <3> QED
      BY <1>5, <1>7, <1>10, <3>1, QueueIsRing
  <2>2. task.rest # <<>> /\ offer = task /\ task # NoTask
    BY <1>1 DEF offer, rest, NoTask
  <2>3. b = Abstract!Bytes(task.kind, Head(task.rest))
    BY <1>1, <1>2 DEF b, Abstract!Bytes, Paired, First, Next1, Char
  <2>4. Len(Queue) + Len(b) <= MESSAGE_BUF_SIZE
    <3>1. Len(Queue) = message_length
      BY <1>8, QueueIsRing, RingIsSeq
    <3> QED
      BY <1>3, <1>4, <3>1 DEF N
  <2>5. offer' = IF Len(task.rest) = 1 THEN NoTask
                 ELSE [task EXCEPT !.rest = Tail(@)]
    <3>1. task'.rest = Tail(rest) /\ task' = [task EXCEPT !.rest = Tail(rest)]
      BY <1>1, <1>5
    <3>2. Len(rest) = 1 <=> Len(Tail(rest)) = 0
      BY <1>2
    <3>3. Len(Tail(rest)) = 0 <=> Tail(rest) = <<>>
      BY <1>2, EmptySeq
    <3> QED
      BY <3>1, <3>2, <3>3 DEF offer, rest
  <2>6. Abstract!Take
    BY <1>1, <1>5, <2>1, <2>2, <2>3, <2>4, <2>5
      DEF Abstract!Take, Abstract!Fits, Abstract!Next1, Abstract!NoOffer,
          offer, NoTask
  <2> QED
    BY <2>6 DEF RingStep, Abstract!Next
<1> QED
  BY <1>12, <1>13

LEMMA SendSomeKeeps ==
  ASSUME RingInv, SendSome
  PROVE  RingInv' /\ RingStep
<1>1. PICK n :
        /\ n \in 1 .. SmallerOf(Segment, Room - held)
        /\ wire' = wire \o [k \in 1 .. n |->
                              message_buf[Wrap(message_consumer + k - 1)]]
        /\ message_consumer' = Wrap(message_consumer + n)
        /\ message_length' = message_length - n
        /\ held' = held + n
  BY DEF SendSome, Wrap, N
<1>2. /\ flushing # "no" /\ message_length # 0
      /\ UNCHANGED <<message_buf, message_producer, net_dead, task, flushing,
                     written>>
  BY DEF SendSome, Sending
<1>3. Room \in Nat /\ held \in 0 .. Room
  BY OutputAssumption DEF RingInv, OutputTypeOK
<1>4. n \in 1 .. message_length /\ message_consumer + n <= N
      /\ held + n \in 0 .. Room
  BY <1>1, <1>2, <1>3, SegmentIsHeld, RingPlaces DEF SmallerOf
<1>5. Gives(message_buf, message_consumer, message_length, n)
  <2>1. message_buf \in [Index -> Byte]
    BY DEF RingInv, OutputTypeOK
  <2> QED
    BY <1>4, <2>1, RingPlaces DEF Gives
<1> DEFINE c == message_consumer
           len == message_length
<1>6. /\ Ring(message_buf, c, n) = SubSeq(Ring(message_buf, c, len), 1, n)
      /\ Ring(message_buf, Wrap(c + n), len - n)
           = SubSeq(Ring(message_buf, c, len), n + 1, len)
      /\ Wrap(c + n) \in Index
      /\ Wrap(c + len) = Wrap(Wrap(c + n) + (len - n))
  BY <1>5, RingShrinks
<1>7. /\ Queue \in Seq(Byte) /\ Len(Queue) = len
      /\ Ring(message_buf, c, n) \in Seq(Byte)
  <2>1. /\ message_buf \in [Index -> Byte] /\ c \in 0 .. N - 1
        /\ len \in 0 .. N /\ n \in 0 .. N
    BY <1>4, RingPlaces DEF RingInv, OutputTypeOK
  <2> QED
    BY <2>1, RingIsSeq, QueueIsRing
<1>8. wire' = wire \o Ring(message_buf, c, n)
  BY <1>1 DEF Ring
<1>9. Queue' = Ring(message_buf, Wrap(c + n), len - n)
  BY <1>1, <1>2 DEF Queue, Ring, Wrap, N
<1>10. RingInv'
  <2>1. wire' \in Seq(Byte)
    BY <1>7, <1>8, ConcatProperties DEF RingInv, OutputTypeOK
  <2>2. message_length' \in 0 .. N
    BY <1>1, <1>4, RingPlaces
  <2>3. message_producer' = (message_consumer' + message_length') % N
    BY <1>1, <1>2, <1>6 DEF RingInv, OutputTypeOK, Wrap, N
  <2>4. OutputTypeOK'
    BY <1>1, <1>2, <1>4, <1>6, <2>1, <2>2, <2>3 DEF RingInv, OutputTypeOK, N
  <2>5. WritersWait'
    BY <1>2 DEF RingInv, WritersWait
  <2> QED
    BY <2>4, <2>5 DEF RingInv
<1>11. RingStep
  <2>1. /\ wire' = wire \o SubSeq(Queue, 1, n)
        /\ Queue' = SubSeq(Queue, n + 1, Len(Queue))
        /\ n \in 1 .. Len(Queue)
    BY <1>4, <1>6, <1>7, <1>8, <1>9, QueueIsRing
  <2>2. ~net_dead
    BY <1>2 DEF RingInv, WritersWait
  <2>3. Abstract!Deliver(n)
    BY <1>2, <2>1, <2>2 DEF Abstract!Deliver
  <2> QED
    BY <2>1, <2>3 DEF RingStep, Abstract!Next, Abstract!DeliverSome
<1> QED
  BY <1>10, <1>11

(* Steps that leave the ring and the wire alone: the message being written *)
(* may end, and the link may break.                                        *)
LEMMA RestKeeps ==
  ASSUME RingInv, UNCHANGED <<ring, wire>>,
         task' \in [kind : {"none", "text", "vtext", "binary"},
                   rest : Seq({"x", "nl", "iac"})],
         net_dead' \in BOOLEAN, held' \in 0 .. Room, UNCHANGED written,
         flushing' \in {"no", "full", "pair", "end", "flush", "remove"},
         WritersWait'
  PROVE  RingInv'
BY DEF RingInv, OutputTypeOK, ring

LEMMA RingIsFullKeeps ==
  ASSUME RingInv, RingIsFull
  PROVE  RingInv' /\ RingStep
<1>1. /\ task.rest # <<>> /\ flushing' \in {"full", "pair"} /\ ~net_dead
      /\ UNCHANGED <<ring, net_dead, task, wire, held, written>>
  BY DEF RingIsFull, Writing, WouldOverflow, RingInv, WritersWait, NoTask
<1>2. WritersWait'
  BY <1>1 DEF RingInv, WritersWait
<1>3. RingInv'
  BY <1>1, <1>2, RestKeeps DEF RingInv, OutputTypeOK
<1>4. RingStep
  BY <1>1, SameRing, Unseen DEF offer
<1> QED
  BY <1>3, <1>4

LEMMA EndOfMessageKeeps ==
  ASSUME RingInv, EndOfMessage
  PROVE  RingInv' /\ RingStep
<1>1. /\ task # NoTask /\ task.rest = <<>> /\ task' = NoTask
      /\ flushing' \in {"no", "end"}
      /\ UNCHANGED <<ring, net_dead, wire, held, written>>
  BY DEF EndOfMessage
<1>2. NoTask \in [kind : {"none", "text", "vtext", "binary"},
                 rest : Seq({"x", "nl", "iac"})]
  BY DEF NoTask
<1>3. WritersWait'
  BY <1>1 DEF RingInv, WritersWait
<1>4. RingInv'
  BY <1>1, <1>2, <1>3, RestKeeps DEF RingInv, OutputTypeOK
<1>5. RingStep
  BY <1>1, SameRing, Unseen DEF offer
<1> QED
  BY <1>4, <1>5

LEMMA StartKeeps ==
  ASSUME RingInv, Flush \/ RemoveInteractive
  PROVE  RingInv' /\ RingStep
<1>1. /\ task = NoTask /\ ~net_dead /\ flushing' \in {"flush", "remove"}
      /\ UNCHANGED <<ring, net_dead, task, wire, held, written>>
  BY DEF Flush, RemoveInteractive
<1>2. WritersWait'
  BY <1>1 DEF RingInv, WritersWait
<1>3. RingInv'
  BY <1>1, <1>2, RestKeeps DEF RingInv, OutputTypeOK
<1>4. RingStep
  BY <1>1, SameRing, Unseen DEF offer
<1> QED
  BY <1>3, <1>4

(* The link breaks with what is queued and what is not taken.              *)
LEMMA BreakIsStep ==
  ASSUME ~net_dead, net_dead' = TRUE, task' = NoTask, UNCHANGED <<ring, wire>>
  PROVE  RingStep
<1>1. Abstract!Break
  BY SameRing DEF Abstract!Break, Abstract!NoOffer, NoTask
<1> QED
  BY <1>1 DEF RingStep, Abstract!Next

LEMMA BreakKeeps ==
  ASSUME RingInv, ~net_dead, net_dead' = TRUE, flushing' = "no", task' = NoTask,
         UNCHANGED <<ring, wire, held, written>>
  PROVE  RingInv' /\ RingStep
<1>1. NoTask \in [kind : {"none", "text", "vtext", "binary"},
                 rest : Seq({"x", "nl", "iac"})]
  BY DEF NoTask
<1>2. WritersWait'
  BY DEF WritersWait
<1>3. RingInv'
  BY <1>1, <1>2, RestKeeps DEF RingInv, OutputTypeOK
<1> QED
  BY <1>3, BreakIsStep

LEMMA LinkCutKeeps ==
  ASSUME RingInv, DestructUser
  PROVE  RingInv' /\ RingStep
BY BreakKeeps DEF DestructUser

LEMMA LinkBreaksKeeps ==
  ASSUME RingInv, LinkBreaks
  PROVE  RingInv' /\ RingStep
<1>1. ~net_dead
  BY DEF LinkBreaks, Sending, RingInv, WritersWait
<1> QED
  BY <1>1, BreakKeeps DEF LinkBreaks

(* flush_message() returns: to a writer that finds no more room than       *)
(* before, to remove_interactive(), or to one that goes on.                *)
LEMMA Return1Keeps ==
  ASSUME RingInv, flushing # "no", Return1
  PROVE  RingInv' /\ RingStep
<1>0. /\ OutputTypeOK /\ ~net_dead /\ flushing' = "no"
      /\ UNCHANGED <<ring, wire, held, written>>
      /\ net_dead' = (net_dead \/ flushing = "remove")
  BY DEF Return1, RingInv, WritersWait
<1>1. CASE flushing = WouldOverflow /\ flushing \in {"full", "pair"}
  <2>1. /\ task' = [task EXCEPT !.rest = <<>>] /\ ~net_dead'
        /\ task.rest # <<>> /\ task.kind \in {"text", "vtext", "binary"}
        /\ task \in [kind : {"none", "text", "vtext", "binary"},
                     rest : Seq({"x", "nl", "iac"})]
    BY <1>0, <1>1 DEF Return1, RingInv, OutputTypeOK, WritersWait, NoTask
  <2>2. /\ task' \in [kind : {"none", "text", "vtext", "binary"},
                      rest : Seq({"x", "nl", "iac"})]
        /\ task'.kind = task.kind /\ task'.rest = <<>>
    BY <2>1, EmptySeq
  <2>3. WritersWait'
    BY <1>0, <2>1, <2>2 DEF WritersWait
  <2>4. RingInv'
    BY <1>0, <2>1, <2>2, <2>3, RestKeeps DEF OutputTypeOK
  <2>5. RingStep
    <3>1. Next1 \in Char /\ Char \subseteq Byte
      BY <2>1, HeadTailProperties DEF Next1, Char, Byte
    <3>2. Abstract!Bytes(task.kind, Head(task.rest))
            = IF Paired THEN <<First, Next1>> ELSE <<Next1>>
      BY <2>1, <3>1 DEF Abstract!Bytes, Paired, First, Next1, Char
    <3>3. Len(Abstract!Bytes(task.kind, Head(task.rest)))
            = IF Paired THEN 2 ELSE 1
      BY <3>2
    <3>4. Len(Queue) = message_length /\ message_length \in 0 .. N
          /\ N \in Nat
      BY <1>0, RingPlaces, QueueIsRing, RingIsSeq DEF OutputTypeOK, N
    <3>5. ~(Len(Queue) + Len(Abstract!Bytes(task.kind, Head(task.rest)))
              <= MESSAGE_BUF_SIZE)
      BY <1>1, <3>3, <3>4 DEF WouldOverflow, N
    <3>6. UNCHANGED Queue
      BY <1>0, SameRing
    <3>7. Abstract!Cut
      BY <1>0, <2>1, <2>2, <3>5, <3>6
        DEF Abstract!Cut, Abstract!Fits, Abstract!Next1, Abstract!NoOffer,
            NoTask
    <3> QED
      BY <3>7 DEF RingStep, Abstract!Next
  <2> QED
    BY <2>4, <2>5
<1>2. CASE flushing = "remove"
  <2>1. task' = NoTask
    BY <1>2 DEF Return1, RingInv, WritersWait
  <2> QED
    BY <1>0, <1>2, <2>1, BreakKeeps
<1>3. CASE flushing # "remove"
           /\ ~(flushing = WouldOverflow /\ flushing \in {"full", "pair"})
  <2>1. task' = task /\ ~net_dead' /\ net_dead' = net_dead
    BY <1>0, <1>3 DEF Return1, OutputTypeOK
  <2>2. WritersWait'
    BY <1>0, <2>1 DEF RingInv, WritersWait
  <2>3. RingInv'
    BY <1>0, <2>1, <2>2, RestKeeps DEF OutputTypeOK
  <2>4. RingStep
    BY <1>0, <2>1, SameRing, Unseen DEF offer
  <2> QED
    BY <2>3, <2>4
<1> QED
  BY <1>1, <1>2, <1>3

LEMMA QuietKeeps ==
  ASSUME RingInv, UNCHANGED <<ring, net_dead, task, flushing, wire, written>>,
         held' \in 0 .. Room
  PROVE  RingInv' /\ RingStep
<1>1. WritersWait'
  BY DEF RingInv, WritersWait
<1>2. RingInv'
  BY <1>1, RestKeeps DEF RingInv, OutputTypeOK
<1>3. RingStep
  BY SameRing, Unseen DEF offer
<1> QED
  BY <1>2, <1>3

-----------------------------------------------------------------------------
LEMMA RingStarts == OutputInit => RingInv /\ Abstract!Init
<1> SUFFICES ASSUME OutputInit PROVE RingInv /\ Abstract!Init
  OBVIOUS
<1>1. /\ N \in Nat /\ N > 1 /\ Index = 0 .. N - 1 /\ 0 % N = 0
      /\ Room \in Nat /\ MaxMessages \in Nat
  BY OutputAssumption DEF N, Index
<1>2. OutputTypeOK
  <2>1. message_buf \in [Index -> Byte] /\ NoTask.rest = <<>>
    BY DEF OutputInit, Byte, NoTask
  <2>2. <<>> \in Seq(Byte) /\ <<>> \in Seq({"x", "nl", "iac"})
    BY EmptySeq
  <2> QED
    <3>1. /\ message_producer = 0 /\ message_consumer = 0
          /\ message_length = 0 /\ 0 \in Index /\ 0 \in 0 .. N
      BY <1>1 DEF OutputInit
    <3>2. message_producer = (message_consumer + message_length) % N
      BY <1>1, <3>1
    <3>3. task \in [kind : {"none", "text", "vtext", "binary"},
                   rest : Seq({"x", "nl", "iac"})]
      BY <2>2 DEF OutputInit, NoTask
    <3>4. wire \in Seq(Byte) /\ held \in 0 .. Room /\ written \in 0 .. MaxMessages
      BY <1>1, <2>2 DEF OutputInit
    <3> QED
      BY <2>1, <3>1, <3>2, <3>3, <3>4 DEF OutputInit, OutputTypeOK, N
<1>3. WritersWait
  BY DEF OutputInit, WritersWait
<1>4. Queue = <<>>
  BY DEF OutputInit, Queue
<1>5. Abstract!Init
  BY <1>4 DEF OutputInit, Abstract!Init, Abstract!NoOffer, NoTask
<1> QED
  BY <1>2, <1>3, <1>5 DEF RingInv

LEMMA RingStepKeeps == RingInv /\ [OutputNext]_outputVars => RingInv' /\ RingStep
<1> SUFFICES ASSUME RingInv, [OutputNext]_outputVars PROVE RingInv' /\ RingStep
  OBVIOUS
<1>1. CASE Write
  BY <1>1, AddKeeps DEF Write, AddMessage, AddVmessage, AddBinaryMessage
<1>2. CASE WriterGoesOn
  <2>1. CASE FlushEnds
    BY <2>1, Return1Keeps DEF FlushEnds
  <2> QED
    BY <1>2, <2>1, RingIsFullKeeps, PutCharKeeps, EndOfMessageKeeps DEF WriterGoesOn
<1>3. CASE Flush \/ RemoveInteractive
  BY <1>3, StartKeeps
<1>4. CASE DestructUser
  BY <1>4, LinkCutKeeps
<1>5. CASE SendSome
  BY <1>5, SendSomeKeeps
<1>6. CASE FlushStops
  BY <1>6, Return1Keeps DEF FlushStops, Sending
<1>7. CASE LinkBreaks
  BY <1>7, LinkBreaksKeeps
<1>8. CASE ClientReads
  <2>1. 0 \in 0 .. Room
    BY OutputAssumption
  <2> QED
    BY <1>8, <2>1, QuietKeeps DEF ClientReads
<1>9. CASE UNCHANGED outputVars
  BY <1>9, QuietKeeps DEF outputVars, RingInv, OutputTypeOK
<1>10. CASE Done
  BY <1>9, <1>10 DEF Done
<1> QED
  BY <1>1, <1>2, <1>3, <1>4, <1>5, <1>6, <1>7, <1>8, <1>9, <1>10 DEF OutputNext

LEMMA RingHolds == OutputSpec => []RingInv
<1>1. RingInv /\ [OutputNext]_outputVars => RingInv'
  BY RingStepKeeps
<1> QED
  BY RingStarts, <1>1, PTL DEF OutputSpec

(* Every state has its types, and the producer is where the consumer and   *)
(* the length say.                                                         *)
THEOREM RingTypes == OutputSpec => []OutputTypeOK
<1>1. RingInv => OutputTypeOK
  BY DEF RingInv
<1> QED
  BY RingHolds, <1>1, PTL

(* The ring is a bounded first-in first-out stream: a run of Output is a   *)
(* run of Stream, but for its fairness (add_message(), add_vmessage(),     *)
(* add_binary_message(), flush_message()).                                 *)
THEOREM ImplementsStream ==
  OutputSpec => Abstract!Init /\ [][Abstract!Next]_(Abstract!vars)
<1>1. RingInv /\ [OutputNext]_outputVars => [Abstract!Next]_(Abstract!vars)
  BY RingStepKeeps DEF RingStep
<1> QED
  BY RingStarts, RingHolds, <1>1, PTL DEF OutputSpec
=============================================================================
