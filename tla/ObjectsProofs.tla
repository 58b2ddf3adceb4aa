----------------------------- MODULE ObjectsProofs -----------------------------
(***************************************************************************)
(* For any objects, any depth of calls and any number of efuns: the types  *)
(* of Objects are kept, inventories and environments agree, shadows are    *)
(* linked both ways, actions are of objects nearby, and restrict_destruct  *)
(* is what the innermost move_or_destruct() asks for.                      *)
(***************************************************************************)
EXTENDS Objects, FiniteSetTheorems, SequenceTheorems, WellFoundedInduction,
        TLAPS

Types ==
  /\ super \in [Objects -> Pointer]
  /\ inv \in [Objects -> Seq(Objects)]
  /\ shadowing \in [Objects -> Pointer]
  /\ shadowed \in [Objects -> Pointer]
  /\ living \subseteq Users
  /\ sent \in [Objects -> SUBSET Sentence]
  /\ destructed \subseteq Objects
  /\ restrict_destruct \in Pointer
  /\ command_giver \in Pointer
  /\ caught \in BOOLEAN

Once(list) == \A i, j \in DOMAIN list : list[i] = list[j] => i = j

Listed == \A o \in Objects : super[o] # NoObject => o \in ToSet(inv[super[o]])
Placed == \A o \in Objects : \A p \in ToSet(inv[o]) : super[p] = o
NoneTwice == \A o \in Objects : Once(inv[o])
GoneNowhere ==
  \A o \in destructed : super[o] = NoObject /\ inv[o] = <<>>

Places == Listed /\ Placed /\ NoneTwice /\ GoneNowhere /\ Acyclic(super)

(* Both directions of a chain end: with finitely many objects either       *)
(* follows from the other.                                                 *)
Linked == \A o, p \in Objects : shadowing[o] = p <=> shadowed[p] = o
ShadowsNowhere ==
  \A o \in Objects : shadowing[o] # NoObject => super[o] = NoObject

Chains ==
  /\ Linked /\ ShadowsNowhere
  /\ Acyclic(shadowing) /\ Acyclic(shadowed)

(* A user who is not living has, of those that must go, only actions of    *)
(* its own: disable_commands() took the others.                            *)
Actions ==
  \A u \in Objects \ destructed : \A s \in sent[u] : ~s.loose =>
    /\ s.ob \notin destructed
    /\ Near(u, s.ob)
    /\ u \notin living => s.ob = u

(* The innermost move_or_destruct() among the first n frames is for r, or  *)
(* there is none.                                                          *)
Asks(fr, n, r) ==
  \/ r = NoObject /\ \A i \in 1 .. n : fr[i].in # "moved"
  \/ \E i \in 1 .. n :
       /\ fr[i].in = "moved" /\ fr[i].otmp = r
       /\ \A j \in i + 1 .. n : fr[j].in # "moved"

(* Once an error was caught the restriction may have been lifted.          *)
Owed(fr, n, r, c) == Asks(fr, n, r) \/ (c /\ r = NoObject)

Saves(f) == f.in \in {"contents", "moved"}

Well(fr, r, c) ==
  /\ fr \in Seq(Frame)
  /\ Owed(fr, Len(fr), r, c)
  /\ \A k \in DOMAIN fr :
       /\ Saves(fr[k]) => Owed(fr, k - 1, fr[k].save, c)
       /\ fr[k].in = "moved" => fr[k].otmp # NoObject

Core ==
  /\ Types /\ Places /\ Chains /\ Actions
  /\ Well(frames, restrict_destruct, caught)

IInv == Core /\ efuns \in 0 .. MaxEfuns

-----------------------------------------------------------------------------
(* What the invariant says.                                                *)
LEMMA IInvIsTyped == IInv => TypeOK
BY DEF IInv, Core, Types, Well, TypeOK

(* A list in which nothing is twice is as long as the set of its members.  *)
LEMMA OnceIsLong ==
  ASSUME NEW S, NEW list \in Seq(S), Once(list)
  PROVE  Cardinality(ToSet(list)) = Len(list)
<1> DEFINE D == 1 .. Len(list)
           f == [i \in D |-> list[i]]
<1>1. Len(list) \in Nat /\ DOMAIN list = D
  BY LenProperties
<1>2. IsFiniteSet(D) /\ Cardinality(D) = Len(list)
  BY <1>1, FS_Interval
<1>3. f \in Bijection(D, ToSet(list))
  <2>1. f \in [D -> ToSet(list)]
    BY <1>1 DEF ToSet
  <2>2. \A a, b \in D : f[a] = f[b] => a = b
    BY <1>1 DEF Once
  <2>3. \A t \in ToSet(list) : \E s \in D : f[s] = t
    BY <1>1 DEF ToSet
  <2> HIDE DEF f, D
  <2> QED
    BY <2>1, <2>2, <2>3 DEF Bijection, Injection, Surjection, IsInjective
<1> HIDE DEF f, D
<1>4. ExistsBijection(D, ToSet(list))
  BY <1>3 DEF ExistsBijection
<1> QED
  BY <1>2, <1>4, FS_Bijection

LEMMA IInvPlaces == IInv => InventoryMatches
<1> SUFFICES ASSUME IInv PROVE InventoryMatches
  OBVIOUS
<1>1. ASSUME NEW o \in Objects
      PROVE  Cardinality(ToSet(inv[o])) = Len(inv[o])
  BY OnceIsLong DEF IInv, Core, Types, Places, NoneTwice
<1> QED
  BY <1>1 DEF IInv, Core, Places, Listed, Placed, GoneNowhere, InventoryMatches

LEMMA IInvChains == IInv => ShadowsMatch
BY DEF IInv, Core, Chains, Linked, ShadowsNowhere, ShadowsMatch

LEMMA IInvActions == IInv => ActionsAreNear
BY DEF IInv, Core, Actions, ActionsAreNear

LEMMA IInvRestricts == IInv => RestrictMatches
<1> SUFFICES ASSUME IInv, ~caught PROVE RestrictMatches
  BY DEF RestrictMatches
<1> DEFINE asked == {i \in DOMAIN frames : frames[i].in = "moved"}
<1>1. /\ frames \in Seq(Frame) /\ Len(frames) \in Nat
      /\ DOMAIN frames = 1 .. Len(frames)
      /\ Asks(frames, Len(frames), restrict_destruct)
  BY LenProperties DEF IInv, Core, Well, Owed
<1>2. CASE asked = {}
  <2>1. restrict_destruct = NoObject
    BY <1>1, <1>2 DEF Asks
  <2> QED
    BY <1>2, <2>1 DEF RestrictMatches
<1>3. CASE asked # {}
  <2>1. PICK i \in 1 .. Len(frames) :
          /\ frames[i].in = "moved" /\ frames[i].otmp = restrict_destruct
          /\ \A j \in i + 1 .. Len(frames) : frames[j].in # "moved"
    BY <1>1, <1>3 DEF Asks
  <2>2. i \in asked /\ \A j \in asked : j <= i
    BY <1>1, <2>1
  <2>3. \A k \in asked : (\A j \in asked : j <= k) => k = i
    <3>1. asked \subseteq Nat
      BY <1>1
    <3> HIDE DEF asked
    <3> QED
      BY <2>2, <3>1
  <2> DEFINE c == CHOOSE k \in asked : \A j \in asked : j <= k
  <2>4. c = i
    <3> HIDE DEF asked
    <3> QED
      BY <2>2, <2>3
  <2>5. restrict_destruct = IF asked = {} THEN NoObject ELSE frames[c].otmp
    <3> HIDE DEF asked, c
    <3> QED
      BY <1>3, <2>1, <2>4
  <2> QED
    BY <2>5, Zenon DEF RestrictMatches
<1> QED
  BY <1>2, <1>3

-----------------------------------------------------------------------------
(* Links *)

(* Following a link without a cycle from an object one comes to an end.    *)
LEMMA EndOf ==
  ASSUME NEW link \in [Objects -> Pointer], Acyclic(link), NEW o \in Objects
  PROVE  /\ End(link, o) \in Objects
         /\ End(link, o) \in Reached(link, o)
         /\ link[End(link, o)] = NoObject
<1> DEFINE R == Reached(link, o)
<1>1. R \subseteq Objects /\ o \in R
  BY DEF Reached
<1>2. ASSUME NEW p \in R, link[p] # NoObject PROVE link[p] \in R
  <2>1. p \in Objects /\ link[p] \in Objects
    BY <1>1, <1>2 DEF Pointer
  <2>2. ASSUME NEW S \in SUBSET Objects, o \in S,
               \A q \in S : link[q] \in S \union {NoObject}
        PROVE  link[p] \in S
    <3>1. p \in S
      BY <2>2 DEF Reached
    <3> QED
      BY <1>2, <2>2, <3>1
  <2> QED
    BY <2>1, <2>2 DEF Reached
<1> HIDE DEF R
<1>3. PICK p \in R : link[p] \notin R
  BY <1>1 DEF Acyclic
<1>4. \E q \in R : link[q] = NoObject
  BY <1>2, <1>3
<1>5. End(link, o) \in R /\ link[End(link, o)] = NoObject
  BY <1>4 DEF End, R
<1> QED
  BY <1>1, <1>5 DEF R

(* No cycle comes of dropping links, and of bypassing one object.          *)
LEMMA BypassIsAcyclic ==
  ASSUME NEW link \in [Objects -> Pointer], Acyclic(link),
         NEW new \in [Objects -> Pointer], NEW o \in Objects,
         \A p \in Objects :
           \/ new[p] \in {NoObject, link[p]}
           \/ link[p] = o /\ new[p] = link[o]
  PROVE  Acyclic(new)
<1> SUFFICES ASSUME NEW S \in SUBSET Objects, S # {},
                    \A p \in S : new[p] \in S
             PROVE  FALSE
  BY DEF Acyclic
<1>1. \A p \in S : new[p] # NoObject
  BY ObjectsAssumption
<1>2. CASE \E p \in S : link[p] = o /\ new[p] = link[o]
  <2> DEFINE T == S \union {o}
  <2>1. link[o] \in T
    BY <1>2
  <2>2. \A p \in S : link[p] \in T
    BY <1>1
  <2>3. T \in SUBSET Objects /\ T # {} /\ \A p \in T : link[p] \in T
    BY <2>1, <2>2
  <2> HIDE DEF T
  <2> QED
    BY <2>3 DEF Acyclic
<1>3. CASE ~\E p \in S : link[p] = o /\ new[p] = link[o]
  <2>1. \A p \in S : link[p] \in S
    BY <1>1, <1>3
  <2> QED
    BY <2>1 DEF Acyclic
<1> QED
  BY <1>2, <1>3

(* An object is linked to one from which it is not reached.                *)
LEMMA LinkIsAcyclic ==
  ASSUME NEW link \in [Objects -> Pointer], Acyclic(link),
         NEW o \in Objects, NEW d \in Objects, o \notin Reached(link, d)
  PROVE  Acyclic([link EXCEPT ![o] = d])
<1> DEFINE new == [link EXCEPT ![o] = d]
<1> SUFFICES ASSUME NEW S \in SUBSET Objects, S # {},
                    \A p \in S : new[p] \in S
             PROVE  FALSE
  BY DEF Acyclic
<1>1. \A p \in S : p # o => link[p] \in S
  OBVIOUS
<1>2. CASE o \notin S
  <2>1. \A p \in S : link[p] \in S
    BY <1>1, <1>2
  <2> QED
    BY <2>1 DEF Acyclic
<1>3. CASE o \in S
  <2>1. d \in S
    BY <1>3
  <2>2. PICK V \in SUBSET Objects :
          /\ d \in V /\ o \notin V
          /\ \A q \in V : link[q] \in V \union {NoObject}
    BY DEF Reached
  <2> DEFINE T == S \intersect V
  <2>3. \A p \in T : link[p] \in T
    <3> SUFFICES ASSUME NEW p \in T PROVE link[p] \in S /\ link[p] \in V
      OBVIOUS
    <3>1. link[p] \in S
      BY <1>1, <2>2
    <3>2. link[p] # NoObject
      BY <3>1, ObjectsAssumption
    <3> QED
      BY <2>2, <3>1, <3>2
  <2>4. T \in SUBSET Objects /\ d \in T
    BY <2>1, <2>2
  <2> HIDE DEF T
  <2> QED
    BY <2>3, <2>4 DEF Acyclic
<1> QED
  BY <1>2, <1>3

-----------------------------------------------------------------------------
(* Lists *)

LEMMA ListWithout ==
  ASSUME NEW S, NEW s \in Seq(S), Once(s), NEW o \in ToSet(s)
  PROVE  LET t == RemoveAt(s, CHOOSE p \in DOMAIN s : s[p] = o) IN
         t \in Seq(S) /\ ToSet(t) = ToSet(s) \ {o} /\ Once(t)
<1> DEFINE n == Len(s)
           c == CHOOSE p \in DOMAIN s : s[p] = o
           t == RemoveAt(s, c)
<1>1. n \in Nat /\ DOMAIN s = 1 .. n /\ \A k \in 1 .. n : s[k] \in S
  BY LenProperties, ElementOfSeq
<1>2. c \in 1 .. n /\ s[c] = o
  <2>1. \E p \in DOMAIN s : s[p] = o
    BY DEF ToSet
  <2> QED
    BY <1>1, <2>1
<1> HIDE DEF c
<1> DEFINE a == SubSeq(s, 1, c - 1)
           b == SubSeq(s, c + 1, n)
<1>3. a \in Seq(S) /\ Len(a) = c - 1 /\ \A k \in 1 .. c - 1 : a[k] = s[k]
  BY <1>1, <1>2, SubSeqProperties
<1>4. b \in Seq(S) /\ Len(b) = n - c /\ \A k \in 1 .. n - c : b[k] = s[c + k]
  <2>1. \A k \in c + 1 .. n : s[k] \in S
    BY <1>1, <1>2
  <2>2. c + 1 \in Int /\ n \in Int
    BY <1>1, <1>2
  <2>3. /\ b \in Seq(S)
        /\ Len(b) = IF c + 1 <= n THEN n - (c + 1) + 1 ELSE 0
        /\ \A k \in 1 .. n - (c + 1) + 1 : b[k] = s[c + 1 + k - 1]
    BY <1>1, <1>2, <2>1, <2>2, SubSeqProperties
  <2> HIDE DEF b, n
  <2>4. n - (c + 1) + 1 = n - c /\ (~(c + 1 <= n) => n - c = 0)
    BY <1>1, <1>2
  <2>5. \A k \in 1 .. n - c : c + 1 + k - 1 = c + k
    BY <1>1, <1>2
  <2>6. Len(b) = n - c
    BY <2>3, <2>4
  <2>7. \A k \in 1 .. n - c : b[k] = s[c + k]
    BY <2>3, <2>4, <2>5
  <2> QED
    BY <2>3, <2>6, <2>7
<1>5. t = a \o b
  BY DEF RemoveAt
<1> HIDE DEF a, b, t
<1>6. /\ t \in Seq(S) /\ Len(t) = n - 1
      /\ \A k \in 1 .. n - 1 : t[k] = IF k < c THEN s[k] ELSE s[k + 1]
  <2>1. t \in Seq(S) /\ Len(t) = Len(a) + Len(b)
        /\ \A k \in 1 .. Len(a) + Len(b) :
             t[k] = IF k <= Len(a) THEN a[k] ELSE b[k - Len(a)]
    BY <1>3, <1>4, <1>5, ConcatProperties
  <2>2. Len(a) + Len(b) = n - 1
    BY <1>1, <1>2, <1>3, <1>4
  <2>3. ASSUME NEW k \in 1 .. n - 1
        PROVE  t[k] = IF k < c THEN s[k] ELSE s[k + 1]
    <3>1. CASE k < c
      BY <1>1, <1>2, <1>3, <2>1, <2>2, <3>1
    <3>2. CASE ~(k < c)
      <4>1. t[k] = b[k - (c - 1)]
        BY <1>1, <1>2, <1>3, <2>1, <2>2, <3>2
      <4>2. k - (c - 1) \in 1 .. n - c /\ c + (k - (c - 1)) = k + 1
        BY <1>1, <1>2, <3>2
      <4> QED
        BY <1>4, <3>2, <4>1, <4>2
    <3> QED
      BY <3>1, <3>2
  <2> QED
    BY <2>1, <2>2, <2>3
<1>7. DOMAIN t = 1 .. n - 1
  BY <1>6, LenProperties
<1>8. ToSet(t) = ToSet(s) \ {o}
  <2>1. ASSUME NEW k \in 1 .. n - 1 PROVE t[k] \in ToSet(s) /\ t[k] # o
    <3>1. PICK m \in 1 .. n : m # c /\ t[k] = s[m]
      BY <1>1, <1>2, <1>6
    <3> QED
      BY <1>1, <1>2, <3>1 DEF ToSet, Once
  <2>2. ASSUME NEW m \in 1 .. n, m # c PROVE \E k \in 1 .. n - 1 : t[k] = s[m]
    <3>1. CASE m < c
      BY <1>1, <1>2, <1>6, <3>1
    <3>2. CASE m > c
      <4>1. m - 1 \in 1 .. n - 1 /\ ~(m - 1 < c) /\ m - 1 + 1 = m
        BY <1>1, <1>2, <3>2
      <4> QED
        BY <1>6, <4>1
    <3> QED
      BY <1>1, <1>2, <2>2, <3>1, <3>2
  <2>3. ToSet(t) = {t[k] : k \in 1 .. n - 1}
    BY <1>7 DEF ToSet
  <2>4. ToSet(s) = {s[k] : k \in 1 .. n}
    BY <1>1 DEF ToSet
  <2>5. \A x \in ToSet(t) : x \in ToSet(s) \ {o}
    BY <2>1, <2>3
  <2>6. \A x \in ToSet(s) \ {o} : x \in ToSet(t)
    <3> SUFFICES ASSUME NEW m \in 1 .. n, s[m] # o PROVE s[m] \in ToSet(t)
      BY <2>4
    <3>1. m # c
      BY <1>2
    <3> QED
      BY <2>2, <2>3, <3>1
  <2> QED
    BY <2>5, <2>6
<1>9. Once(t)
  <2> SUFFICES ASSUME NEW i \in 1 .. n - 1, NEW j \in 1 .. n - 1, t[i] = t[j]
               PROVE  i = j
    BY <1>7 DEF Once
  <2> DEFINE g(k) == IF k < c THEN k ELSE k + 1
  <2>1. g(i) \in 1 .. n /\ g(j) \in 1 .. n /\ t[i] = s[g(i)] /\ t[j] = s[g(j)]
    BY <1>1, <1>2, <1>6
  <2>2. g(i) = g(j)
    BY <1>1, <2>1 DEF Once
  <2> QED
    BY <1>1, <1>2, <2>2
<1> QED
  BY <1>6, <1>8, <1>9 DEF t, c

LEMMA ListWithFirst ==
  ASSUME NEW S, NEW s \in Seq(S), Once(s), NEW o \in S, o \notin ToSet(s)
  PROVE  LET t == <<o>> \o s IN
         t \in Seq(S) /\ ToSet(t) = ToSet(s) \union {o} /\ Once(t)
<1> DEFINE t == <<o>> \o s
           n == Len(s)
<1>1. n \in Nat /\ DOMAIN s = 1 .. n /\ <<o>> \in Seq(S) /\ Len(<<o>>) = 1
  BY LenProperties
<1>2. /\ t \in Seq(S) /\ Len(t) = 1 + n
      /\ \A k \in 1 .. 1 + n : t[k] = IF k <= 1 THEN <<o>>[k] ELSE s[k - 1]
  BY <1>1, ConcatProperties
<1> HIDE DEF t
<1>3. DOMAIN t = 1 .. 1 + n /\ t[1] = o /\ \A k \in 1 .. n : t[k + 1] = s[k]
  BY <1>1, <1>2, LenProperties
<1>4. \A k \in 1 .. 1 + n : k # 1 => k - 1 \in 1 .. n /\ t[k] = s[k - 1]
  BY <1>1, <1>2
<1>5. ToSet(t) = ToSet(s) \union {o}
  <2>1. ASSUME NEW k \in 1 .. 1 + n PROVE t[k] \in ToSet(s) \union {o}
    BY <1>1, <1>3, <1>4 DEF ToSet
  <2>2. ASSUME NEW k \in 1 .. n PROVE s[k] \in ToSet(t)
    BY <1>1, <1>3 DEF ToSet
  <2>3. o \in ToSet(t)
    BY <1>1, <1>3 DEF ToSet
  <2> QED
    BY <1>1, <1>3, <2>1, <2>2, <2>3 DEF ToSet
<1>6. Once(t)
  <2>1. \A k \in 1 .. n : s[k] # o
    BY <1>1 DEF ToSet
  <2> SUFFICES ASSUME NEW i \in 1 .. 1 + n, NEW j \in 1 .. 1 + n, t[i] = t[j]
               PROVE  i = j
    BY <1>3 DEF Once
  <2>2. CASE i = 1 \/ j = 1
    BY <1>3, <1>4, <2>1, <2>2
  <2>3. CASE i # 1 /\ j # 1
    <3>1. i - 1 = j - 1
      BY <1>1, <1>4, <2>3 DEF Once
    <3> QED
      BY <1>1, <3>1
  <2> QED
    BY <2>2, <2>3
<1> QED
  BY <1>2, <1>5, <1>6 DEF t

(* Every set of natural numbers that has a member has a least one.         *)
LEMMA LeastNumber ==
  ASSUME NEW T \in SUBSET Nat, T # {}
  PROVE  \E m \in T : \A k \in T : m <= k
<1> DEFINE R == StrictSubsetOrdering(Nat)
           F == FiniteSubsetsOf(Nat)
           V == {0 .. k : k \in T}
<1>1. IsWellFoundedOn(R, F)
  BY FS_StrictSubsetOrderingWellFounded
<1>2. V \subseteq F
  <2> SUFFICES ASSUME NEW k \in T PROVE 0 .. k \in F
    OBVIOUS
  <2>1. k \in Nat /\ IsFiniteSet(0 .. k) /\ 0 .. k \subseteq Nat
    BY FS_Interval
  <2> QED
    BY <2>1 DEF FiniteSubsetsOf
<1>3. V # {}
  OBVIOUS
<1>4. PICK v \in V : \A w \in V : ~(<<w, v>> \in R)
  <2> HIDE DEF R, F, V
  <2> QED
    BY <1>1, <1>2, <1>3, WFMin
<1>5. PICK m \in T : v = 0 .. m
  OBVIOUS
<1>6. ASSUME NEW k \in T PROVE m <= k
  <2> SUFFICES ASSUME ~(m <= k) PROVE FALSE
    OBVIOUS
  <2>1. m \in Nat /\ k \in Nat /\ k < m
    OBVIOUS
  <2>2. /\ 0 .. k \in SUBSET Nat /\ 0 .. m \in SUBSET Nat
        /\ 0 .. k \subseteq 0 .. m /\ 0 .. k # 0 .. m
    BY <2>1
  <2>3. <<0 .. k, 0 .. m>> \in R
    BY <2>2 DEF StrictSubsetOrdering
  <2> QED
    BY <1>4, <1>5, <2>3
<1> QED
  BY <1>6

-----------------------------------------------------------------------------
(* The stack *)

(* What the fields of a frame are depends on its kind.                     *)
LEMMA FrameFields ==
  ASSUME NEW f \in Frame
  PROVE  /\ f.in \in MoveKinds =>
              /\ f \in [in : MoveKinds, item : Objects, dest : Objects,
                        ob : Pointer, next : Pointer, giver : Pointer]
              /\ f.item \in Objects /\ f.dest \in Objects /\ f.ob \in Pointer
              /\ f.next \in Pointer /\ f.giver \in Pointer
         /\ f.in = "destruct" => f.ob \in Objects
         /\ f.in = "chain" => f.ob2 \in Pointer
         /\ f.in \in {"contents", "moved"} =>
              /\ f \in [in : {"contents", "moved"}, ob : Objects,
                        otmp : Pointer, save : Pointer]
              /\ f.ob \in Objects /\ f.otmp \in Pointer /\ f.save \in Pointer
         /\ f.in \in MoveKinds \union {"destruct", "chain", "contents", "moved"}
BY DEF Frame, MoveKinds, InitCalls

(* Only the first n frames matter to what is owed after them.              *)
LEMMA OwedSame ==
  ASSUME NEW fr, NEW gr, NEW n \in Nat, \A i \in 1 .. n : gr[i] = fr[i],
         NEW r, NEW c, Owed(fr, n, r, c)
  PROVE  Owed(gr, n, r, c)
<1>1. Asks(fr, n, r) => Asks(gr, n, r)
  BY DEF Asks
<1> QED
  BY <1>1 DEF Owed

(* One more frame changes what is owed if it is a move_or_destruct().      *)
LEMMA OwedNext ==
  ASSUME NEW fr, NEW n \in Nat, NEW r, NEW c
  PROVE  /\ fr[n + 1].in # "moved" => (Owed(fr, n, r, c) <=> Owed(fr, n + 1, r, c))
         /\ fr[n + 1].in = "moved" => Owed(fr, n + 1, fr[n + 1].otmp, c)
<1>1. /\ 1 .. n + 1 = (1 .. n) \union {n + 1} /\ n + 1 \notin 1 .. n
      /\ \A i \in 1 .. n : i + 1 .. n + 1 = (i + 1 .. n) \union {n + 1}
      /\ n + 1 + 1 .. n + 1 = {}
  OBVIOUS
<1>2. fr[n + 1].in # "moved" => (Asks(fr, n, r) <=> Asks(fr, n + 1, r))
  BY <1>1, Zenon DEF Asks
<1>3. fr[n + 1].in = "moved" => Asks(fr, n + 1, fr[n + 1].otmp)
  BY <1>1, Zenon DEF Asks
<1> QED
  BY <1>2, <1>3 DEF Owed

(* Popping the top frame: its save is what the rest owes.                  *)
LEMMA PopWell ==
  ASSUME NEW fr, NEW r, NEW c, Well(fr, r, c), fr # <<>>
  PROVE  LET top == Last(fr) rest == Front(fr) IN
         /\ rest \in Seq(Frame) /\ top \in Frame
         /\ Saves(top) => Owed(rest, Len(rest), top.save, c)
         /\ Well(rest, IF top.in = "moved" THEN top.save ELSE r, c)
<1> DEFINE n == Len(fr) - 1
           top == Last(fr)
           rest == Front(fr)
<1>1. /\ fr \in Seq(Frame) /\ Len(fr) \in Nat /\ n \in Nat /\ Len(fr) = n + 1
      /\ DOMAIN fr = 1 .. n + 1
  BY LenProperties, EmptySeq DEF Well
<1>2. top = fr[n + 1] /\ rest = SubSeq(fr, 1, n)
  BY <1>1 DEF Last, Front
<1> HIDE DEF n, top, rest
<1>3. \A i \in 1 .. n + 1 : fr[i] \in Frame
  BY <1>1, ElementOfSeq
<1>4. rest \in Seq(Frame) /\ Len(rest) = n /\ \A i \in 1 .. n : rest[i] = fr[i]
  <2>1. 1 \in Int /\ n \in Int /\ \A i \in 1 .. n : fr[i] \in Frame
    BY <1>1, <1>3
  <2>2. /\ rest \in Seq(Frame)
        /\ Len(rest) = IF 1 <= n THEN n - 1 + 1 ELSE 0
        /\ \A i \in 1 .. n - 1 + 1 : rest[i] = fr[1 + i - 1]
    BY <1>1, <1>2, <2>1, SubSeqProperties
  <2>3. n - 1 + 1 = n /\ (~(1 <= n) => n = 0) /\ \A i \in 1 .. n : 1 + i - 1 = i
    BY <1>1
  <2> QED
    BY <2>2, <2>3
<1>5. DOMAIN rest = 1 .. n
  BY <1>4, LenProperties
<1>6. ASSUME NEW k \in 1 .. n + 1, NEW s, Owed(fr, k - 1, s, c)
      PROVE  Owed(rest, k - 1, s, c)
  <2>1. k - 1 \in Nat /\ \A i \in 1 .. k - 1 : rest[i] = fr[i]
    BY <1>1, <1>4
  <2> QED
    BY <1>6, <2>1, OwedSame
<1>7. Saves(top) => Owed(rest, n, top.save, c)
  <2>1. n + 1 \in 1 .. n + 1 /\ n + 1 - 1 = n
    BY <1>1
  <2> QED
    BY <1>1, <1>2, <1>6, <2>1 DEF Well
<1>8. \A k \in 1 .. n : /\ Saves(rest[k]) => Owed(rest, k - 1, rest[k].save, c)
                        /\ rest[k].in = "moved" => rest[k].otmp # NoObject
  <2>1. \A k \in 1 .. n : k \in 1 .. n + 1
    BY <1>1
  <2> QED
    BY <1>1, <1>4, <1>6, <2>1 DEF Well
<1>9. Owed(rest, n, IF top.in = "moved" THEN top.save ELSE r, c)
  <2>1. CASE top.in = "moved"
    BY <1>7, <2>1 DEF Saves
  <2>2. CASE top.in # "moved"
    <3>1. Owed(fr, n, r, c)
      BY <1>1, <1>2, <2>2, OwedNext DEF Well
    <3> QED
      BY <1>1, <1>4, <2>2, <3>1, OwedSame
  <2> QED
    BY <2>1, <2>2
<1>10. Well(rest, IF top.in = "moved" THEN top.save ELSE r, c)
  BY <1>4, <1>5, <1>8, <1>9 DEF Well
<1>11. top \in Frame
  BY <1>1, <1>2, <1>3
<1> QED
  BY <1>4, <1>7, <1>10, <1>11 DEF top, rest

(* Pushing a frame: a move_or_destruct() restricts what may be destructed. *)
LEMMA PushWell ==
  ASSUME NEW fr, NEW r, NEW c, Well(fr, r, c), NEW f \in Frame,
         Saves(f) => Owed(fr, Len(fr), f.save, c),
         f.in = "moved" => f.otmp # NoObject
  PROVE  Well(Append(fr, f), IF f.in = "moved" THEN f.otmp ELSE r, c)
<1> DEFINE n == Len(fr)
           gr == Append(fr, f)
<1>1. fr \in Seq(Frame) /\ n \in Nat /\ DOMAIN fr = 1 .. n
  BY LenProperties DEF Well
<1>2. /\ gr \in Seq(Frame) /\ Len(gr) = n + 1 /\ gr[n + 1] = f
      /\ \A i \in 1 .. n : gr[i] = fr[i]
  BY <1>1, AppendProperties
<1>3. DOMAIN gr = 1 .. n + 1
  BY <1>2, LenProperties
<1> HIDE DEF n, gr
<1>4. ASSUME NEW k \in 1 .. n + 1, NEW s, Owed(fr, k - 1, s, c)
      PROVE  Owed(gr, k - 1, s, c)
  <2>1. k - 1 \in Nat /\ \A i \in 1 .. k - 1 : gr[i] = fr[i]
    BY <1>1, <1>2
  <2> QED
    BY <1>4, <2>1, OwedSame
<1>5. n + 1 \in 1 .. n + 1 /\ n + 1 - 1 = n
  BY <1>1
<1>6. Owed(gr, n + 1, IF f.in = "moved" THEN f.otmp ELSE r, c)
  <2>1. CASE f.in = "moved"
    BY <1>1, <1>2, <2>1, OwedNext
  <2>2. CASE f.in # "moved"
    <3>1. Owed(fr, n, r, c)
      BY DEF Well, n
    <3>2. Owed(gr, n, r, c)
      BY <1>1, <1>2, <3>1, OwedSame
    <3> QED
      BY <1>1, <1>2, <2>2, <3>2, OwedNext
  <2> QED
    BY <2>1, <2>2
<1>7. ASSUME NEW k \in 1 .. n + 1
      PROVE  /\ Saves(gr[k]) => Owed(gr, k - 1, gr[k].save, c)
             /\ gr[k].in = "moved" => gr[k].otmp # NoObject
  <2>1. CASE k = n + 1
    BY <1>2, <1>4, <1>5, <2>1 DEF n
  <2>2. CASE k # n + 1
    <3>1. k \in 1 .. n
      BY <1>1, <2>2
    <3> QED
      BY <1>1, <1>2, <1>4, <3>1 DEF Well
  <2> QED
    BY <2>1, <2>2
<1> QED
  BY <1>2, <1>3, <1>6, <1>7 DEF Well, gr

(* With the last frame a caught error is forgotten.                        *)
LEMMA ForgetWell ==
  ASSUME NEW fr, NEW r, NEW c, Well(fr, r, c)
  PROVE  Well(fr, r, c /\ fr # <<>>)
<1>1. CASE fr = <<>>
  <2>1. Len(fr) = 0 /\ DOMAIN fr = {} /\ fr \in Seq(Frame)
    BY <1>1, EmptySeq DEF Well
  <2>2. r = NoObject
    BY <2>1 DEF Well, Owed, Asks
  <2>3. Asks(fr, Len(fr), r)
    BY <2>1, <2>2 DEF Asks
  <2> QED
    BY <2>1, <2>3 DEF Well, Owed
<1>2. CASE fr # <<>>
  <2>1. \A n, s : Owed(fr, n, s, c) => Owed(fr, n, s, c /\ fr # <<>>)
    BY <1>2 DEF Owed
  <2> QED
    BY <2>1 DEF Well
<1> QED
  BY <1>1, <1>2

(* An error is caught k frames up: nothing is restricted any more.         *)
LEMMA CutWell ==
  ASSUME NEW fr, NEW r, NEW c, Well(fr, r, c), NEW k \in 0 .. Len(fr)
  PROVE  Well(SubSeq(fr, 1, k), NoObject, k > 0)
<1> DEFINE gr == SubSeq(fr, 1, k)
<1>1. /\ fr \in Seq(Frame) /\ Len(fr) \in Nat /\ DOMAIN fr = 1 .. Len(fr)
      /\ k \in Nat /\ \A i \in 1 .. k : i \in DOMAIN fr
  BY LenProperties DEF Well
<1>2. \A i \in 1 .. k : fr[i] \in Frame
  BY <1>1, ElementOfSeq
<1>3. gr \in Seq(Frame) /\ Len(gr) = k /\ \A i \in 1 .. k : gr[i] = fr[i]
  <2>1. 1 \in Int /\ k \in Int
    BY <1>1
  <2>2. /\ gr \in Seq(Frame)
        /\ Len(gr) = IF 1 <= k THEN k - 1 + 1 ELSE 0
        /\ \A i \in 1 .. k - 1 + 1 : gr[i] = fr[1 + i - 1]
    BY <1>1, <1>2, <2>1, SubSeqProperties
  <2> HIDE DEF gr
  <2>3. k - 1 + 1 = k /\ (~(1 <= k) => k = 0) /\ \A i \in 1 .. k : 1 + i - 1 = i
    BY <1>1
  <2> QED
    BY <2>2, <2>3
<1>4. DOMAIN gr = 1 .. k
  BY <1>3, LenProperties
<1> HIDE DEF gr
<1>5. Owed(gr, k, NoObject, k > 0)
  <2>1. CASE k = 0
    BY <2>1 DEF Owed, Asks
  <2>2. CASE k # 0
    BY <1>1, <2>2 DEF Owed
  <2> QED
    BY <2>1, <2>2
<1>6. ASSUME NEW i \in 1 .. k
      PROVE  /\ Saves(gr[i]) => Owed(gr, i - 1, gr[i].save, k > 0)
             /\ gr[i].in = "moved" => gr[i].otmp # NoObject
  <2>1. k > 0 /\ i - 1 \in Nat /\ \A j \in 1 .. i - 1 : gr[j] = fr[j]
    BY <1>1, <1>3
  <2>2. Saves(gr[i]) => Owed(gr, i - 1, gr[i].save, c)
    BY <1>1, <1>3, <2>1, OwedSame DEF Well
  <2> QED
    BY <1>1, <1>3, <2>1, <2>2 DEF Well, Owed
<1> QED
  BY <1>3, <1>4, <1>5, <1>6 DEF Well, gr

(* The same for the steps of the program.                                  *)
Keeps == Well(frames, restrict_destruct, caught)

LEMMA StackKeeps ==
  ASSUME NEW fr, NEW r, Well(fr, r, caught), Stack(fr), restrict_destruct' = r
  PROVE  Keeps'
<1>1. Well(fr, r, caught /\ fr # <<>>)
  BY ForgetWell
<1> QED
  BY <1>1 DEF Keeps, Stack

LEMMA PushKeeps ==
  ASSUME Keeps, NEW f \in Frame, ~Saves(f), Stack(Append(frames, f)),
         UNCHANGED restrict_destruct
  PROVE  Keeps'
<1>1. Well(Append(frames, f), restrict_destruct, caught)
  <2>1. f.in # "moved"
    BY DEF Saves
  <2>2. Well(Append(frames, f), IF f.in = "moved" THEN f.otmp ELSE restrict_destruct, caught)
    BY <2>1, PushWell DEF Keeps
  <2> QED
    BY <2>1, <2>2
<1> QED
  BY <1>1, StackKeeps

LEMMA PopKeeps ==
  ASSUME Keeps, frames # <<>>, Stack(Below),
         restrict_destruct' = IF Top.in = "moved" THEN Top.save ELSE restrict_destruct
  PROVE  Keeps'
<1>1. Well(Below, IF Top.in = "moved" THEN Top.save ELSE restrict_destruct, caught)
  BY PopWell, Zenon DEF Keeps, Top, Below
<1> QED
  BY <1>1, StackKeeps

(* The top frame changes.                                                  *)
LEMMA GoesWell ==
  ASSUME Keeps, frames # <<>>, NEW f \in Frame, NEW r,
         Saves(f) => Owed(Below, Len(Below), f.save, caught),
         f.in = "moved" => f.otmp # NoObject,
         r = IF f.in = "moved" THEN f.otmp
             ELSE IF Top.in = "moved" THEN Top.save ELSE restrict_destruct
  PROVE  Well(Goes(f), r, caught)
<1>1. Well(Below, IF Top.in = "moved" THEN Top.save ELSE restrict_destruct, caught)
  BY PopWell, Zenon DEF Keeps, Top, Below
<1> DEFINE q == IF Top.in = "moved" THEN Top.save ELSE restrict_destruct
<1>2. Well(Append(Below, f), IF f.in = "moved" THEN f.otmp ELSE q, caught)
  <2> HIDE DEF q
  <2>1. Well(Below, q, caught)
    BY <1>1 DEF q
  <2> QED
    BY <2>1, PushWell
<1> QED
  BY <1>2 DEF Goes

(* What the top frame saves is owed by those below it.                     *)
LEMMA TopSaves ==
  ASSUME Keeps, frames # <<>>
  PROVE  /\ Top \in Frame
         /\ Saves(Top) => Owed(Below, Len(Below), Top.save, caught)
         /\ Top.in # "moved" =>
              Owed(Below, Len(Below), restrict_destruct, caught)
<1>1. /\ Top \in Frame
      /\ Saves(Top) => Owed(Below, Len(Below), Top.save, caught)
      /\ Well(Below, IF Top.in = "moved" THEN Top.save ELSE restrict_destruct, caught)
  BY PopWell, Zenon DEF Keeps, Top, Below
<1> QED
  BY <1>1 DEF Well

-----------------------------------------------------------------------------
(* Steps that change nothing but the stack and the two pointers *)

LEMMA QuietStep ==
  ASSUME Core, UNCHANGED <<places, chains, living, sent, destructed>>,
         restrict_destruct' \in Pointer, command_giver' \in Pointer,
         caught' \in BOOLEAN, Keeps'
  PROVE  Core'
<1>1. UNCHANGED <<super, inv, shadowing, shadowed, living, sent, destructed>>
  BY DEF places, chains
<1>2. Types'
  BY <1>1 DEF Core, Types
<1>3. Places'
  BY <1>1 DEF Core, Places, Listed, Placed, NoneTwice, GoneNowhere
<1>4. Chains'
  BY <1>1 DEF Core, Chains, Linked, ShadowsNowhere
<1>5. Actions'
  BY <1>1 DEF Core, Actions, Near
<1> QED
  BY <1>2, <1>3, <1>4, <1>5 DEF Core, Keeps

LEMMA StackCaught ==
  ASSUME Core, NEW f, Stack(f)
  PROVE  caught' \in BOOLEAN
BY DEF Stack, Core, Types

(* A pointer that a walk set: the command giver of its caller.             *)
LEMMA GiverAtIsTyped ==
  ASSUME Core, NEW k \in 0 .. Len(frames)
  PROVE  GiverAt(k) \in Pointer
<1> DEFINE cut == {i \in k + 1 .. Len(frames) : frames[i].in \in MoveKinds}
           c == CHOOSE i \in cut : \A j \in cut : i <= j
<1>1. /\ frames \in Seq(Frame) /\ Len(frames) \in Nat
      /\ DOMAIN frames = 1 .. Len(frames)
  BY LenProperties DEF Core, Well
<1>2. cut \in SUBSET Nat
  BY <1>1
<1>3. \A i \in cut : frames[i].giver \in Pointer
  <2> SUFFICES ASSUME NEW i \in cut PROVE frames[i].giver \in Pointer
    OBVIOUS
  <2>1. i \in 1 .. Len(frames) /\ frames[i].in \in MoveKinds
    BY <1>1
  <2>2. frames[i] \in Frame
    BY <1>1, <2>1, ElementOfSeq
  <2> QED
    BY <2>1, <2>2, FrameFields
<1>4. CASE cut = {}
  BY <1>4 DEF GiverAt, Core, Types
<1>5. CASE cut # {}
  <2>1. \E m \in cut : \A j \in cut : m <= j
    <3> HIDE DEF cut
    <3> QED
      BY <1>2, <1>5, LeastNumber
  <2>2. c \in cut
    <3> HIDE DEF cut
    <3> QED
      BY <2>1
  <2>3. GiverAt(k) = frames[c].giver
    BY <1>5, Zenon DEF GiverAt
  <2> HIDE DEF cut, c
  <2> QED
    BY <1>3, <2>2, <2>3
<1> QED
  BY <1>4, <1>5

(* An error gives up frames, and lifts the restriction.                    *)
LEMMA ErrorKeeps ==
  ASSUME Core, Error
  PROVE  Core'
<1>1. /\ UNCHANGED <<places, chains, living, sent, destructed>>
      /\ restrict_destruct' = NoObject
  BY DEF Error
<1>2. ASSUME frames' = <<>>, caught' = FALSE, command_giver' = NoObject
      PROVE  Core'
  <2>1. Well(<<>>, NoObject, FALSE)
    <3>1. Len(<<>>) = 0 /\ DOMAIN <<>> = {} /\ <<>> \in Seq(Frame)
      BY EmptySeq
    <3>2. Asks(<<>>, 0, NoObject)
      BY DEF Asks
    <3> QED
      BY <3>1, <3>2 DEF Well, Owed
  <2>2. Keeps'
    BY <1>1, <1>2, <2>1 DEF Keeps
  <2> QED
    BY <1>1, <1>2, <2>2, QuietStep DEF Pointer
<1>3. ASSUME NEW k \in 0 .. Len(frames), frames' = SubSeq(frames, 1, k),
             caught' = (k > 0), command_giver' = GiverAt(k)
      PROVE  Core'
  <2>1. Well(SubSeq(frames, 1, k), NoObject, k > 0)
    BY CutWell DEF Core
  <2>2. Keeps'
    BY <1>1, <1>3, <2>1 DEF Keeps
  <2>3. command_giver' \in Pointer
    BY <1>3, GiverAtIsTyped
  <2> QED
    BY <1>1, <1>3, <2>2, <2>3, QuietStep DEF Pointer
<1> QED
  BY <1>2, <1>3 DEF Error

LEMMA FirstIsTyped ==
  ASSUME NEW list \in Seq(Objects)
  PROVE  /\ First(list) \in Pointer
         /\ list # <<>> => First(list) = list[1] /\ First(list) \in ToSet(list)
<1>1. CASE list = <<>>
  BY <1>1 DEF First, Pointer
<1>2. CASE list # <<>>
  <2>1. Len(list) \in Nat \ {0} /\ DOMAIN list = 1 .. Len(list)
    BY <1>2, LenProperties, EmptySeq
  <2>2. list[1] \in Objects /\ 1 \in DOMAIN list
    BY <2>1, ElementOfSeq
  <2>3. First(list) = list[1]
    BY <1>2 DEF First
  <2> QED
    BY <2>2, <2>3 DEF Pointer, ToSet
<1> QED
  BY <1>1, <1>2

LEMMA NextInvIsTyped ==
  ASSUME Types, NEW o \in Objects
  PROVE  NextInv(o) \in Pointer
<1>1. CASE super[o] = NoObject
  BY <1>1 DEF NextInv, Pointer
<1>2. CASE super[o] # NoObject
  <2> DEFINE list == inv[super[o]]
             rest == {p \in 1 .. Len(list) - 1 : list[p] = o}
             c == CHOOSE p \in rest : TRUE
  <2>1. list \in Seq(Objects) /\ Len(list) \in Nat
    BY <1>2, LenProperties DEF Types, Pointer
  <2>2. NextInv(o) = IF rest = {} THEN NoObject ELSE list[c + 1]
    BY <1>2, Zenon DEF NextInv
  <2>3. CASE rest = {}
    <3> HIDE DEF rest, list, c
    <3> QED
      BY <2>2, <2>3 DEF Pointer
  <2>4. CASE rest # {}
    <3>1. c \in rest
      <4> HIDE DEF rest
      <4> QED
        BY <2>4
    <3> HIDE DEF c, list
    <3>2. c + 1 \in 1 .. Len(list)
      BY <2>1, <3>1
    <3>3. list[c + 1] \in Objects
      BY <2>1, <3>2, ElementOfSeq
    <3> HIDE DEF rest
    <3> QED
      BY <2>2, <2>4, <3>3 DEF Pointer
  <2> QED
    BY <2>3, <2>4
<1> QED
  BY <1>1, <1>2

(* The walk of a move goes on, with a new top frame.                       *)
LEMMA WalkKeeps ==
  ASSUME Core, frames # <<>>, Top.in \in MoveKinds,
         NEW f \in Frame, f.in \in MoveKinds, Stack(Goes(f)),
         command_giver' \in Pointer,
         UNCHANGED <<places, chains, living, sent, destructed, restrict_destruct>>
  PROVE  Core'
<1>1. Keeps /\ restrict_destruct' = restrict_destruct /\ restrict_destruct \in Pointer
  BY DEF Core, Keeps, Types
<1>2. Top.in # "moved" /\ f.in # "moved" /\ ~Saves(f)
  BY DEF MoveKinds, InitCalls, Saves
<1>3. Well(Goes(f), restrict_destruct, caught)
  BY <1>1, <1>2, GoesWell
<1>4. Keeps'
  BY <1>1, <1>3, StackKeeps
<1>5. caught' \in BOOLEAN
  BY StackCaught
<1> QED
  BY <1>1, <1>4, <1>5, QuietStep

LEMMA TopMoves ==
  ASSUME Core, frames # <<>>, Top.in \in MoveKinds,
         NEW kind \in MoveKinds, NEW ob \in Pointer, NEW next \in Pointer
  PROVE  /\ Top.item \in Objects /\ Top.dest \in Objects /\ Top.ob \in Pointer
         /\ Top.next \in Pointer /\ Top.giver \in Pointer
         /\ [Top EXCEPT !.in = kind, !.next = next] \in Frame
         /\ [Top EXCEPT !.in = kind, !.next = next].in = kind
         /\ [Top EXCEPT !.in = kind, !.ob = ob, !.next = next] \in Frame
         /\ [Top EXCEPT !.in = kind, !.ob = ob, !.next = next].in = kind
<1> DEFINE M == [in : MoveKinds, item : Objects, dest : Objects,
                 ob : Pointer, next : Pointer, giver : Pointer]
<1>1. Top \in Frame
  BY TopSaves DEF Core, Keeps
<1>2. /\ Top \in M
      /\ Top.item \in Objects /\ Top.dest \in Objects /\ Top.ob \in Pointer
      /\ Top.next \in Pointer /\ Top.giver \in Pointer
  BY <1>1, FrameFields
<1>3. M \subseteq Frame
  BY DEF Frame
<1>4. /\ [Top EXCEPT !.in = kind, !.next = next] \in M
      /\ [Top EXCEPT !.in = kind, !.next = next].in = kind
      /\ [Top EXCEPT !.in = kind, !.ob = ob, !.next = next] \in M
      /\ [Top EXCEPT !.in = kind, !.ob = ob, !.next = next].in = kind
  BY <1>2
<1> QED
  BY <1>2, <1>3, <1>4

LEMMA CallInitKeeps ==
  ASSUME Core, frames # <<>>, Top.in \in MoveKinds, NEW kind \in InitCalls,
         NEW giver \in Pointer, NEW next \in Pointer, CallInit(kind, giver, next)
  PROVE  Core'
<1>1. CASE ~MayNest /\ Error
  BY <1>1, ErrorKeeps
<1>2. CASE MayNest /\ ~(~MayNest /\ Error)
  <2> DEFINE f == [Top EXCEPT !.in = kind, !.next = next]
  <2>1. kind \in MoveKinds
    BY DEF MoveKinds
  <2>2. f \in Frame /\ f.in \in MoveKinds
    BY <2>1, TopMoves
  <2>3. /\ Stack(Goes(f)) /\ command_giver' = giver
        /\ UNCHANGED <<places, chains, living, sent, destructed, restrict_destruct>>
    BY <1>2 DEF CallInit
  <2> HIDE DEF f
  <2> QED
    BY <2>2, <2>3, WalkKeeps
<1> QED
  BY <1>1, <1>2 DEF CallInit

LEMMA MeetNextKeeps ==
  ASSUME Core, frames # <<>>, Top.in \in MoveKinds,
         NEW next \in Pointer, MeetNext(next)
  PROVE  Core'
<1> DEFINE f == [Top EXCEPT !.in = "meeting", !.ob = next, !.next = NoObject]
<1>1. f \in Frame /\ f.in \in MoveKinds /\ Top.giver \in Pointer
  <2>1. "meeting" \in MoveKinds /\ NoObject \in Pointer
    BY DEF MoveKinds, Pointer
  <2>2. f \in Frame /\ f.in = "meeting" /\ Top.giver \in Pointer
    BY <2>1, TopMoves, Zenon
  <2> QED
    BY <2>1, <2>2
<1>2. /\ Stack(Goes(f)) /\ command_giver' = Top.giver
      /\ UNCHANGED <<places, chains, living, sent, destructed, restrict_destruct>>
  BY DEF MeetNext
<1> HIDE DEF f
<1> QED
  BY <1>1, <1>2, WalkKeeps

LEMMA MoveReturnsKeeps ==
  ASSUME Core, frames # <<>>, Top.in \in MoveKinds, MoveReturns
  PROVE  Core'
<1>1. Keeps /\ restrict_destruct' = restrict_destruct /\ restrict_destruct \in Pointer
  BY DEF Core, Keeps, Types, MoveReturns
<1>2. Top.in # "moved"
  BY DEF MoveKinds, InitCalls
<1>3. Keeps'
  BY <1>1, <1>2, PopKeeps DEF MoveReturns
<1>4. command_giver' \in Pointer
  <2>1. "meeting" \in MoveKinds /\ NoObject \in Pointer
    BY DEF MoveKinds, Pointer
  <2> QED
    BY <2>1, TopMoves DEF MoveReturns
<1>5. caught' \in BOOLEAN
  BY StackCaught DEF MoveReturns
<1> QED
  BY <1>1, <1>3, <1>4, <1>5, QuietStep DEF MoveReturns

LEMMA ArriveKeeps ==
  ASSUME Core, Arrive
  PROVE  Core'
<1>1. frames # <<>> /\ Top.in \in MoveKinds
  BY DEF Arrive, CRuns, MoveKinds
<1>2. Top.item \in Objects /\ Top.dest \in Objects /\ NoObject \in Pointer
  <2>1. "meeting" \in MoveKinds /\ NoObject \in Pointer
    BY DEF MoveKinds, Pointer
  <2> QED
    BY <1>1, <2>1, TopMoves
<1>3. Top.item \in Pointer /\ First(inv[Top.dest]) \in Pointer /\ "room" \in InitCalls
  BY <1>2, FirstIsTyped DEF Core, Types, Pointer, InitCalls
<1> QED
  BY <1>1, <1>2, <1>3, CallInitKeeps, MeetNextKeeps DEF Arrive

LEMMA MeetKeeps ==
  ASSUME Core, Meet
  PROVE  Core'
<1>1. frames # <<>> /\ Top.in \in MoveKinds
  BY DEF Meet, CRuns, MoveKinds
<1>2. /\ Top.item \in Objects /\ Top.dest \in Objects /\ Top.ob \in Pointer
      /\ NoObject \in Pointer
  <2>1. "meeting" \in MoveKinds /\ NoObject \in Pointer
    BY DEF MoveKinds, Pointer
  <2> QED
    BY <1>1, <2>1, TopMoves
<1>3. /\ Top.item \in Pointer /\ Top.dest \in Pointer
      /\ {"carrier", "item", "bystander"} \subseteq InitCalls
  BY <1>2 DEF Pointer, InitCalls
<1>4. Top.ob # NoObject => NextInv(Top.ob) \in Pointer
  BY <1>2, NextInvIsTyped DEF Core, Pointer
<1>5. \/ Error \/ MoveReturns
      \/ CallInit("carrier", Top.dest, NoObject)
      \/ /\ Top.ob # NoObject
         /\ \/ MeetNext(NextInv(Top.ob))
            \/ CallInit("item", Top.ob, NextInv(Top.ob))
            \/ CallInit("bystander", Top.item, NextInv(Top.ob))
  <2>1. Top.item # NoObject
    BY <1>2, ObjectsAssumption
  <2> QED
    BY <2>1, Zenon DEF Meet
<1> QED
  BY <1>1, <1>2, <1>3, <1>4, <1>5, ErrorKeeps, MoveReturnsKeeps, CallInitKeeps,
     MeetNextKeeps

LEMMA InitReturnsKeeps ==
  ASSUME Core, InitReturns
  PROVE  Core'
<1>1. frames # <<>> /\ Top.in \in MoveKinds
  BY DEF InitReturns, MoveKinds
<1>2. /\ Top.item \in Objects /\ Top.dest \in Objects /\ Top.next \in Pointer
  <2>1. "meeting" \in MoveKinds /\ NoObject \in Pointer
    BY DEF MoveKinds, Pointer
  <2> QED
    BY <1>1, <2>1, TopMoves
<1>3. Top.item \in Pointer /\ First(inv[Top.dest]) \in Pointer /\ "bystander" \in InitCalls
  BY <1>2, FirstIsTyped DEF Core, Types, Pointer, InitCalls
<1>4. \/ Error \/ MoveReturns \/ MeetNext(First(inv[Top.dest]))
      \/ CallInit("bystander", Top.item, Top.next) \/ MeetNext(Top.next)
  BY Zenon DEF InitReturns
<1> QED
  BY <1>1, <1>2, <1>3, <1>4, ErrorKeeps, MoveReturnsKeeps, CallInitKeeps,
     MeetNextKeeps

-----------------------------------------------------------------------------
(* Destructs and their stack *)

LEMMA FramesAreTyped ==
  /\ \A ob \in Objects : /\ [in |-> "destruct", ob |-> ob] \in Frame
                         /\ [in |-> "destruct", ob |-> ob].in = "destruct"
  /\ \A ob \in Pointer : /\ [in |-> "chain", ob2 |-> ob] \in Frame
                         /\ [in |-> "chain", ob2 |-> ob].in = "chain"
BY DEF Frame

LEMMA StartsKeeps ==
  ASSUME Core, NEW ob \in Objects, Starts(ob)
  PROVE  Core'
<1> DEFINE f == [in |-> "destruct", ob |-> ob]
<1>1. f \in Frame /\ f.in = "destruct"
  BY FramesAreTyped
<1>2. /\ Stack(Append(frames, f)) /\ UNCHANGED restrict_destruct
      /\ UNCHANGED command_giver
      /\ UNCHANGED <<places, chains, living, sent, destructed>>
  BY DEF Starts
<1> HIDE DEF f
<1>3. Keeps'
  BY <1>1, <1>2, PushKeeps DEF Core, Keeps, Saves
<1>4. caught' \in BOOLEAN
  BY <1>2, StackCaught
<1> QED
  BY <1>2, <1>3, <1>4, QuietStep DEF Core, Types

(* Steps that change the chains of shadows besides.                        *)
LEMMA ChainStep ==
  ASSUME Core, UNCHANGED <<places, living, sent, destructed>>,
         shadowing' \in [Objects -> Pointer], shadowed' \in [Objects -> Pointer],
         Chains', restrict_destruct' \in Pointer, command_giver' \in Pointer,
         caught' \in BOOLEAN, Keeps'
  PROVE  Core'
<1>1. UNCHANGED <<super, inv, living, sent, destructed>>
  BY DEF places
<1>2. Types'
  BY <1>1 DEF Core, Types
<1>3. Places'
  BY <1>1 DEF Core, Places, Listed, Placed, NoneTwice, GoneNowhere
<1>4. Actions'
  BY <1>1 DEF Core, Actions, Near
<1> QED
  BY <1>2, <1>3, <1>4 DEF Core, Keeps

(* An object is taken out of its chain: the chain closes behind it.        *)
LEMMA UnlinkedKeeps ==
  ASSUME Types, Chains, NEW o \in Objects, Unlinked(o), UNCHANGED super
  PROVE  /\ shadowing' \in [Objects -> Pointer]
         /\ shadowed' \in [Objects -> Pointer]
         /\ Chains'
<1>1. /\ shadowing \in [Objects -> Pointer] /\ shadowed \in [Objects -> Pointer]
      /\ \A p \in Objects : shadowing[p] \in Pointer /\ shadowed[p] \in Pointer
      /\ NoObject \notin Objects
  BY ObjectsAssumption DEF Types
<1>2. /\ shadowing' \in [Objects -> Pointer] /\ shadowed' \in [Objects -> Pointer]
      /\ \A p \in Objects : shadowing'[p] =
           IF p = o THEN NoObject
           ELSE IF p = shadowed[o] THEN shadowing[o] ELSE shadowing[p]
      /\ \A p \in Objects : shadowed'[p] =
           IF p = o THEN NoObject
           ELSE IF p = shadowing[o] THEN shadowed[o] ELSE shadowed[p]
  BY <1>1 DEF Unlinked, Pointer
<1>3. shadowing[o] # o /\ shadowed[o] # o
  <2>1. {o} \in SUBSET Objects /\ {o} # {}
    OBVIOUS
  <2> QED
    BY <2>1 DEF Chains, Acyclic
<1>4. \A p, q \in Objects : shadowing[p] = q <=> shadowed[q] = p
  BY DEF Chains, Linked
<1>5. Linked'
  <2> SUFFICES ASSUME NEW p \in Objects, NEW q \in Objects
               PROVE  shadowing'[p] = q <=> shadowed'[q] = p
    BY DEF Linked
  <2>1. CASE p = o \/ q = o
    BY <1>1, <1>2, <1>3, <1>4, <2>1
  <2>2. CASE p # o /\ q # o
    <3>1. CASE p = shadowed[o]
      BY <1>1, <1>2, <1>3, <1>4, <2>2, <3>1
    <3>2. CASE p # shadowed[o]
      BY <1>1, <1>2, <1>3, <1>4, <2>2, <3>2
    <3> QED
      BY <3>1, <3>2
  <2> QED
    BY <2>1, <2>2
<1>6. Acyclic(shadowing)'
  <2>1. \A p \in Objects : \/ shadowing'[p] \in {NoObject, shadowing[p]}
                           \/ shadowing[p] = o /\ shadowing'[p] = shadowing[o]
    BY <1>2, <1>4
  <2>2. /\ Acyclic(shadowing) /\ shadowing \in [Objects -> Pointer]
        /\ shadowing' \in [Objects -> Pointer]
    BY <1>1, <1>2 DEF Chains
  <2>3. Acyclic(shadowing')
    BY <2>1, <2>2, BypassIsAcyclic
  <2> QED
    BY <2>3 DEF Acyclic
<1>7. Acyclic(shadowed)'
  <2>1. \A p \in Objects : \/ shadowed'[p] \in {NoObject, shadowed[p]}
                           \/ shadowed[p] = o /\ shadowed'[p] = shadowed[o]
    BY <1>2, <1>4
  <2>2. /\ Acyclic(shadowed) /\ shadowed \in [Objects -> Pointer]
        /\ shadowed' \in [Objects -> Pointer]
    BY <1>1, <1>2 DEF Chains
  <2>3. Acyclic(shadowed')
    BY <2>1, <2>2, BypassIsAcyclic
  <2> QED
    BY <2>3 DEF Acyclic
<1>8. ShadowsNowhere'
  <2> SUFFICES ASSUME NEW p \in Objects, shadowing'[p] # NoObject
               PROVE  super[p] = NoObject
    BY DEF ShadowsNowhere
  <2>1. shadowing[p] # NoObject
    BY <1>1, <1>2, <1>4
  <2> QED
    BY <2>1 DEF Chains, ShadowsNowhere
<1> QED
  BY <1>2, <1>5, <1>6, <1>7, <1>8 DEF Chains

LEMMA DestructStartsKeeps ==
  ASSUME Core, DestructStarts
  PROVE  Core'
<1> DEFINE ob == Top.ob
<1>1. frames # <<>> /\ Top.in = "destruct"
  BY DEF DestructStarts, CRuns
<1>2. Keeps /\ Top \in Frame /\ ob \in Objects
      /\ Owed(Below, Len(Below), restrict_destruct, caught)
  <2>1. Keeps
    BY DEF Core, Keeps
  <2>2. Top \in Frame
    BY <1>1, <2>1, TopSaves
  <2> QED
    BY <1>1, <2>1, <2>2, TopSaves, FrameFields
<1>3. CASE restrict_destruct \notin {ob, NoObject} /\ Error
  BY <1>3, ErrorKeeps
<1>4. ASSUME UNCHANGED <<places, living, sent, destructed, restrict_destruct,
                         command_giver>>,
             Stack(Below), UNCHANGED chains
      PROVE  Core'
  <2>1. Keeps'
    BY <1>1, <1>2, <1>4, PopKeeps
  <2>2. caught' \in BOOLEAN
    BY <1>4, StackCaught
  <2> QED
    BY <1>4, <2>1, <2>2, QuietStep DEF Core, Types
<1>5. ASSUME UNCHANGED <<places, living, sent, destructed, restrict_destruct,
                         command_giver>>,
             Stack(Goes([in |-> "chain", ob2 |-> End(shadowed, ob)])),
             UNCHANGED chains
      PROVE  Core'
  <2> DEFINE f == [in |-> "chain", ob2 |-> End(shadowed, ob)]
  <2>1. End(shadowed, ob) \in Pointer
    BY <1>2, EndOf DEF Core, Types, Chains, Pointer
  <2>2. f \in Frame /\ f.in = "chain"
    BY <2>1, FramesAreTyped
  <2> HIDE DEF f
  <2>3. Well(Goes(f), restrict_destruct, caught)
    BY <1>1, <1>2, <2>2, GoesWell DEF Saves
  <2>4. Keeps'
    BY <1>5, <2>3, StackKeeps DEF f
  <2>5. caught' \in BOOLEAN
    BY <1>5, StackCaught
  <2> QED
    BY <1>5, <2>4, <2>5, QuietStep DEF Core, Types
<1>6. ASSUME UNCHANGED <<places, living, sent, destructed, restrict_destruct,
                         command_giver>>,
             Stack(Goes([in |-> "contents", ob |-> ob, otmp |-> NoObject,
                         save |-> restrict_destruct])),
             Unlinked(ob)
      PROVE  Core'
  <2> DEFINE f == [in |-> "contents", ob |-> ob, otmp |-> NoObject,
                   save |-> restrict_destruct]
  <2>1. f \in Frame /\ f.in = "contents" /\ f.save = restrict_destruct
    BY <1>2 DEF Frame, Core, Types, Pointer
  <2> HIDE DEF f
  <2>2. Well(Goes(f), restrict_destruct, caught)
    BY <1>1, <1>2, <2>1, GoesWell
  <2>3. Keeps'
    BY <1>6, <2>2, StackKeeps DEF f
  <2>4. caught' \in BOOLEAN
    BY <1>6, StackCaught
  <2>5. UNCHANGED super
    BY <1>6 DEF places
  <2>6. /\ shadowing' \in [Objects -> Pointer]
        /\ shadowed' \in [Objects -> Pointer] /\ Chains'
    BY <1>2, <1>6, <2>5, UnlinkedKeeps DEF Core
  <2> QED
    BY <1>6, <2>3, <2>4, <2>6, ChainStep DEF Core, Types
<1> HIDE DEF ob
<1> QED
  BY <1>3, <1>4, <1>5, <1>6, Zenon DEF DestructStarts, ob

LEMMA DestructChainKeeps ==
  ASSUME Core, DestructChain
  PROVE  Core'
<1> DEFINE otmp == Top.ob2
           link == shadowing[otmp]
           f == [Top EXCEPT !.ob2 = link]
           g == [in |-> "destruct", ob |-> otmp]
<1>1. /\ frames # <<>> /\ Top.in = "chain"
      /\ UNCHANGED <<places, living, sent, destructed, restrict_destruct,
                     command_giver>>
  BY DEF DestructChain, CRuns
<1>2. Keeps /\ Top \in Frame /\ otmp \in Pointer
  <2>1. Keeps
    BY DEF Core, Keeps
  <2>2. Top \in Frame
    BY <1>1, <2>1, TopSaves
  <2> QED
    BY <1>1, <2>1, <2>2, FrameFields
<1>3. CASE otmp = NoObject
  <2>1. Stack(Below) /\ UNCHANGED chains
    BY <1>3, Zenon DEF DestructChain
  <2>2. Keeps'
    BY <1>1, <1>2, <2>1, PopKeeps
  <2>3. caught' \in BOOLEAN
    BY <2>1, StackCaught
  <2> QED
    BY <1>1, <2>1, <2>2, <2>3, QuietStep DEF Core, Types
<1>4. CASE otmp # NoObject
  <2>1. /\ Stack(Goes(f) \o <<g>>)
        /\ shadowed' = [p \in Objects |->
             IF p = link THEN NoObject ELSE shadowed[p]]
        /\ shadowing' = [shadowing EXCEPT ![otmp] = NoObject]
    BY <1>4, Zenon DEF DestructChain, ChainFrames
  <2>2. otmp \in Objects /\ link \in Pointer
    BY <1>2, <1>4 DEF Core, Types, Pointer
  <2>3. f \in Frame /\ f.in = "chain" /\ g \in Frame /\ g.in = "destruct"
    <3>1. f \in Frame /\ f.in = "chain"
      BY <1>1, <1>2, <2>2 DEF Frame, MoveKinds, InitCalls
    <3> QED
      BY <2>2, <3>1, FramesAreTyped
  <2> HIDE DEF f, g
  <2>4. Well(Goes(f), restrict_destruct, caught)
    BY <1>1, <1>2, <2>3, GoesWell DEF Saves
  <2>5. Well(Append(Goes(f), g), restrict_destruct, caught)
    <3>1. Well(Append(Goes(f), g),
               IF g.in = "moved" THEN g.otmp ELSE restrict_destruct, caught)
      BY <2>3, <2>4, PushWell DEF Saves
    <3> QED
      BY <2>3, <3>1
  <2>6. Goes(f) \o <<g>> = Append(Goes(f), g)
    BY <2>3, <2>4, AppendIsConcat DEF Well
  <2>7. Keeps' /\ caught' \in BOOLEAN
    BY <1>1, <2>1, <2>5, <2>6, StackKeeps, StackCaught
  <2> HIDE DEF otmp, link
  <2>8. /\ shadowing \in [Objects -> Pointer] /\ shadowed \in [Objects -> Pointer]
        /\ Acyclic(shadowing) /\ Acyclic(shadowed)
        /\ \A p, q \in Objects : shadowing[p] = q <=> shadowed[q] = p
    BY DEF Core, Types, Chains, Linked
  <2>9. /\ shadowing' \in [Objects -> Pointer] /\ shadowed' \in [Objects -> Pointer]
        /\ \A p \in Objects : shadowing'[p] =
             IF p = otmp THEN NoObject ELSE shadowing[p]
        /\ \A p \in Objects : shadowed'[p] =
             IF p = link THEN NoObject ELSE shadowed[p]
    BY <2>1, <2>2, <2>8 DEF Pointer
  <2>10. Linked'
    BY <2>2, <2>8, <2>9, ObjectsAssumption DEF Linked, link
  <2>11. /\ \A p \in Objects : shadowing'[p] \in {NoObject, shadowing[p]}
         /\ \A p \in Objects : shadowed'[p] \in {NoObject, shadowed[p]}
    BY <2>9
  <2>12. Acyclic(shadowing') /\ Acyclic(shadowed')
    <3>1. otmp \in Objects
      BY <2>2
    <3>2. shadowing' \in [Objects -> Pointer] /\ shadowed' \in [Objects -> Pointer]
      BY <2>9
    <3> QED
      BY <2>8, <2>11, <3>1, <3>2, BypassIsAcyclic
  <2>13. ShadowsNowhere'
    <3>1. super' = super
      BY <1>1 DEF places
    <3> QED
      BY <2>9, <3>1 DEF Core, Chains, ShadowsNowhere
  <2>14. Chains'
    BY <2>10, <2>12, <2>13 DEF Chains, Acyclic
  <2> QED
    BY <1>1, <2>7, <2>9, <2>14, ChainStep DEF Core, Types
<1> QED
  BY <1>3, <1>4

LEMMA AskToMoveKeeps ==
  ASSUME Core, AskToMove
  PROVE  Core'
<1> DEFINE h == Head(inv[Top.ob])
           f == [Top EXCEPT !.in = "moved", !.otmp = h]
<1>1. frames # <<>> /\ Top.in = "contents" /\ inv[Top.ob] # <<>>
  BY DEF AskToMove, CRuns
<1>2. Keeps /\ Top \in Frame /\ Saves(Top)
      /\ Owed(Below, Len(Below), Top.save, caught)
  <2>1. Keeps
    BY DEF Core, Keeps
  <2>2. Saves(Top)
    BY <1>1 DEF Saves
  <2> QED
    BY <1>1, <2>1, <2>2, TopSaves
<1>3. /\ Top \in [in : {"contents", "moved"}, ob : Objects, otmp : Pointer,
                  save : Pointer]
      /\ Top.ob \in Objects
  BY <1>1, <1>2, FrameFields
<1>4. h \in Objects
  <2>1. inv[Top.ob] \in Seq(Objects)
    BY <1>3 DEF Core, Types
  <2> QED
    BY <1>1, <2>1
<1> HIDE DEF h
<1>5. f \in Frame /\ f.in = "moved" /\ f.otmp = h /\ f.save = Top.save
  BY <1>3, <1>4 DEF Frame, Pointer
<1>6. h # NoObject
  BY <1>4, ObjectsAssumption
<1>7. CASE ~MayNest /\ Error
  BY <1>7, ErrorKeeps
<1>8. CASE MayNest /\ ~(~MayNest /\ Error)
  <2>1. /\ restrict_destruct' = h /\ Stack(Goes(f))
        /\ UNCHANGED <<places, chains, living, sent, destructed, command_giver>>
    BY <1>8, Zenon DEF AskToMove, h
  <2> HIDE DEF f
  <2>2. Well(Goes(f), h, caught)
    BY <1>1, <1>2, <1>5, <1>6, GoesWell
  <2>3. Keeps' /\ caught' \in BOOLEAN
    BY <2>1, <2>2, StackKeeps, StackCaught
  <2> QED
    BY <1>4, <2>1, <2>3, QuietStep DEF Core, Types, Pointer
<1> QED
  BY <1>7, <1>8, Zenon DEF AskToMove

LEMMA MoveOrDestructReturnsKeeps ==
  ASSUME Core, MoveOrDestructReturns
  PROVE  Core'
<1> DEFINE f == [Top EXCEPT !.in = "contents", !.otmp = NoObject]
           g == [in |-> "destruct", ob |-> Top.otmp]
<1>1. /\ frames # <<>> /\ Top.in = "moved"
      /\ restrict_destruct' = Top.save
      /\ UNCHANGED <<places, chains, living, sent, destructed, command_giver>>
  BY DEF MoveOrDestructReturns, RestrictAfter
<1>2. Keeps /\ Top \in Frame /\ Saves(Top)
      /\ Owed(Below, Len(Below), Top.save, caught)
  <2>1. Keeps
    BY DEF Core, Keeps
  <2>2. Saves(Top)
    BY <1>1 DEF Saves
  <2> QED
    BY <1>1, <2>1, <2>2, TopSaves
<1>3. /\ Top \in [in : {"contents", "moved"}, ob : Objects, otmp : Pointer,
                  save : Pointer]
      /\ Top.otmp \in Pointer /\ Top.save \in Pointer
  BY <1>1, <1>2, FrameFields
<1>4. Top.otmp \in Objects
  <2>1. /\ frames \in Seq(Frame) /\ Len(frames) \in Nat
        /\ DOMAIN frames = 1 .. Len(frames) /\ Len(frames) # 0
    BY <1>1, LenProperties, EmptySeq DEF Core, Well
  <2>2. Len(frames) \in DOMAIN frames /\ Top = frames[Len(frames)]
    BY <2>1 DEF Top, Last
  <2>3. Top.otmp # NoObject
    BY <1>1, <2>2 DEF Core, Well
  <2> QED
    BY <1>3, <2>3 DEF Pointer
<1>5. f \in Frame /\ f.in = "contents" /\ f.save = Top.save
  BY <1>3 DEF Frame, Pointer
<1>6. g \in Frame /\ g.in = "destruct"
  BY <1>4, FramesAreTyped
<1> HIDE DEF f, g
<1>7. Well(Goes(f), Top.save, caught)
  BY <1>1, <1>2, <1>5, GoesWell
<1>8. Well(Append(Goes(f), g), Top.save, caught)
  <2>1. Well(Append(Goes(f), g),
             IF g.in = "moved" THEN g.otmp ELSE Top.save, caught)
    BY <1>6, <1>7, PushWell DEF Saves
  <2> QED
    BY <1>6, <2>1
<1>9. Stack(Below) \/ Stack(Append(Goes(f), g)) \/ Stack(Goes(f))
  BY Zenon DEF MoveOrDestructReturns, f, g
<1>10. Keeps' /\ caught' \in BOOLEAN
  <2>1. CASE Stack(Below)
    BY <1>1, <1>2, <2>1, PopKeeps, StackCaught
  <2>2. CASE Stack(Append(Goes(f), g))
    BY <1>1, <1>8, <2>2, StackKeeps, StackCaught
  <2>3. CASE Stack(Goes(f))
    BY <1>1, <1>7, <2>3, StackKeeps, StackCaught
  <2> QED
    BY <1>9, <2>1, <2>2, <2>3
<1> QED
  BY <1>1, <1>3, <1>10, QuietStep DEF Core, Types

LEMMA FatalKeeps ==
  ASSUME Core, Fatal
  PROVE  Core'
<1>1. /\ UNCHANGED <<places, chains, living, sent, destructed>>
      /\ UNCHANGED <<restrict_destruct, command_giver, frames, caught>>
  BY DEF Fatal
<1>2. Keeps'
  BY <1>1 DEF Core, Keeps
<1> QED
  BY <1>1, <1>2, QuietStep DEF Core, Types

-----------------------------------------------------------------------------
(* Objects come and go *)

(* The inventories without o: o is in none, and the rest is as it was.     *)
LEMMA WithoutIs ==
  ASSUME Types, Places, NEW o \in Objects
  PROVE  /\ Without(o) \in [Objects -> Seq(Objects)]
         /\ \A p \in Objects : /\ ToSet(Without(o)[p]) = ToSet(inv[p]) \ {o}
                               /\ Once(Without(o)[p])
                               /\ inv[p] = <<>> => Without(o)[p] = <<>>
<1>1. /\ inv \in [Objects -> Seq(Objects)] /\ super \in [Objects -> Pointer]
      /\ \A p \in Objects : Once(inv[p])
      /\ \A p \in Objects : p # super[o] => o \notin ToSet(inv[p])
      /\ super[o] # NoObject => o \in ToSet(inv[super[o]])
  BY DEF Types, Places, NoneTwice, Placed, Listed
<1>2. CASE super[o] = NoObject
  <2>1. Without(o) = inv
    BY <1>2 DEF Without
  <2>2. \A p \in Objects : o \notin ToSet(inv[p])
    BY <1>1, <1>2, ObjectsAssumption
  <2> QED
    BY <1>1, <2>1, <2>2
<1>3. CASE super[o] # NoObject
  <2> DEFINE e == super[o]
             s == inv[e]
             t == RemoveAt(s, CHOOSE p \in DOMAIN s : s[p] = o)
  <2>1. e \in Objects /\ s \in Seq(Objects) /\ Once(s) /\ o \in ToSet(s)
    BY <1>1, <1>3 DEF Pointer
  <2>2. Without(o) = [inv EXCEPT ![e] = t]
    BY <1>3, Zenon DEF Without, Place
  <2> HIDE DEF s
  <2>3. t \in Seq(Objects) /\ ToSet(t) = ToSet(s) \ {o} /\ Once(t)
    BY <2>1, ListWithout
  <2> HIDE DEF t, e
  <2>4. s # <<>>
    BY <2>1 DEF ToSet
  <2>5. /\ Without(o) \in [Objects -> Seq(Objects)]
        /\ \A p \in Objects : Without(o)[p] = IF p = e THEN t ELSE inv[p]
    BY <1>1, <2>1, <2>2, <2>3
  <2>6. \A p \in Objects : p # e => o \notin ToSet(inv[p])
    BY <1>1 DEF e
  <2>7. s = inv[e]
    BY DEF s
  <2> QED
    BY <1>1, <2>3, <2>4, <2>5, <2>6, <2>7
<1> QED
  BY <1>2, <1>3

(* An action that is not loose is of one near: what that means for the one *)
(* it is to leave, in terms of those around it.                            *)
LEMMA NearIsAround ==
  ASSUME Types, Places, NEW u \in Objects, NEW o \in Objects, Near(u, o), u # o
  PROVE  /\ super[o] = u \/ super[u] = o \/ u \in Around(o)
         /\ super[o] = u => u \in Around(o)
         /\ super[u] = o => u \in ToSet(inv[o])
<1>1. CASE super[u] # NoObject /\ super[u] = super[o]
  <2>1. u \in ToSet(inv[super[o]])
    BY <1>1 DEF Places, Listed
  <2> QED
    BY <1>1, <2>1 DEF Around, Places, Listed
<1>2. super[o] = u => u \in Around(o)
  BY ObjectsAssumption DEF Around
<1>3. super[u] = o => u \in ToSet(inv[o])
  BY ObjectsAssumption DEF Places, Listed
<1> QED
  BY <1>1, <1>2, <1>3 DEF Near

LEMMA NearIsEither ==
  ASSUME NEW u \in Objects, NEW o \in Objects
  PROVE  Near(u, o) <=> Near(o, u)
BY DEF Near

LEMMA MoveObjectKeeps ==
  ASSUME Core, NEW item \in Objects, NEW dest \in Objects,
         MoveObject(item, dest)
  PROVE  Core'
<1> DEFINE f == [in |-> "arriving", item |-> item, dest |-> dest,
                 ob |-> NoObject, next |-> NoObject, giver |-> command_giver]
           all == Around(item) \ {item}
<1>1. /\ item \notin destructed /\ dest \notin destructed
      /\ item \notin Reached(super, dest) /\ shadowing[item] = NoObject
      /\ sent' = PartedFrom(item, all)
      /\ super' = [super EXCEPT ![item] = dest]
      /\ inv' = [Without(item) EXCEPT ![dest] = <<item>> \o @]
      /\ Stack(Append(frames, f))
      /\ UNCHANGED <<shadowing, shadowed, living, destructed>>
      /\ UNCHANGED <<restrict_destruct, command_giver>>
  BY DEF MoveObject, MayEnter, chains
<1>2. Types /\ Places /\ Chains /\ Actions /\ Keeps
  BY DEF Core, Keeps
<1>3. /\ super \in [Objects -> Pointer] /\ sent \in [Objects -> SUBSET Sentence]
      /\ NoObject \notin Objects
      /\ Listed /\ Placed /\ GoneNowhere
  BY <1>2, ObjectsAssumption DEF Types, Places
<1>4. /\ super' \in [Objects -> Pointer]
      /\ \A p \in Objects : super'[p] = IF p = item THEN dest ELSE super[p]
  BY <1>1, <1>3 DEF Pointer
<1>5. /\ inv' \in [Objects -> Seq(Objects)]
      /\ \A p \in Objects :
           /\ ToSet(inv'[p]) =
                IF p = dest THEN ToSet(inv[p]) \union {item}
                ELSE ToSet(inv[p]) \ {item}
           /\ Once(inv'[p])
           /\ p # dest /\ inv[p] = <<>> => inv'[p] = <<>>
  <2> DEFINE w == Without(item)
             t == <<item>> \o w[dest]
  <2>1. /\ w \in [Objects -> Seq(Objects)]
        /\ \A p \in Objects : /\ ToSet(w[p]) = ToSet(inv[p]) \ {item}
                              /\ Once(w[p])
                              /\ inv[p] = <<>> => w[p] = <<>>
    BY <1>2, WithoutIs
  <2>2. inv' = [w EXCEPT ![dest] = t]
    BY <1>1
  <2> HIDE DEF w
  <2>3. w[dest] \in Seq(Objects) /\ Once(w[dest]) /\ item \notin ToSet(w[dest])
    BY <2>1
  <2>4. t \in Seq(Objects) /\ ToSet(t) = ToSet(w[dest]) \union {item} /\ Once(t)
    BY <2>3, ListWithFirst
  <2> HIDE DEF t
  <2>5. /\ inv' \in [Objects -> Seq(Objects)]
        /\ \A p \in Objects : inv'[p] = IF p = dest THEN t ELSE w[p]
    BY <2>1, <2>2, <2>4
  <2> QED
    BY <2>1, <2>4, <2>5
<1>6. sent' \in [Objects -> SUBSET Sentence]
      /\ \A u \in Objects : sent'[u] \subseteq sent[u]
  BY <1>1, <1>3 DEF PartedFrom
<1>7. Types'
  BY <1>1, <1>2, <1>4, <1>5, <1>6, StackCaught DEF Types
<1>8. Places'
  <2>1. Listed'
    BY <1>3, <1>4, <1>5 DEF Listed, Pointer
  <2>2. Placed'
    <3> SUFFICES ASSUME NEW o \in Objects, NEW p \in ToSet(inv'[o])
                 PROVE  super'[p] = o
      BY DEF Placed
    <3>1. p \in Objects
      BY <1>5, ElementOfSeq DEF ToSet
    <3>2. p \in ToSet(inv[o]) => super[p] = o
      BY <1>3 DEF Placed
    <3> QED
      BY <1>4, <1>5, <3>1, <3>2
  <2>3. NoneTwice'
    BY <1>5 DEF NoneTwice
  <2>4. GoneNowhere'
    <3> SUFFICES ASSUME NEW o \in destructed
                 PROVE  super'[o] = NoObject /\ inv'[o] = <<>>
      BY <1>1 DEF GoneNowhere
    <3>1. o \in Objects /\ o # item /\ o # dest
      BY <1>1, <1>2 DEF Types
    <3> QED
      BY <1>3, <1>4, <1>5, <3>1 DEF GoneNowhere
  <2>5. Acyclic(super')
    <3>1. Acyclic(super)
      BY <1>2 DEF Places
    <3> QED
      BY <1>1, <1>3, <3>1, LinkIsAcyclic
  <2> QED
    BY <2>1, <2>2, <2>3, <2>4, <2>5 DEF Places, Acyclic
<1>9. Chains'
  <2>1. Linked' /\ Acyclic(shadowing)' /\ Acyclic(shadowed)'
    BY <1>1, <1>2 DEF Chains, Linked
  <2>2. ShadowsNowhere'
    BY <1>1, <1>2, <1>4 DEF Chains, ShadowsNowhere
  <2> QED
    BY <2>1, <2>2 DEF Chains
<1>10. Actions'
  <2> SUFFICES ASSUME NEW u \in Objects \ destructed, NEW s \in sent'[u], ~s.loose
               PROVE  /\ s.ob \notin destructed /\ Near(u, s.ob)'
                      /\ u \notin living => s.ob = u
    BY <1>1 DEF Actions
  <2>1. s \in sent[u] /\ s.ob \in Objects
    BY <1>3, <1>6 DEF Sentence
  <2>2. s.ob \notin destructed /\ Near(u, s.ob) /\ (u \notin living => s.ob = u)
    BY <1>2, <2>1 DEF Actions
  <2>3. CASE u = s.ob
    BY <2>2, <2>3 DEF Near
  <2>4. CASE u # s.ob
    <3>1. u \in living
      BY <2>2, <2>4
    <3>2. CASE u = item
      <4>1. s.ob \notin all
        BY <1>1, <3>1, <3>2 DEF PartedFrom
      <4>2. s.ob \notin Around(item)
        BY <2>4, <3>2, <4>1
      <4>3. super[s.ob] = item
        BY <1>2, <2>1, <2>2, <2>4, <3>2, <4>2, NearIsAround, NearIsEither
      <4> QED
        BY <1>4, <2>1, <2>2, <2>4, <3>1, <3>2, <4>3 DEF Near
    <3>3. CASE s.ob = item
      <4>1. u \notin all
        BY <1>1, <2>4, <3>1, <3>3 DEF PartedFrom
      <4>2. u \notin Around(item)
        BY <2>4, <3>3, <4>1
      <4>3. super[u] = item
        BY <1>2, <2>1, <2>2, <2>4, <3>3, <4>2, NearIsAround
      <4> QED
        BY <1>4, <2>1, <2>2, <2>4, <3>1, <3>3, <4>3 DEF Near
    <3>4. CASE u # item /\ s.ob # item
      BY <1>4, <2>1, <2>2, <3>1, <3>4 DEF Near
    <3> QED
      BY <3>2, <3>3, <3>4
  <2> QED
    BY <2>3, <2>4
<1>11. Keeps'
  <2>1. f \in Frame /\ ~Saves(f)
    <3>1. command_giver \in Pointer
      BY <1>2 DEF Types
    <3> QED
      BY <3>1 DEF Frame, MoveKinds, Pointer, Saves
  <2> HIDE DEF f
  <2> QED
    BY <1>1, <1>2, <2>1, PushKeeps
<1> QED
  BY <1>7, <1>8, <1>9, <1>10, <1>11 DEF Core, Keeps

LEMMA DestructEndsKeeps ==
  ASSUME Core, DestructEnds
  PROVE  Core'
<1> DEFINE ob == Top.ob
           all == Around(ob)
<1>1. /\ frames # <<>> /\ Top.in = "contents"
      /\ inv[ob] = <<>> /\ ob \notin destructed
      /\ sent' = PartedFrom(ob, all)
      /\ living' = living \ {ob}
      /\ inv' = Without(ob)
      /\ super' = [super EXCEPT ![ob] = NoObject]
      /\ destructed' = destructed \union {ob}
      /\ Stack(Below)
      /\ UNCHANGED <<shadowing, shadowed, restrict_destruct, command_giver>>
  BY DEF DestructEnds, CRuns, chains
<1>2. Types /\ Places /\ Chains /\ Actions /\ Keeps
  BY DEF Core, Keeps
<1>3. ob \in Objects
  BY <1>1, <1>2, TopSaves, FrameFields
<1>4. /\ super \in [Objects -> Pointer] /\ sent \in [Objects -> SUBSET Sentence]
      /\ NoObject \notin Objects
      /\ Listed /\ Placed /\ GoneNowhere
  BY <1>2, ObjectsAssumption DEF Types, Places
<1> HIDE DEF ob
<1>5. /\ super' \in [Objects -> Pointer]
      /\ \A p \in Objects : super'[p] = IF p = ob THEN NoObject ELSE super[p]
  BY <1>1, <1>3, <1>4 DEF Pointer
<1>6. /\ inv' \in [Objects -> Seq(Objects)]
      /\ \A p \in Objects : /\ ToSet(inv'[p]) = ToSet(inv[p]) \ {ob}
                            /\ Once(inv'[p])
                            /\ inv[p] = <<>> => inv'[p] = <<>>
  BY <1>1, <1>2, <1>3, WithoutIs
<1>7. sent' \in [Objects -> SUBSET Sentence]
      /\ \A u \in Objects : sent'[u] \subseteq sent[u]
  BY <1>1, <1>4 DEF PartedFrom
<1>8. Types'
  BY <1>1, <1>2, <1>3, <1>5, <1>6, <1>7, StackCaught DEF Types
<1>9. Places'
  <2>1. Listed'
    BY <1>4, <1>5, <1>6 DEF Listed, Pointer
  <2>2. Placed'
    <3> SUFFICES ASSUME NEW o \in Objects, NEW p \in ToSet(inv'[o])
                 PROVE  super'[p] = o
      BY DEF Placed
    <3>1. p \in Objects
      BY <1>6, ElementOfSeq DEF ToSet
    <3> QED
      BY <1>4, <1>5, <1>6, <3>1 DEF Placed
  <2>3. NoneTwice'
    BY <1>6 DEF NoneTwice
  <2>4. GoneNowhere'
    <3> SUFFICES ASSUME NEW o \in destructed \union {ob}
                 PROVE  super'[o] = NoObject /\ inv'[o] = <<>>
      BY <1>1 DEF GoneNowhere
    <3>1. o \in Objects
      BY <1>2, <1>3 DEF Types
    <3> QED
      BY <1>1, <1>4, <1>5, <1>6, <3>1 DEF GoneNowhere
  <2>5. Acyclic(super')
    <3>1. Acyclic(super)
      BY <1>2 DEF Places
    <3>2. \A p \in Objects : super'[p] \in {NoObject, super[p]}
      BY <1>5
    <3>3. super \in [Objects -> Pointer] /\ super' \in [Objects -> Pointer]
      BY <1>4, <1>5
    <3> QED
      BY <1>3, <3>1, <3>2, <3>3, BypassIsAcyclic
  <2> QED
    BY <2>1, <2>2, <2>3, <2>4, <2>5 DEF Places, Acyclic
<1>10. Chains'
  <2>1. Linked' /\ Acyclic(shadowing)' /\ Acyclic(shadowed)'
    BY <1>1, <1>2 DEF Chains, Linked
  <2>2. ShadowsNowhere'
    BY <1>1, <1>2, <1>5 DEF Chains, ShadowsNowhere
  <2> QED
    BY <2>1, <2>2 DEF Chains
<1>11. Actions'
  <2> SUFFICES ASSUME NEW u \in Objects \ (destructed \union {ob}),
                      NEW s \in sent'[u], ~s.loose
               PROVE  /\ s.ob \notin destructed \union {ob} /\ Near(u, s.ob)'
                      /\ u \notin living \ {ob} => s.ob = u
    BY <1>1 DEF Actions
  <2>1. s \in sent[u] /\ s.ob \in Objects
    BY <1>4, <1>7 DEF Sentence
  <2>2. s.ob \notin destructed /\ Near(u, s.ob) /\ (u \notin living => s.ob = u)
    BY <1>2, <2>1 DEF Actions
  <2>3. s.ob # ob
    <3> SUFFICES ASSUME s.ob = ob PROVE FALSE
      OBVIOUS
    <3>1. u \in living
      BY <2>2
    <3>2. u \notin Around(ob)
      BY <1>1, <3>1 DEF PartedFrom
    <3>3. u \in ToSet(inv[ob])
      BY <1>2, <1>3, <2>2, <3>2, NearIsAround
    <3> QED
      BY <1>1, <3>3 DEF ToSet
  <2> QED
    BY <1>5, <2>1, <2>2, <2>3 DEF Near
<1>12. Keeps'
  BY <1>1, <1>2, PopKeeps
<1> QED
  BY <1>8, <1>9, <1>10, <1>11, <1>12 DEF Core, Keeps

-----------------------------------------------------------------------------
(* Efuns that only write *)

(* Efuns that leave the chains of shadows alone.                           *)
LEMMA EfunStep ==
  ASSUME Core, EfunChanges, UNCHANGED chains,
         living' \subseteq Users, sent' \in [Objects -> SUBSET Sentence],
         command_giver' \in Pointer, Actions'
  PROVE  Core'
<1>1. /\ UNCHANGED <<super, inv, shadowing, shadowed, destructed>>
      /\ UNCHANGED <<restrict_destruct, frames, caught>>
  BY DEF EfunChanges, places, chains
<1>2. Types'
  BY <1>1 DEF Core, Types
<1>3. Places'
  BY <1>1 DEF Core, Places, Listed, Placed, NoneTwice, GoneNowhere
<1>4. Chains'
  BY <1>1 DEF Core, Chains, Linked, ShadowsNowhere
<1> QED
  BY <1>1, <1>2, <1>3, <1>4 DEF Core

(* Efuns that change nothing else.                                         *)
LEMMA ChainEfun ==
  ASSUME Core, EfunChanges, UNCHANGED <<living, sent, command_giver>>,
         shadowing' \in [Objects -> Pointer], shadowed' \in [Objects -> Pointer],
         Chains'
  PROVE  Core'
<1>1. Keeps' /\ caught' \in BOOLEAN
  BY DEF Core, Keeps, Types, EfunChanges
<1> QED
  BY <1>1, ChainStep DEF EfunChanges, Core, Types

(* Where nothing links to o, no walk comes to o.                           *)
LEMMA NotReached ==
  ASSUME NEW link, NEW o \in Objects, NEW d \in Objects, d # o,
         \A q \in Objects : link[q] \in Pointer \ {o}
  PROVE  o \notin Reached(link, d)
<1> DEFINE S == Objects \ {o}
<1>1. S \in SUBSET Objects /\ d \in S /\ o \notin S
  OBVIOUS
<1>2. \A q \in S : link[q] \in S \union {NoObject}
  BY DEF Pointer
<1> QED
  BY <1>1, <1>2 DEF Reached

LEMMA ShadowKeeps ==
  ASSUME Core, NEW o \in Objects, NEW ob \in Objects, Shadow(o, ob)
  PROVE  Core'
<1> DEFINE end == End(shadowed, ob)
<1>1. /\ o # ob /\ shadowing[o] = NoObject /\ shadowed[o] = NoObject
      /\ super[o] = NoObject
      /\ shadowing' = [shadowing EXCEPT ![o] = end]
      /\ shadowed' = [shadowed EXCEPT ![end] = o]
      /\ UNCHANGED <<living, sent, command_giver>> /\ EfunChanges
  BY DEF Shadow
<1>2. /\ shadowing \in [Objects -> Pointer] /\ shadowed \in [Objects -> Pointer]
      /\ Acyclic(shadowing) /\ Acyclic(shadowed)
      /\ \A p, q \in Objects : shadowing[p] = q <=> shadowed[q] = p
      /\ ShadowsNowhere /\ NoObject \notin Objects
  BY ObjectsAssumption DEF Core, Types, Chains, Linked
<1>3. /\ \A q \in Objects : shadowed[q] \in Pointer \ {o}
      /\ \A q \in Objects : shadowing[q] \in Pointer \ {o}
  BY <1>1, <1>2
<1>4. end \in Objects /\ end \in Reached(shadowed, ob) /\ shadowed[end] = NoObject
  BY <1>2, EndOf
<1>5. end # o
  BY <1>1, <1>3, <1>4, NotReached
<1>6. o \notin Reached(shadowing, end)
  BY <1>3, <1>4, <1>5, NotReached
<1>7. end \notin Reached(shadowed, o)
  <2> DEFINE S == {o}
  <2>1. S \in SUBSET Objects /\ o \in S /\ end \notin S
    BY <1>5
  <2>2. \A q \in S : shadowed[q] \in S \union {NoObject}
    BY <1>1
  <2> HIDE DEF S
  <2> QED
    BY <2>1, <2>2 DEF Reached
<1> HIDE DEF end
<1>8. Acyclic(shadowing')
  BY <1>1, <1>2, <1>4, <1>6, LinkIsAcyclic
<1>9. Acyclic(shadowed')
  BY <1>1, <1>2, <1>4, <1>7, LinkIsAcyclic
<1>10. /\ shadowing' \in [Objects -> Pointer] /\ shadowed' \in [Objects -> Pointer]
       /\ \A p \in Objects : shadowing'[p] = IF p = o THEN end ELSE shadowing[p]
       /\ \A p \in Objects : shadowed'[p] = IF p = end THEN o ELSE shadowed[p]
  BY <1>1, <1>2, <1>4 DEF Pointer
<1>11. Linked'
  BY <1>1, <1>2, <1>4, <1>5, <1>10 DEF Linked
<1>12. ShadowsNowhere'
  BY <1>1, <1>2, <1>10 DEF ShadowsNowhere, EfunChanges, places
<1>13. Chains'
  BY <1>8, <1>9, <1>11, <1>12 DEF Chains, Acyclic
<1> QED
  BY <1>1, <1>10, <1>13, ChainEfun

LEMMA RemoveShadowKeeps ==
  ASSUME Core, NEW o \in Objects, RemoveShadow(o)
  PROVE  Core'
<1>1. /\ Unlinked(o) /\ UNCHANGED <<living, sent, command_giver>> /\ EfunChanges
      /\ UNCHANGED super
  BY DEF RemoveShadow, EfunChanges, places
<1>2. /\ shadowing' \in [Objects -> Pointer] /\ shadowed' \in [Objects -> Pointer]
      /\ Chains'
  BY <1>1, UnlinkedKeeps DEF Core
<1> QED
  BY <1>1, <1>2, ChainEfun

LEMMA EnableCommandsKeeps ==
  ASSUME Core, NEW o \in Objects, EnableCommands(o)
  PROVE  Core'
<1>1. /\ o \in Users /\ living' = living \union {o} /\ command_giver' = o
      /\ UNCHANGED <<chains, sent>> /\ EfunChanges
      /\ UNCHANGED <<super, destructed>>
  BY DEF EnableCommands, EfunChanges, places
<1>2. Actions'
  BY <1>1 DEF Core, Actions, Near
<1> QED
  BY <1>1, <1>2, EfunStep DEF Core, Types, Pointer

LEMMA DisableCommandsKeeps ==
  ASSUME Core, NEW o \in Objects, DisableCommands(o)
  PROVE  Core'
<1> DEFINE gone == Around(o) \union ToSet(inv[o])
<1>1. /\ sent' = [sent EXCEPT ![o] = {s \in @ : s.ob \notin gone}]
      /\ living' = living \ {o}
      /\ command_giver' = IF o = command_giver THEN NoObject ELSE command_giver
      /\ UNCHANGED chains /\ EfunChanges
      /\ UNCHANGED <<super, inv, destructed>>
  BY DEF DisableCommands, EfunChanges, places
<1>2. Types /\ Places /\ Actions
  BY DEF Core
<1>3. /\ sent' \in [Objects -> SUBSET Sentence]
      /\ \A u \in Objects : sent'[u] \subseteq sent[u]
      /\ \A s \in sent'[o] : s.ob \notin gone
  BY <1>1, <1>2 DEF Types
<1>4. Actions'
  <2> SUFFICES ASSUME NEW u \in Objects \ destructed, NEW s \in sent'[u], ~s.loose
               PROVE  /\ s.ob \notin destructed /\ Near(u, s.ob)
                      /\ u \notin living \ {o} => s.ob = u
    BY <1>1 DEF Actions, Near
  <2>1. /\ s.ob \in Objects /\ s.ob \notin destructed /\ Near(u, s.ob)
        /\ u \notin living => s.ob = u
    BY <1>2, <1>3 DEF Actions, Types, Sentence
  <2>2. CASE u = o /\ s.ob # o
    <3>1. s.ob \notin gone
      BY <1>3, <2>2
    <3>2. Near(s.ob, o)
      BY <2>1, <2>2, NearIsEither
    <3>3. super[o] = s.ob \/ super[s.ob] = o \/ s.ob \in Around(o)
      BY <1>2, <2>1, <2>2, <3>2, NearIsAround
    <3>4. s.ob \in gone
      BY <1>2, <2>1, <2>2, <3>2, <3>3, NearIsAround
    <3> QED
      BY <3>1, <3>4
  <2> QED
    BY <2>1, <2>2
<1> HIDE DEF gone
<1>5. command_giver' \in Pointer /\ living' \subseteq Users
  BY <1>1, <1>2 DEF Types, Pointer
<1> QED
  BY <1>1, <1>3, <1>4, <1>5, EfunStep

LEMMA AddActionKeeps ==
  ASSUME Core, NEW o \in Objects, AddAction(o)
  PROVE  Core'
<1> DEFINE ob == End(shadowing, o)
           u == command_giver
           new == [ob |-> ob, loose |-> u \notin living \/ ~Near(u, ob)]
<1>1. /\ u \notin destructed \union {NoObject}
      /\ sent' = [sent EXCEPT ![u] = @ \union {new}]
      /\ UNCHANGED <<chains, living, command_giver>> /\ EfunChanges
      /\ UNCHANGED <<super, inv, destructed>>
  BY DEF AddAction, EfunChanges, places
<1>2. Types /\ Places /\ Actions
  BY DEF Core
<1>3. ob \in Objects /\ u \in Objects
  <2>1. ob \in Objects
    BY EndOf DEF Core, Types, Chains
  <2> QED
    BY <1>1, <1>2, <2>1 DEF Types, Pointer
<1> HIDE DEF ob, u
<1>4. new \in Sentence /\ new.ob = ob /\ (~new.loose => u \in living /\ Near(u, ob))
  BY <1>3 DEF Sentence
<1> HIDE DEF new
<1>5. /\ sent' \in [Objects -> SUBSET Sentence]
      /\ \A p \in Objects :
           sent'[p] = IF p = u THEN sent[u] \union {new} ELSE sent[p]
  BY <1>1, <1>2, <1>3, <1>4 DEF Types
<1>6. ~new.loose => ob \notin destructed
  <2> SUFFICES ASSUME u \in living, Near(u, ob), ob \in destructed PROVE FALSE
    BY <1>4
  <2>1. super[ob] = NoObject /\ inv[ob] = <<>> /\ u # ob
    BY <1>1, <1>2 DEF Places, GoneNowhere
  <2>2. super[u] # ob
    BY <1>2, <1>3, <2>1, ObjectsAssumption DEF Places, Listed, ToSet
  <2> QED
    BY <1>3, <2>1, <2>2, ObjectsAssumption DEF Near
<1>7. Actions'
  <2> SUFFICES ASSUME NEW p \in Objects \ destructed, NEW s \in sent'[p], ~s.loose
               PROVE  /\ s.ob \notin destructed /\ Near(p, s.ob)
                      /\ p \notin living => s.ob = p
    BY <1>1 DEF Actions, Near
  <2>1. CASE s \in sent[p]
    BY <1>2, <2>1 DEF Actions
  <2>2. CASE p = u /\ s = new
    BY <1>4, <1>6, <2>2
  <2> QED
    BY <1>5, <2>1, <2>2
<1> QED
  BY <1>1, <1>2, <1>5, <1>7, EfunStep DEF Types

LEMMA RemoveActionKeeps ==
  ASSUME Core, NEW o \in Objects, RemoveAction(o)
  PROVE  Core'
<1> DEFINE u == IF command_giver = NoObject THEN o ELSE command_giver
<1>1. PICK s \in sent[u] : sent' = [sent EXCEPT ![u] = @ \ {s}]
  BY Zenon DEF RemoveAction
<1>2. /\ UNCHANGED <<chains, living, command_giver>> /\ EfunChanges
      /\ UNCHANGED <<super, destructed>>
  BY DEF RemoveAction, EfunChanges, places
<1> HIDE DEF u
<1>3. /\ sent' \in [Objects -> SUBSET Sentence]
      /\ \A p \in Objects : sent'[p] \subseteq sent[p]
  BY <1>1 DEF Core, Types
<1>4. Actions'
  BY <1>2, <1>3 DEF Core, Actions, Near
<1> QED
  BY <1>2, <1>3, <1>4, EfunStep DEF Core, Types

LEMMA NewTaskKeeps ==
  ASSUME Core, NewTask
  PROVE  Core'
<1>1. /\ UNCHANGED <<chains, living, sent>> /\ EfunChanges
      /\ UNCHANGED <<super, destructed>>
      /\ command_giver' \in Pointer
  BY ObjectsAssumption DEF NewTask, EfunChanges, places, Pointer
<1>2. Actions'
  BY <1>1 DEF Core, Actions, Near
<1> QED
  BY <1>1, <1>2, EfunStep DEF Core, Types

-----------------------------------------------------------------------------
(* The whole *)

LEMMA InitHasIInv == Init => IInv
<1> SUFFICES ASSUME Init PROVE IInv
  OBVIOUS
<1>1. /\ super = [o \in Objects |-> NoObject] /\ inv = [o \in Objects |-> <<>>]
      /\ shadowing = [o \in Objects |-> NoObject]
      /\ shadowed = [o \in Objects |-> NoObject]
      /\ living = {} /\ sent = [o \in Objects |-> {}] /\ destructed = {}
      /\ restrict_destruct = NoObject /\ command_giver = NoObject
      /\ frames = <<>> /\ caught = FALSE /\ efuns = 0
  BY DEF Init
<1>2. Types
  BY <1>1, EmptySeq DEF Types, Pointer
<1>3. \A link : link = [o \in Objects |-> NoObject] => Acyclic(link)
  BY ObjectsAssumption DEF Acyclic
<1>4. Places
  <2>1. ToSet(<<>>) = {} /\ Once(<<>>)
    BY DEF ToSet, Once
  <2> QED
    BY <1>1, <1>3, <2>1 DEF Places, Listed, Placed, NoneTwice, GoneNowhere
<1>5. Chains
  BY <1>1, <1>3, ObjectsAssumption DEF Chains, Linked, ShadowsNowhere
<1>6. Actions
  BY <1>1 DEF Actions
<1>7. Well(frames, restrict_destruct, caught)
  <2>1. Len(<<>>) = 0 /\ DOMAIN <<>> = {} /\ <<>> \in Seq(Frame)
    BY EmptySeq
  <2>2. Asks(<<>>, 0, NoObject)
    BY DEF Asks
  <2> QED
    BY <1>1, <2>1, <2>2 DEF Well, Owed
<1>8. efuns \in 0 .. MaxEfuns
  BY <1>1, ObjectsAssumption
<1> QED
  BY <1>2, <1>4, <1>5, <1>6, <1>7, <1>8 DEF IInv, Core

LEMMA EfunKeeps ==
  ASSUME Core, Efun
  PROVE  Core'
<1>1. CASE \E o, p \in Objects : MoveObject(o, p) \/ MoveFails(o, p) \/ Shadow(o, p)
  BY <1>1, MoveObjectKeeps, ErrorKeeps, ShadowKeeps DEF MoveFails
<1>2. CASE \E o \in Objects :
             \/ Destruct(o) \/ RemoveShadow(o)
             \/ EnableCommands(o) \/ DisableCommands(o)
             \/ AddAction(o) \/ RemoveAction(o)
  BY <1>2, StartsKeeps, RemoveShadowKeeps, EnableCommandsKeeps,
     DisableCommandsKeeps, AddActionKeeps, RemoveActionKeeps DEF Destruct
<1> QED
  BY <1>1, <1>2 DEF Efun

LEMMA NextKeeps == IInv /\ [Next]_vars => IInv'
<1> SUFFICES ASSUME IInv, [Next]_vars PROVE IInv'
  OBVIOUS
<1>1. Core /\ efuns \in 0 .. MaxEfuns
  BY DEF IInv
<1>2. CASE Efun
  <2>1. efuns' \in 0 .. MaxEfuns
    BY <1>1, <1>2, ObjectsAssumption DEF Efun
  <2> QED
    BY <1>1, <1>2, <2>1, EfunKeeps DEF IInv
<1>3. CASE UNCHANGED efuns /\ Next
  <2>1. \/ NewTask \/ Error \/ Arrive \/ Meet \/ InitReturns
        \/ DestructStarts \/ DestructChain \/ AskToMove
        \/ MoveOrDestructReturns \/ DestructEnds \/ Fatal \/ Efun
    BY <1>3 DEF Next
  <2>2. Core'
    BY <1>1, <2>1, NewTaskKeeps, ErrorKeeps, ArriveKeeps, MeetKeeps,
       InitReturnsKeeps, DestructStartsKeeps, DestructChainKeeps, AskToMoveKeeps,
       MoveOrDestructReturnsKeeps, DestructEndsKeeps, FatalKeeps, EfunKeeps
  <2> QED
    BY <1>1, <1>3, <2>2 DEF IInv
<1>4. CASE UNCHANGED vars
  <2>1. UNCHANGED <<places, chains, living, sent, destructed>>
        /\ UNCHANGED <<restrict_destruct, command_giver, frames, caught, efuns>>
    BY <1>4 DEF vars, places, chains
  <2>2. Keeps'
    BY <1>1, <2>1 DEF Core, Keeps
  <2>3. Core'
    BY <1>1, <2>1, <2>2, QuietStep DEF Core, Types
  <2> QED
    BY <1>1, <2>1, <2>3 DEF IInv
<1> QED
  BY <1>2, <1>3, <1>4 DEF Next

(* In every reachable state the invariant holds.                           *)
THEOREM Invariance == Spec => []IInv
BY InitHasIInv, NextKeeps, PTL DEF Spec

(* Every variable has its type, whatever init(), move_or_destruct() and    *)
(* errors do to the moves and destructs that called them.                  *)
THEOREM TypeOKHolds == Spec => []TypeOK
BY Invariance, IInvIsTyped, PTL

(* The inventory lists and the environments agree, nothing is inside       *)
(* itself, and what is destructed is nowhere.                              *)
THEOREM InventoryMatchesHolds == Spec => []InventoryMatches
BY Invariance, IInvPlaces, PTL

(* Shadows are linked both ways, in chains that end, and are nowhere.      *)
THEOREM ShadowsMatchHolds == Spec => []ShadowsMatch
BY Invariance, IInvChains, PTL

(* An action of an object that was near goes when the two part.            *)
THEOREM ActionsAreNearHolds == Spec => []ActionsAreNear
BY Invariance, IInvActions, PTL

(* While no error was caught, what may be destructed is what the innermost *)
(* move_or_destruct() was called in.                                       *)
THEOREM RestrictMatchesHolds == Spec => []RestrictMatches
BY Invariance, IInvRestricts, PTL
=============================================================================
