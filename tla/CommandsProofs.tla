---------------------------- MODULE CommandsProofs ----------------------------
(***************************************************************************)
(* For any number of users, any buffer and any typing: the types of        *)
(* Commands are kept, CMD_IN_BUF is set while there is a command, users    *)
(* who were never in character mode give whole lines, and a round that     *)
(* ends for want of a command leaves none; but half a line that get_char() *)
(* was called over is a command that waits without CMD_IN_BUF.             *)
(***************************************************************************)
EXTENDS Commands, FiniteSetTheorems, SequenceTheorems, WellFoundedInduction,
        TLAPS

(* Where in its line a user is after typing x.                             *)
Passed(x) == IF x < 0 THEN 0 ELSE x

(* The text goes on from position p of a line, and ends at position q.     *)
Before(text, p, j) == IF j = 1 THEN p ELSE Passed(text[j - 1])
Follows(text, p) ==
  \A j \in DOMAIN text :
    \/ text[j] = Before(text, p, j) + 1
    \/ text[j] = -(Before(text, p, j) + 1)
Reaches(text, p, q) ==
  /\ Follows(text, p)
  /\ q = IF text = <<>> THEN p ELSE Passed(text[Len(text)])

(* What is in the buffer of a user who was never in character mode: the    *)
(* rest of a line to be skipped, or whole lines and the beginning of one.  *)
Flows(u) ==
  /\ "SINGLE_CHAR" \notin u.iflags
  /\ \E p \in Nat : /\ Reaches(u.text, p, u.line)
                    /\ "SKIP_COMMAND" \notin u.iflags => p = 0

Kept(u) ==
  /\ "SKIP_COMMAND" \in u.iflags => Newlines(u.text) = {}
  /\ Newlines(u.text) # {} => "CMD_IN_BUF" \in u.iflags
  /\ "CMD_IN_BUF" \in u.iflags => u.text # <<>>
  /\ "SINGLE_CHAR" \in u.iflags => "CMD_IN_BUF" \in u.iflags \/ u.text = <<>> \/ u.ahead
  /\ ~u.char =>
       /\ Flows(u)
       /\ "CMD_IN_BUF" \in u.iflags => Newlines(u.text) # {}

Whole(line) ==
  line = [j \in 1 .. Len(line) |-> IF j = Len(line) THEN -Len(line) ELSE j]

(* Only a user who called get_char() has the rest of the text flushed.     *)
Running ==
  at.in = "command" /\ Here(at.giver) /\ ~all_users[at.giver].char =>
    Whole(at.command) /\ ~at.flushes

(* The turns since it was user i's.                                        *)
Since(i) == IF i < NextCmdGiver THEN NextCmdGiver - i
            ELSE NextCmdGiver - i + MaxUsers

(* Whose turn it was in this scan has no command, or no connection.        *)
Scanned ==
  at.in = "scan" =>
    \A i \in SlotNo :
      Since(i) <= at.scanned => (Has(i, "CMD_IN_BUF") => Has(i, "NET_DEAD"))

Table ==
  /\ all_users \in [SlotNo -> User \union {NoUser}]
  /\ \A i \in SlotNo : Here(i) => Kept(all_users[i])

IInv ==
  /\ Table
  /\ NextCmdGiver \in SlotNo /\ at \in Place /\ typed \in 0 .. MaxTyped
  /\ Running
  /\ Scanned

-----------------------------------------------------------------------------
(* Numbers *)

(* Every set of natural numbers that has a member has a least one.         *)
LEMMA LeastNumber ==
  ASSUME NEW T \in SUBSET Nat, T # {}
  PROVE  \E m \in T : \A k \in T : m <= k
<1> DEFINE R == StrictSubsetOrdering(Nat)
           F == FiniteSubsetsOf(Nat)
           V == {0 .. k : k \in T}
<1>1. IsWellFoundedOn(R, F)
  BY FS_StrictSubsetOrderingWellFounded
<1>2. V \subseteq F
  <2> SUFFICES ASSUME NEW k \in T PROVE 0 .. k \in F
    OBVIOUS
  <2>1. k \in Nat /\ IsFiniteSet(0 .. k) /\ 0 .. k \subseteq Nat
    BY FS_Interval
  <2> QED
    BY <2>1 DEF FiniteSubsetsOf
<1>3. V # {}
  OBVIOUS
<1>4. PICK v \in V : \A w \in V : ~(<<w, v>> \in R)
  <2> HIDE DEF R, F, V
  <2> QED
    BY <1>1, <1>2, <1>3, WFMin
<1>5. PICK m \in T : v = 0 .. m
  OBVIOUS
<1>6. ASSUME NEW k \in T PROVE m <= k
  <2> SUFFICES ASSUME ~(m <= k) PROVE FALSE
    OBVIOUS
  <2>1. m \in Nat /\ k \in Nat /\ k < m
    OBVIOUS
  <2>2. /\ 0 .. k \in SUBSET Nat /\ 0 .. m \in SUBSET Nat
        /\ 0 .. k \subseteq 0 .. m /\ 0 .. k # 0 .. m
    BY <2>1
  <2>3. <<0 .. k, 0 .. m>> \in R
    BY <2>2 DEF StrictSubsetOrdering
  <2> QED
    BY <1>4, <1>5, <2>3
<1> QED
  BY <1>6

LEMMA MinIs ==
  ASSUME NEW T \in SUBSET Nat, T # {}
  PROVE  Min(T) \in T /\ \A k \in T : Min(T) <= k
<1>1. \E m \in T : \A k \in T : m <= k
  BY LeastNumber
<1> QED
  BY <1>1 DEF Min

LEMMA MaxIs ==
  ASSUME NEW n \in Nat, NEW T \in SUBSET (1 .. n), T # {}
  PROVE  Max(T) \in T /\ \A k \in T : Max(T) >= k
<1> DEFINE U == {n - k : k \in T}
<1>1. U \in SUBSET Nat /\ U # {}
  <2>1. \A k \in T : n - k \in Nat
    OBVIOUS
  <2> QED
    BY <2>1
<1> HIDE DEF U
<1>2. PICK d \in U : \A e \in U : d <= e
  BY <1>1, LeastNumber
<1>3. PICK m \in T : d = n - m
  BY DEF U
<1>4. ASSUME NEW k \in T PROVE m >= k
  <2>1. n - k \in U
    BY DEF U
  <2> QED
    BY <1>2, <1>3, <2>1
<1>5. \E x \in T : \A k \in T : x >= k
  BY <1>4
<1> QED
  BY <1>5 DEF Max

(* A turn ahead, in a table of so many slots.                              *)
LEMMA TurnIs ==
  ASSUME NEW n \in SlotNo
  PROVE  /\ (n + 1) % MaxUsers = IF n + 1 = MaxUsers THEN 0 ELSE n + 1
         /\ (n + 1) % MaxUsers \in SlotNo /\ (n + 2) % MaxUsers \in SlotNo
<1>1. MaxUsers \in Nat \ {0} /\ n \in Nat /\ n <= MaxUsers - 1
  BY CommandsAssumption DEF SlotNo
<1>2. (n + 1) % MaxUsers \in 0 .. MaxUsers - 1 /\ (n + 2) % MaxUsers \in 0 .. MaxUsers - 1
  BY <1>1
<1>3. (n + 1) % MaxUsers = IF n + 1 = MaxUsers THEN 0 ELSE n + 1
  <2>1. CASE n + 1 = MaxUsers
    BY <1>1, <2>1
  <2>2. CASE n + 1 # MaxUsers
    BY <1>1, <2>2
  <2> QED
    BY <2>1, <2>2
<1> QED
  BY <1>2, <1>3 DEF SlotNo

-----------------------------------------------------------------------------
(* The text *)

LEMMA TextIs ==
  ASSUME NEW text \in Seq(Int)
  PROVE  /\ Len(text) \in Nat /\ DOMAIN text = 1 .. Len(text)
         /\ \A j \in 1 .. Len(text) : text[j] \in Int
         /\ Newlines(text) = {j \in 1 .. Len(text) : text[j] < 0}
         /\ text = <<>> <=> Len(text) = 0
<1>1. Len(text) \in Nat /\ DOMAIN text = 1 .. Len(text)
  BY LenProperties
<1>2. \A j \in 1 .. Len(text) : text[j] \in Int
  BY <1>1, ElementOfSeq
<1> QED
  BY <1>1, <1>2, EmptySeq DEF Newlines

(* What is left after the first k characters.                              *)
LEMMA AfterIs ==
  ASSUME NEW text \in Seq(Int), NEW taken \in Seq(Int), Len(taken) <= Len(text)
  PROVE  LET k == Len(taken)
             rest == After(text, taken)
         IN  /\ rest \in Seq(Int) /\ Len(rest) = Len(text) - k
             /\ \A j \in 1 .. Len(text) - k : rest[j] = text[k + j]
<1> DEFINE n == Len(text)
           k == Len(taken)
           rest == After(text, taken)
<1>1. n \in Nat /\ k \in Nat /\ k <= n /\ \A j \in 1 .. n : text[j] \in Int
  BY TextIs, LenProperties
<1>2. rest = SubSeq(text, k + 1, n)
  BY DEF After
<1> HIDE DEF n, k, rest
<1>3. /\ rest \in Seq(Int)
      /\ Len(rest) = IF k + 1 <= n THEN n - (k + 1) + 1 ELSE 0
      /\ \A j \in 1 .. n - (k + 1) + 1 : rest[j] = text[k + 1 + j - 1]
  <2>1. k + 1 \in Int /\ n \in Int /\ \A j \in k + 1 .. n : text[j] \in Int
    BY <1>1
  <2> QED
    BY <1>2, <2>1, SubSeqProperties
<1>4. /\ n - (k + 1) + 1 = n - k /\ (~(k + 1 <= n) => n - k = 0)
      /\ \A j \in 1 .. n - k : k + 1 + j - 1 = k + j
  BY <1>1
<1>5. /\ rest \in Seq(Int) /\ Len(rest) = n - k
      /\ \A j \in 1 .. n - k : rest[j] = text[k + j]
  BY <1>3, <1>4
<1> QED
  BY <1>5 DEF n, k, rest

(* The first line goes up to the first newline, and the rest is after it.  *)
LEMMA FirstLineIs ==
  ASSUME NEW text \in Seq(Int), Newlines(text) # {}
  PROVE  LET m == Len(FirstLine(text))
             rest == After(text, FirstLine(text))
         IN  /\ FirstLine(text) \in Seq(Int)
             /\ m \in 1 .. Len(text) /\ text[m] < 0
             /\ \A j \in 1 .. m - 1 : text[j] >= 0
             /\ \A j \in 1 .. m : FirstLine(text)[j] = text[j]
             /\ rest \in Seq(Int) /\ Len(rest) = Len(text) - m
             /\ \A j \in 1 .. Len(text) - m : rest[j] = text[m + j]
<1> DEFINE n == Len(text)
           m == Min(Newlines(text))
           line == FirstLine(text)
<1>1. /\ n \in Nat /\ \A j \in 1 .. n : text[j] \in Int
      /\ Newlines(text) = {j \in 1 .. n : text[j] < 0}
  BY TextIs
<1>2. m \in Newlines(text) /\ \A j \in Newlines(text) : m <= j
  <2>1. Newlines(text) \in SUBSET Nat
    BY <1>1
  <2> QED
    BY <2>1, MinIs
<1>3. line = SubSeq(text, 1, m)
  BY DEF FirstLine
<1> HIDE DEF m, line, n
<1>4. m \in 1 .. n /\ text[m] < 0 /\ \A j \in 1 .. m - 1 : text[j] >= 0
  <2>1. m \in 1 .. n /\ text[m] < 0
    BY <1>1, <1>2
  <2>2. ASSUME NEW j \in 1 .. m - 1 PROVE text[j] >= 0
    <3>1. j \in 1 .. n /\ ~(m <= j)
      BY <1>1, <2>1
    <3>2. j \notin Newlines(text)
      BY <1>2, <3>1
    <3>3. text[j] \in Int /\ ~(text[j] < 0)
      BY <1>1, <3>1, <3>2
    <3> QED
      BY <3>3
  <2> QED
    BY <2>1, <2>2
<1>5. line \in Seq(Int) /\ Len(line) = m /\ \A j \in 1 .. m : line[j] = text[j]
  <2>1. 1 \in Int /\ m \in Int /\ \A j \in 1 .. m : text[j] \in Int
    BY <1>1, <1>4
  <2>2. /\ line \in Seq(Int)
        /\ Len(line) = IF 1 <= m THEN m - 1 + 1 ELSE 0
        /\ \A j \in 1 .. m - 1 + 1 : line[j] = text[1 + j - 1]
    BY <1>3, <2>1, SubSeqProperties
  <2>3. m - 1 + 1 = m /\ 1 <= m /\ \A j \in 1 .. m : 1 + j - 1 = j
    BY <1>4
  <2> QED
    BY <2>2, <2>3
<1>6. /\ After(text, line) \in Seq(Int) /\ Len(After(text, line)) = n - m
      /\ \A j \in 1 .. n - m : After(text, line)[j] = text[m + j]
  <2>1. Len(line) <= Len(text)
    BY <1>1, <1>4, <1>5 DEF n
  <2> QED
    BY <1>5, <2>1, AfterIs DEF n
<1> QED
  BY <1>4, <1>5, <1>6 DEF line, n

(* After a newline the text goes on at the beginning of a line.            *)
LEMMA RestReaches ==
  ASSUME NEW text \in Seq(Int), Newlines(text) # {},
         NEW p \in Nat, NEW q, Reaches(text, p, q)
  PROVE  Reaches(After(text, FirstLine(text)), 0, q)
<1> DEFINE n == Len(text)
           m == Len(FirstLine(text))
           rest == After(text, FirstLine(text))
<1>1. /\ m \in 1 .. n /\ text[m] < 0 /\ rest \in Seq(Int) /\ Len(rest) = n - m
      /\ \A j \in 1 .. n - m : rest[j] = text[m + j]
  BY FirstLineIs
<1>2. n \in Nat /\ DOMAIN text = 1 .. n /\ (text = <<>> <=> n = 0)
  BY TextIs
<1>3. DOMAIN rest = 1 .. n - m /\ (rest = <<>> <=> n - m = 0)
  BY <1>1, TextIs
<1> HIDE DEF n, m, rest
<1>4. Follows(text, p) /\ q = Passed(text[n])
  BY <1>1, <1>2 DEF Reaches, n
<1>5. Follows(rest, 0)
  <2> SUFFICES ASSUME NEW j \in 1 .. n - m
               PROVE  \/ rest[j] = Before(rest, 0, j) + 1
                      \/ rest[j] = -(Before(rest, 0, j) + 1)
    BY <1>3 DEF Follows
  <2>1. m + j \in 1 .. n /\ m + j # 1 /\ rest[j] = text[m + j]
    <3>1. m + j \in 1 .. n /\ m + j # 1
      BY <1>1, <1>2
    <3> QED
      BY <1>1, <3>1
  <2>2. Before(rest, 0, j) = Before(text, p, m + j)
    <3>1. CASE j = 1
      <4>1. (m + j) - 1 = m
        BY <1>1, <1>2, <3>1
      <4> QED
        BY <1>1, <2>1, <3>1, <4>1 DEF Before, Passed
    <3>2. CASE j # 1
      <4>1. j - 1 \in 1 .. n - m /\ m + (j - 1) = (m + j) - 1
        BY <1>1, <1>2, <3>2
      <4>2. rest[j - 1] = text[(m + j) - 1]
        BY <1>1, <4>1
      <4>3. Before(rest, 0, j) = Passed(rest[j - 1])
        BY <3>2 DEF Before
      <4>4. Before(text, p, m + j) = Passed(text[(m + j) - 1])
        BY <2>1 DEF Before
      <4> QED
        BY <4>2, <4>3, <4>4
    <3> QED
      BY <3>1, <3>2
  <2>3. \/ text[m + j] = Before(text, p, m + j) + 1
        \/ text[m + j] = -(Before(text, p, m + j) + 1)
    BY <1>2, <1>4, <2>1 DEF Follows
  <2> QED
    BY <2>1, <2>2, <2>3
<1>6. q = IF rest = <<>> THEN 0 ELSE Passed(rest[Len(rest)])
  <2>1. CASE n = m
    BY <1>1, <1>2, <1>3, <1>4, <2>1 DEF Passed
  <2>2. CASE n # m
    <3>1. n - m \in 1 .. n - m /\ m + (n - m) = n
      BY <1>1, <1>2, <2>2
    <3> QED
      BY <1>1, <1>2, <1>3, <1>4, <2>2, <3>1
  <2> QED
    BY <2>1, <2>2
<1>7. Reaches(rest, 0, q)
  BY <1>5, <1>6 DEF Reaches
<1> QED
  BY <1>7 DEF rest

LEMMA MoreReaches ==
  ASSUME NEW a \in Seq(Int), NEW b \in Seq(Int), NEW p, NEW q, NEW r,
         Reaches(a, p, q), Reaches(b, q, r)
  PROVE  Reaches(a \o b, p, r)
<1> DEFINE n == Len(a)
           m == Len(b)
           c == a \o b
<1>1. /\ n \in Nat /\ DOMAIN a = 1 .. n /\ (a = <<>> <=> n = 0)
      /\ m \in Nat /\ DOMAIN b = 1 .. m /\ (b = <<>> <=> m = 0)
  BY TextIs
<1>2. /\ c \in Seq(Int) /\ Len(c) = n + m
      /\ \A j \in 1 .. n + m : c[j] = IF j <= n THEN a[j] ELSE b[j - n]
  BY ConcatProperties
<1>3. DOMAIN c = 1 .. n + m /\ (c = <<>> <=> n + m = 0)
  BY <1>2, TextIs
<1>4. /\ Follows(a, p) /\ Follows(b, q)
      /\ q = IF n = 0 THEN p ELSE Passed(a[n])
      /\ r = IF m = 0 THEN q ELSE Passed(b[m])
  BY <1>1 DEF Reaches
<1> HIDE DEF n, m, c
<1>5. Follows(c, p)
  <2> SUFFICES ASSUME NEW j \in 1 .. n + m
               PROVE  \/ c[j] = Before(c, p, j) + 1
                      \/ c[j] = -(Before(c, p, j) + 1)
    BY <1>3 DEF Follows
  <2>1. CASE j <= n
    <3>1. /\ j \in 1 .. n /\ c[j] = a[j]
          /\ j # 1 => j - 1 \in 1 .. n + m /\ j - 1 <= n
      BY <1>1, <1>2, <2>1
    <3>2. Before(c, p, j) = Before(a, p, j)
      BY <1>2, <3>1 DEF Before
    <3> QED
      BY <1>1, <1>4, <3>1, <3>2 DEF Follows
  <2>2. CASE ~(j <= n)
    <3>1. j - n \in 1 .. m /\ c[j] = b[j - n]
      BY <1>1, <1>2, <2>2
    <3>2. Before(c, p, j) = Before(b, q, j - n)
      <4>1. CASE j - n # 1
        <5>1. /\ j - 1 \in 1 .. n + m /\ ~(j - 1 <= n) /\ j # 1
              /\ (j - 1) - n = (j - n) - 1
          BY <1>1, <2>2, <4>1
        <5> QED
          BY <1>2, <4>1, <5>1 DEF Before
      <4>2. CASE j - n = 1 /\ n = 0
        BY <1>1, <1>4, <4>2 DEF Before
      <4>3. CASE j - n = 1 /\ n # 0
        <5>1. j - 1 = n /\ n \in 1 .. n + m /\ j # 1
          BY <1>1, <4>3
        <5> QED
          BY <1>2, <1>4, <4>3, <5>1 DEF Before
      <4> QED
        BY <4>1, <4>2, <4>3
    <3> QED
      BY <1>1, <1>4, <3>1, <3>2 DEF Follows
  <2> QED
    BY <2>1, <2>2
<1>6. r = IF c = <<>> THEN p ELSE Passed(c[Len(c)])
  <2>1. CASE m = 0
    BY <1>1, <1>2, <1>3, <1>4, <2>1
  <2>2. CASE m # 0
    <3>1. n + m \in 1 .. n + m /\ ~(n + m <= n) /\ (n + m) - n = m /\ n + m # 0
      BY <1>1, <2>2
    <3> QED
      BY <1>2, <1>3, <1>4, <2>2, <3>1
  <2> QED
    BY <2>1, <2>2
<1>7. Reaches(c, p, r)
  BY <1>5, <1>6 DEF Reaches
<1> QED
  BY <1>7 DEF c

(* Whole lines and their beginnings: up to the first newline the text      *)
(* counts from one.                                                        *)
LEMMA FirstLineIsWhole ==
  ASSUME NEW text \in Seq(Int), Newlines(text) # {}, Follows(text, 0)
  PROVE  Whole(FirstLine(text))
<1> DEFINE n == Len(text)
           line == FirstLine(text)
           m == Len(line)
           bad == {j \in 1 .. m : line[j] # IF j = m THEN -m ELSE j}
<1>1. /\ line \in Seq(Int) /\ m \in 1 .. n /\ text[m] < 0
      /\ \A j \in 1 .. m - 1 : text[j] >= 0
      /\ \A j \in 1 .. m : line[j] = text[j]
  BY FirstLineIs
<1>2. n \in Nat /\ DOMAIN text = 1 .. n /\ DOMAIN line = 1 .. m
  BY <1>1, TextIs
<1> HIDE DEF n, line, m
<1>3. ASSUME NEW j \in bad, \A k \in bad : j <= k PROVE FALSE
  <2>1. /\ j \in 1 .. m /\ j \in 1 .. n /\ line[j] = text[j]
        /\ line[j] # IF j = m THEN -m ELSE j
    BY <1>1, <1>2
  <2>2. Before(text, 0, j) = j - 1
    <3>1. CASE j = 1
      BY <3>1 DEF Before
    <3>2. CASE j # 1
      <4>1. j - 1 \in 1 .. m /\ j - 1 # m /\ j - 1 < j
        BY <1>1, <1>2, <2>1, <3>2
      <4>2. j - 1 \notin bad
        <5> HIDE DEF bad
        <5> QED
          BY <1>3, <2>1, <4>1
      <4>3. text[j - 1] = j - 1
        BY <1>1, <4>1, <4>2
      <4> QED
        BY <2>1, <3>2, <4>1, <4>3 DEF Before, Passed
    <3> QED
      BY <3>1, <3>2
  <2>3. text[j] = j \/ text[j] = -j
    <3>1. j - 1 + 1 = j
      BY <2>1
    <3>2. text[j] = (j - 1) + 1 \/ text[j] = -((j - 1) + 1)
      BY <1>2, <2>1, <2>2 DEF Follows
    <3> QED
      BY <3>1, <3>2
  <2>4. CASE j = m
    BY <1>1, <1>2, <2>1, <2>3, <2>4
  <2>5. CASE j # m
    <3>1. j \in 1 .. m - 1
      BY <1>1, <1>2, <2>1, <2>5
    <3>2. text[j] >= 0
      BY <1>1, <3>1
    <3> QED
      BY <1>1, <1>2, <2>1, <2>3, <2>5, <3>2
  <2> QED
    BY <2>4, <2>5
<1>4. bad = {}
  <2>1. bad \in SUBSET Nat
    BY <1>1, <1>2
  <2> HIDE DEF bad
  <2> QED
    BY <1>3, <2>1, LeastNumber
<1>5. \A j \in 1 .. m : line[j] = IF j = m THEN -m ELSE j
  BY <1>4
<1>6. line = [j \in 1 .. m |-> line[j]]
  BY <1>1, <1>2
<1>7. line = [j \in 1 .. m |-> IF j = m THEN -m ELSE j]
  BY <1>5, <1>6
<1>8. Whole(line)
  BY <1>7, Zenon DEF Whole, m
<1> QED
  BY <1>8 DEF line

-----------------------------------------------------------------------------
(* Typing *)

(* The keys of one read count on from where the user was.                  *)
LEMMA PositionsAre ==
  ASSUME NEW u \in User, NEW n \in Nat \ {0}, NEW keys \in [1 .. n -> BOOLEAN]
  PROVE  /\ Positions(u, keys) \in Seq(Int)
         /\ Positions(u, keys) # <<>>
         /\ LineAfter(u, keys) \in Nat
         /\ Len(keys) = n
         /\ Reaches(Positions(u, keys), u.line, LineAfter(u, keys))
<1> DEFINE back(j) == {k \in 1 .. j - 1 : keys[k]}
           at1(j) == IF back(j) = {} THEN u.line + j ELSE j - Max(back(j))
           text == Positions(u, keys)
<1>1. u.line \in Nat /\ DOMAIN keys = 1 .. n /\ keys \in Seq(BOOLEAN)
  BY SeqDef DEF User
<1>2. Len(keys) = n
  BY <1>1, LenProperties
<1>3. text = [j \in 1 .. n |-> IF keys[j] THEN -at1(j) ELSE at1(j)]
  BY <1>1, Zenon DEF Positions
<1>4. ASSUME NEW j \in 1 .. n PROVE at1(j) \in Nat \ {0}
  <2>1. CASE back(j) = {}
    BY <1>1, <2>1
  <2>2. CASE back(j) # {}
    <3>1. j - 1 \in Nat /\ back(j) \in SUBSET (1 .. j - 1)
      OBVIOUS
    <3>2. Max(back(j)) \in 1 .. j - 1
      <4> HIDE DEF back
      <4> QED
        BY <2>2, <3>1, MaxIs
    <3>3. at1(j) = j - Max(back(j))
      BY <2>2
    <3> HIDE DEF at1, back
    <3> QED
      BY <3>2, <3>3
  <2> QED
    BY <2>1, <2>2
<1>5. ASSUME NEW j \in 1 .. n, j # 1
      PROVE  /\ j - 1 \in 1 .. n
             /\ at1(j) = IF keys[j - 1] THEN 1 ELSE at1(j - 1) + 1
  <2>1. j - 1 \in 1 .. n
    BY <1>5
  <2>2. back(j) = IF keys[j - 1] THEN back(j - 1) \union {j - 1} ELSE back(j - 1)
    BY <1>5
  <2>3. CASE keys[j - 1]
    <3>1. j - 1 \in Nat /\ back(j) \in SUBSET (1 .. j - 1) /\ j - 1 \in back(j)
      BY <1>5, <2>1, <2>3
    <3>2. back(j) # {} /\ Max(back(j)) \in 1 .. j - 1 /\ Max(back(j)) >= j - 1
      <4> HIDE DEF back
      <4> QED
        BY <3>1, MaxIs
    <3>3. at1(j) = j - Max(back(j))
      BY <3>2
    <3> HIDE DEF at1, back
    <3> QED
      BY <2>1, <2>3, <3>2, <3>3
  <2>4. CASE ~keys[j - 1]
    <3>1. back(j) = back(j - 1)
      BY <2>2, <2>4
    <3>2. CASE back(j) = {}
      <4>1. at1(j) = u.line + j /\ at1(j - 1) = u.line + (j - 1)
        BY <3>1, <3>2
      <4> HIDE DEF at1, back
      <4> QED
        BY <1>1, <2>1, <2>4, <4>1
    <3>3. CASE back(j) # {}
      <4>1. /\ at1(j) = j - Max(back(j))
            /\ at1(j - 1) = (j - 1) - Max(back(j))
        BY <3>1, <3>3
      <4>2. j - 1 \in Nat /\ back(j) \in SUBSET (1 .. j - 1)
        OBVIOUS
      <4>3. Max(back(j)) \in 1 .. j - 1
        <5> HIDE DEF back
        <5> QED
          BY <3>3, <4>2, MaxIs
      <4> HIDE DEF at1, back
      <4> QED
        BY <2>1, <2>4, <4>1, <4>3
    <3> QED
      BY <3>2, <3>3
  <2> QED
    BY <2>1, <2>3, <2>4
<1>6. at1(1) = u.line + 1
  BY <1>1
<1> HIDE DEF back, at1, text
<1>7. /\ text \in Seq(Int) /\ Len(text) = n /\ DOMAIN text = 1 .. n
      /\ \A j \in 1 .. n : text[j] = IF keys[j] THEN -at1(j) ELSE at1(j)
  <2>1. \A j \in 1 .. n : (IF keys[j] THEN -at1(j) ELSE at1(j)) \in Int
    BY <1>4
  <2>2. text \in [1 .. n -> Int]
    BY <1>3, <2>1
  <2>3. text \in Seq(Int)
    BY <2>2, SeqDef
  <2> QED
    BY <1>3, <2>2, <2>3, LenProperties
<1>8. Follows(text, u.line)
  <2> SUFFICES ASSUME NEW j \in 1 .. n
               PROVE  \/ text[j] = Before(text, u.line, j) + 1
                      \/ text[j] = -(Before(text, u.line, j) + 1)
    BY <1>7 DEF Follows
  <2>1. CASE j = 1
    <3>1. at1(j) = Before(text, u.line, j) + 1
      BY <1>6, <2>1 DEF Before
    <3> QED
      BY <1>7, <3>1
  <2>2. CASE j # 1
    <3>1. at1(j) = Before(text, u.line, j) + 1
      <4>1. /\ j - 1 \in 1 .. n /\ at1(j - 1) \in Nat \ {0}
            /\ at1(j) = IF keys[j - 1] THEN 1 ELSE at1(j - 1) + 1
        BY <1>4, <1>5, <2>2
      <4>2. Passed(text[j - 1]) = IF keys[j - 1] THEN 0 ELSE at1(j - 1)
        BY <1>7, <4>1 DEF Passed
      <4> QED
        BY <2>2, <4>1, <4>2 DEF Before
    <3> QED
      BY <1>7, <3>1
  <2> QED
    BY <2>1, <2>2
<1>9. text # <<>> /\ LineAfter(u, keys) = Passed(text[Len(text)])
  <2>1. text # <<>>
    BY <1>7, EmptySeq
  <2>2. LineAfter(u, keys) = Passed(text[n])
    BY <1>2, Zenon DEF LineAfter, Passed, text
  <2> QED
    BY <1>7, <2>1, <2>2
<1>10. LineAfter(u, keys) \in Nat
  <2>1. n \in 1 .. n /\ text[n] \in Int
    BY <1>7, TextIs
  <2> QED
    BY <1>7, <1>9, <2>1 DEF Passed
<1> QED
  BY <1>2, <1>7, <1>8, <1>9, <1>10 DEF Reaches, text

-----------------------------------------------------------------------------
(* A user *)

LEMMA UserIs ==
  ASSUME NEW u \in User
  PROVE  /\ u.text \in Seq(Int) /\ u.line \in Nat /\ u.char \in BOOLEAN
         /\ u.ahead \in BOOLEAN
         /\ u.message \in BOOLEAN
         /\ u.iflags \in SUBSET {"CMD_IN_BUF", "SINGLE_CHAR", "SKIP_COMMAND", "NET_DEAD"}
         /\ u.input_to \in {"none", "self", "other", "destructed"}
         /\ \A flag \in {"CMD_IN_BUF", "SINGLE_CHAR", "SKIP_COMMAND", "NET_DEAD"} :
              /\ Set(u, flag) \in User /\ Clear(u, flag) \in User
              /\ Set(u, flag).iflags = u.iflags \union {flag}
              /\ Clear(u, flag).iflags = u.iflags \ {flag}
              /\ Set(u, flag).text = u.text /\ Clear(u, flag).text = u.text
              /\ Set(u, flag).line = u.line /\ Clear(u, flag).line = u.line
              /\ Set(u, flag).char = u.char /\ Clear(u, flag).char = u.char
              /\ Set(u, flag).ahead = u.ahead /\ Clear(u, flag).ahead = u.ahead
              /\ Set(u, flag).input_to = u.input_to
              /\ Clear(u, flag).input_to = u.input_to
BY DEF User, Set, Clear

LEMMA TextChanges ==
  ASSUME NEW u \in User, NEW text \in Seq(Int)
  PROVE  LET v == [u EXCEPT !.text = text] IN
         /\ v \in User /\ v.text = text /\ v.iflags = u.iflags
         /\ v.line = u.line /\ v.char = u.char /\ v.input_to = u.input_to
         /\ v.ahead = u.ahead
BY DEF User

(* What Kept says depends on some of the fields.                           *)
LEMMA KeptSame ==
  ASSUME NEW u, NEW v, Kept(u), v.text = u.text, v.line = u.line,
         "SKIP_COMMAND" \in v.iflags <=> "SKIP_COMMAND" \in u.iflags,
         "CMD_IN_BUF" \in v.iflags <=> "CMD_IN_BUF" \in u.iflags,
         ~v.char => ~u.char, u.ahead => v.ahead,
         "SINGLE_CHAR" \in v.iflags =>
           \/ "SINGLE_CHAR" \in u.iflags
           \/ v.char /\ (HalfLine(u) => v.ahead)
  PROVE  Kept(v)
BY DEF Kept, Flows, HalfLine

(* A line that is skipped is gone once its newline is there.               *)
LEMMA CleanedIs ==
  ASSUME NEW u \in User
  PROVE  LET c == Cleaned(u) IN
         /\ c \in User /\ c.line = u.line /\ c.char = u.char
         /\ c.input_to = u.input_to
         /\ "SKIP_COMMAND" \in c.iflags => Newlines(c.text) = {}
         /\ "CMD_IN_BUF" \in c.iflags <=> "CMD_IN_BUF" \in u.iflags
         /\ "SINGLE_CHAR" \in c.iflags <=> "SINGLE_CHAR" \in u.iflags
         /\ ("SKIP_COMMAND" \in u.iflags => Newlines(u.text) = {}) => c = u
         /\ Flows(u) => Flows(c)
<1> DEFINE c == Cleaned(u)
<1>1. CASE "SKIP_COMMAND" \in u.iflags /\ Newlines(u.text) # {}
  <2> DEFINE rest == After(u.text, FirstLine(u.text))
             v == Clear(u, "SKIP_COMMAND")
  <2>1. u.text \in Seq(Int)
    BY UserIs
  <2>2. /\ v \in User /\ v.iflags = u.iflags \ {"SKIP_COMMAND"}
        /\ v.text = u.text /\ v.line = u.line /\ v.char = u.char
        /\ v.input_to = u.input_to
    BY UserIs
  <2>3. c = [v EXCEPT !.text = After(@, FirstLine(@))]
    BY <1>1 DEF Cleaned
  <2> HIDE DEF c, v
  <2>4. c = [v EXCEPT !.text = rest]
    BY <2>2, <2>3
  <2>5. rest \in Seq(Int)
    BY <1>1, <2>1, FirstLineIs
  <2> HIDE DEF rest
  <2>6. /\ c \in User /\ c.text = rest /\ c.iflags = u.iflags \ {"SKIP_COMMAND"}
        /\ c.line = u.line /\ c.char = u.char /\ c.input_to = u.input_to
    BY <2>2, <2>4, <2>5, TextChanges
  <2>7. Flows(u) => Flows(c)
    <3> SUFFICES ASSUME Flows(u) PROVE Flows(c)
      OBVIOUS
    <3>1. PICK p \in Nat : Reaches(u.text, p, u.line)
      BY DEF Flows
    <3>2. Reaches(rest, 0, u.line)
      BY <1>1, <2>1, <3>1, RestReaches DEF rest
    <3> QED
      BY <2>6, <3>2 DEF Flows
  <2> QED
    BY <1>1, <2>6, <2>7 DEF c
<1>2. CASE ~("SKIP_COMMAND" \in u.iflags /\ Newlines(u.text) # {})
  BY <1>2 DEF Cleaned
<1> QED
  BY <1>1, <1>2

(* After a read CMD_IN_BUF is set just when the buffer holds a command.    *)
LEMMA FlagIsKept ==
  ASSUME NEW v \in User, ~v.char => Flows(v)
  PROVE  LET c == Cleaned(v) IN
         /\ CmdInBuf(v) => Set(c, "CMD_IN_BUF") \in User /\ Kept(Set(c, "CMD_IN_BUF"))
         /\ ~CmdInBuf(v) =>
              Clear(c, "CMD_IN_BUF") \in User /\ Kept(Clear(c, "CMD_IN_BUF"))
<1> DEFINE c == Cleaned(v)
           s == Set(c, "CMD_IN_BUF")
           d == Clear(c, "CMD_IN_BUF")
<1>1. /\ c \in User /\ c.char = v.char
      /\ "SKIP_COMMAND" \in c.iflags => Newlines(c.text) = {}
      /\ Flows(v) => Flows(c)
  BY CleanedIs
<1>2. CmdInBuf(v) <=> /\ c.text # <<>>
                      /\ "SINGLE_CHAR" \in c.iflags \/ Newlines(c.text) # {}
  BY DEF CmdInBuf
<1>3. c.text = <<>> => Newlines(c.text) = {}
  BY DEF Newlines
<1> HIDE DEF c
<1>4. /\ s \in User /\ s.iflags = c.iflags \union {"CMD_IN_BUF"}
      /\ s.text = c.text /\ s.line = c.line /\ s.char = c.char
      /\ d \in User /\ d.iflags = c.iflags \ {"CMD_IN_BUF"}
      /\ d.text = c.text /\ d.line = c.line /\ d.char = c.char
  BY <1>1, UserIs
<1> HIDE DEF s, d
<1>5. Flows(c) => Flows(s) /\ Flows(d) /\ "SINGLE_CHAR" \notin c.iflags
  BY <1>4 DEF Flows
<1>6. CmdInBuf(v) => Kept(s)
  BY <1>1, <1>2, <1>4, <1>5 DEF Kept
<1>7. ~CmdInBuf(v) => Kept(d)
  BY <1>1, <1>2, <1>3, <1>4, <1>5 DEF Kept
<1> QED
  BY <1>4, <1>6, <1>7 DEF c, s, d

(* Clearing a flag that is not set, and setting one that is.               *)
LEMMA SameFlag ==
  ASSUME NEW u \in User,
         NEW flag \in {"CMD_IN_BUF", "SINGLE_CHAR", "SKIP_COMMAND", "NET_DEAD"}
  PROVE  /\ flag \notin u.iflags => Clear(u, flag) = u
         /\ flag \in u.iflags => Set(u, flag) = u
BY DEF User, Set, Clear

LEMMA ReadKept ==
  ASSUME NEW u \in User, Kept(u), "CMD_IN_BUF" \notin u.iflags,
         NEW n \in Nat \ {0}, NEW keys \in [1 .. n -> BOOLEAN]
  PROVE  Read(u, keys) \in User /\ Kept(Read(u, keys))
<1> DEFINE o == Overflow(u)
           new == Positions(u, keys)
           line == LineAfter(u, keys)
           v == [o EXCEPT !.text = @ \o new, !.line = line, !.ahead = FALSE]
<1>1. /\ o \in User /\ o.line = u.line /\ o.char = u.char
      /\ o.iflags \in {u.iflags, u.iflags \union {"SKIP_COMMAND"}}
      /\ Flows(u) => Flows(o)
  <2>1. CASE MaxText - Len(u.text) < MinSpace
    <3> DEFINE e == [u EXCEPT !.text = <<>>]
    <3>1. /\ e \in User /\ e.text = <<>> /\ e.iflags = u.iflags
          /\ e.line = u.line /\ e.char = u.char
      BY EmptySeq, TextChanges
    <3>2. o = Set(e, "SKIP_COMMAND")
      BY <2>1 DEF Overflow
    <3> HIDE DEF e, o
    <3>3. /\ o \in User /\ o.text = <<>> /\ o.line = u.line /\ o.char = u.char
          /\ o.iflags = u.iflags \union {"SKIP_COMMAND"}
      BY <3>1, <3>2, UserIs
    <3>4. Reaches(o.text, o.line, o.line) /\ o.line \in Nat
      <4>1. Follows(<<>>, o.line)
        BY DEF Follows
      <4> QED
        BY <3>3, <4>1, UserIs DEF Reaches
    <3> QED
      BY <3>3, <3>4 DEF Flows
  <2>2. CASE ~(MaxText - Len(u.text) < MinSpace)
    BY <2>2 DEF Overflow
  <2> QED
    BY <2>1, <2>2
<1>2. /\ new \in Seq(Int) /\ line \in Nat /\ Reaches(new, u.line, line)
  BY PositionsAre
<1> HIDE DEF o, new, line
<1>3. o.text \in Seq(Int) /\ o.text \o new \in Seq(Int)
  <2>1. o.text \in Seq(Int)
    BY <1>1, UserIs
  <2> QED
    BY <1>2, <2>1, ConcatProperties
<1>4. /\ v \in User /\ v.text = o.text \o new /\ v.line = line
      /\ v.iflags = o.iflags /\ v.char = o.char
  BY <1>1, <1>2, <1>3 DEF User
<1>5. Read(u, keys) = IF CmdInBuf(v) THEN Set(Cleaned(v), "CMD_IN_BUF")
                      ELSE Cleaned(v)
  BY Zenon DEF Read, o, new, line
<1> HIDE DEF v
<1>6. ~v.char => Flows(v)
  <2> SUFFICES ASSUME ~u.char PROVE Flows(v)
    BY <1>1, <1>4
  <2>1. Flows(o)
    BY <1>1 DEF Kept
  <2>2. PICK p \in Nat : /\ Reaches(o.text, p, o.line)
                         /\ "SKIP_COMMAND" \notin o.iflags => p = 0
    BY <2>1 DEF Flows
  <2>3. Reaches(v.text, p, v.line)
    BY <1>1, <1>2, <1>3, <1>4, <2>2, MoreReaches
  <2> QED
    BY <1>4, <2>1, <2>2, <2>3 DEF Flows
<1>7. "CMD_IN_BUF" \notin Cleaned(v).iflags /\ Cleaned(v) \in User
  BY <1>1, <1>4, CleanedIs
<1>8. Clear(Cleaned(v), "CMD_IN_BUF") = Cleaned(v)
  BY <1>7, SameFlag
<1> QED
  BY <1>4, <1>5, <1>6, <1>8, FlagIsKept

(* What is taken, and what that leaves.                                    *)
LEMMA TakingKept ==
  ASSUME NEW u \in User, Kept(u), "CMD_IN_BUF" \in u.iflags
  PROVE  /\ Cleaned(u) = u /\ u.text # <<>>
         /\ Taken(u) \in Seq(Int)
         /\ AfterTaking(u) \in User /\ Kept(AfterTaking(u))
         /\ AfterTaking(u).char = u.char
         /\ ~u.char => Whole(Taken(u))
<1>1. Cleaned(u) = u /\ u.text # <<>> /\ u.text \in Seq(Int)
  BY CleanedIs, UserIs DEF Kept
<1>2. /\ Len(u.text) \in Nat \ {0} /\ Head(u.text) \in Int
  <2>1. Len(u.text) \in Nat \ {0}
    BY <1>1, TextIs
  <2> QED
    BY <1>1, <2>1
<1> DEFINE taken == Taken(u)
           rest == After(u.text, taken)
           a == [u EXCEPT !.text = rest]
<1>3. taken = IF "SINGLE_CHAR" \in u.iflags THEN <<Head(u.text)>>
              ELSE FirstLine(u.text)
  BY <1>1 DEF Taken
<1>4. taken \in Seq(Int) /\ Len(taken) <= Len(u.text)
  <2>1. CASE "SINGLE_CHAR" \in u.iflags
    <3>1. taken = <<Head(u.text)>>
      BY <1>3, <2>1
    <3> QED
      BY <1>2, <3>1
  <2>2. CASE "SINGLE_CHAR" \notin u.iflags /\ Newlines(u.text) # {}
    BY <1>1, <1>2, <1>3, <2>2, FirstLineIs
  <2>3. CASE "SINGLE_CHAR" \notin u.iflags /\ Newlines(u.text) = {}
    BY <1>1, <1>2, <1>3, <2>3 DEF FirstLine
  <2> QED
    BY <2>1, <2>2, <2>3
<1>5. rest \in Seq(Int)
  BY <1>1, <1>4, AfterIs
<1>6. AfterTaking(u) = IF CmdInBuf(Cleaned(a)) THEN Cleaned(a)
                       ELSE Clear(Cleaned(a), "CMD_IN_BUF")
  BY <1>1, Zenon DEF AfterTaking
<1> HIDE DEF taken, rest
<1>7. /\ a \in User /\ a.text = rest /\ a.iflags = u.iflags /\ a.line = u.line
      /\ a.char = u.char
  BY <1>5, TextChanges
<1> HIDE DEF a
<1>8. ASSUME ~u.char
      PROVE  /\ Flows(a) /\ Whole(taken)
  <2>1. /\ Flows(u) /\ Newlines(u.text) # {} /\ "SKIP_COMMAND" \notin u.iflags
        /\ "SINGLE_CHAR" \notin u.iflags
    BY <1>8 DEF Kept, Flows
  <2>2. Reaches(u.text, 0, u.line)
    BY <2>1 DEF Flows
  <2>3. taken = FirstLine(u.text)
    BY <1>3, <2>1
  <2>4. Reaches(rest, 0, u.line)
    BY <1>1, <2>1, <2>2, <2>3, RestReaches DEF rest
  <2>5. Flows(a)
    BY <1>7, <2>1, <2>4 DEF Flows
  <2>6. Whole(taken)
    BY <1>1, <2>1, <2>2, <2>3, FirstLineIsWhole DEF Reaches
  <2> QED
    BY <2>5, <2>6
<1> DEFINE c == Cleaned(a)
<1>9. /\ c \in User /\ c.char = u.char /\ "CMD_IN_BUF" \in c.iflags
      /\ "SKIP_COMMAND" \in c.iflags => Newlines(c.text) = {}
      /\ Flows(a) => Flows(c)
  BY <1>7, CleanedIs
<1>10. AfterTaking(u) = IF CmdInBuf(c) THEN c ELSE Clear(c, "CMD_IN_BUF")
  BY <1>6
<1> HIDE DEF c
<1>11. Cleaned(c) = c /\ Set(c, "CMD_IN_BUF") = c /\ (~c.char => Flows(c))
  BY <1>8, <1>9, CleanedIs, SameFlag
<1>12. /\ CmdInBuf(c) => c \in User /\ Kept(c)
       /\ ~CmdInBuf(c) =>
            Clear(c, "CMD_IN_BUF") \in User /\ Kept(Clear(c, "CMD_IN_BUF"))
  BY <1>9, <1>11, FlagIsKept
<1>13. Clear(c, "CMD_IN_BUF").char = c.char
  BY <1>9, UserIs
<1>14. ~u.char => Whole(taken)
  BY <1>8
<1> QED
  BY <1>1, <1>4, <1>9, <1>10, <1>12, <1>13, <1>14 DEF taken

(* A flush changes what is to be sent, or finds the connection lost.       *)
LEMMA FlushedKept ==
  ASSUME NEW u \in User, NEW v \in Flushed(u)
  PROVE  /\ v \in User /\ v.text = u.text /\ v.line = u.line /\ v.char = u.char
         /\ v.input_to = u.input_to /\ v.ahead = u.ahead
         /\ v.iflags \in {u.iflags, u.iflags \union {"NET_DEAD"}}
         /\ Kept(u) => Kept(v)
<1>1. /\ v \in User /\ v.text = u.text /\ v.line = u.line /\ v.char = u.char
      /\ v.input_to = u.input_to /\ v.ahead = u.ahead
      /\ v.iflags \in {u.iflags, u.iflags \union {"NET_DEAD"}}
  BY DEF Flushed, User, Set
<1>2. Kept(u) => Kept(v)
  BY <1>1, KeptSame
<1> QED
  BY <1>1, <1>2

(* A command without CMD_IN_BUF is half a line that get_char() was called  *)
(* over.                                                                   *)
LEMMA KeptCommand ==
  ASSUME NEW u \in User, Kept(u), CmdInBuf(u)
  PROVE  "CMD_IN_BUF" \in u.iflags \/ u.ahead
<1>1. Cleaned(u) = u
  BY CleanedIs DEF Kept
<1> QED
  BY <1>1 DEF Kept, CmdInBuf

-----------------------------------------------------------------------------
(* The table and the loop *)

LEMMA SlotIs ==
  ASSUME Table, NEW i \in SlotNo, Here(i)
  PROVE  all_users[i] \in User /\ Kept(all_users[i])
BY DEF Table, Here

(* One slot changes.                                                       *)
LEMMA SetToKeeps ==
  ASSUME Table, NEW i \in SlotNo, NEW u, SetTo(i, u),
         u = NoUser \/ (u \in User /\ Kept(u))
  PROVE  /\ Table'
         /\ \A j \in SlotNo : all_users'[j] = IF j = i THEN u ELSE all_users[j]
<1>1. \A j \in SlotNo : all_users'[j] = IF j = i THEN u ELSE all_users[j]
  BY DEF SetTo, Table
<1>2. all_users' \in [SlotNo -> User \union {NoUser}]
  BY DEF SetTo, Table
<1>3. \A j \in SlotNo : all_users'[j] # NoUser => Kept(all_users'[j])
  BY <1>1 DEF Table, Here
<1> QED
  BY <1>1, <1>2, <1>3 DEF Table, Here

LEMMA AtIs ==
  ASSUME at \in Place
  PROVE  /\ at.in = "process_io" =>
              /\ at \in [in : {"process_io"}, polled : SUBSET SlotNo, slot : 0 .. MaxUsers]
              /\ at.slot \in 0 .. MaxUsers
         /\ at.in = "scan" =>
              /\ at \in [in : {"scan"}, ran : 0 .. MaxUsers, scanned : 0 .. MaxUsers]
              /\ at.ran \in 0 .. MaxUsers /\ at.scanned \in 0 .. MaxUsers
         /\ at.in = "command" =>
              /\ at.ran \in 0 .. MaxUsers /\ at.giver \in SlotNo
              /\ at.flushes \in BOOLEAN
BY DEF Place

LEMMA PlacesAre ==
  /\ [in |-> "select"] \in Place
  /\ \A polled \in SUBSET SlotNo, slot \in 0 .. MaxUsers :
       [in |-> "process_io", polled |-> polled, slot |-> slot] \in Place
  /\ \A ran \in 0 .. MaxUsers, scanned \in 0 .. MaxUsers :
       [in |-> "scan", ran |-> ran, scanned |-> scanned] \in Place
  /\ \A ran \in 0 .. MaxUsers, giver \in SlotNo, command \in Seq(Int), flushes \in BOOLEAN :
       [in |-> "command", ran |-> ran, giver |-> giver, command |-> command,
        flushes |-> flushes] \in Place
BY DEF Place

(* Steps to where nothing more is said of the loop.                        *)
LEMMA ElsewhereKeeps ==
  ASSUME IInv, Table', NextCmdGiver' = NextCmdGiver \/ NextCmdGiver' \in SlotNo,
         at' \in Place, at'.in \in {"select", "process_io"},
         typed' \in 0 .. MaxTyped
  PROVE  IInv'
BY DEF IInv, Running, Scanned

(* Steps to the beginning of a scan.                                       *)
LEMMA ScanBegins ==
  ASSUME IInv, Table', UNCHANGED <<NextCmdGiver, typed>>,
         NEW ran \in 0 .. MaxUsers,
         at' = [in |-> "scan", ran |-> ran, scanned |-> 0]
  PROVE  IInv'
<1>1. at' \in Place /\ at'.in = "scan" /\ at'.scanned = 0
  BY PlacesAre, CommandsAssumption
<1>2. \A i \in SlotNo : ~(Since(i)' <= 0)
  BY CommandsAssumption DEF Since, IInv, SlotNo
<1> QED
  BY <1>1, <1>2 DEF IInv, Running, Scanned

LEMMA StartRoundKeeps ==
  ASSUME IInv, StartRound
  PROVE  IInv'
<1>1. {i \in SlotNo : Here(i) /\ ~Has(i, "CMD_IN_BUF")} \in SUBSET SlotNo
  OBVIOUS
<1>2. at' \in Place /\ at'.in = "process_io"
  BY <1>1, PlacesAre, CommandsAssumption DEF StartRound
<1> QED
  BY <1>2, ElsewhereKeeps DEF StartRound, IInv, Table, Here

LEMMA NextSlotIs ==
  ASSUME at \in Place, at.in = "process_io", at.slot < MaxUsers, NextSlot
  PROVE  at' \in Place /\ at'.in = "process_io" /\ at.slot \in SlotNo
<1>1. /\ at \in [in : {"process_io"}, polled : SUBSET SlotNo, slot : 0 .. MaxUsers]
      /\ at.slot \in 0 .. MaxUsers
  BY AtIs
<1>2. at.slot + 1 \in 0 .. MaxUsers /\ at.slot \in SlotNo
  BY <1>1, CommandsAssumption DEF SlotNo
<1> QED
  BY <1>1, <1>2 DEF NextSlot, Place

LEMMA ProcessIoKeeps ==
  ASSUME IInv, ProcessIo
  PROVE  IInv'
<1>1. Table /\ at \in Place /\ typed \in 0 .. MaxTyped
  BY DEF IInv
<1>2. CASE NewUserHandler
  <2>1. PICK i \in SlotNo, to \in {"none", "self"} :
          SetTo(i, [text |-> <<>>, iflags |-> {}, input_to |-> to,
                    message |-> TRUE, line |-> 0, char |-> FALSE,
                    ahead |-> FALSE])
    BY <1>2 DEF NewUserHandler
  <2> DEFINE u == [text |-> <<>>, iflags |-> {}, input_to |-> to,
                   message |-> TRUE, line |-> 0, char |-> FALSE,
                   ahead |-> FALSE]
  <2>2. u \in User
    BY EmptySeq DEF User
  <2>3. Newlines(<<>>) = {} /\ Reaches(<<>>, 0, 0)
    BY DEF Newlines, Reaches, Follows
  <2>4. Kept(u)
    BY <2>3 DEF Kept, Flows
  <2>5. Table'
    BY <1>1, <2>1, <2>2, <2>4, SetToKeeps
  <2> QED
    BY <1>1, <1>2, <2>5, ElsewhereKeeps DEF NewUserHandler
<1>3. CASE SkipUser
  <2>1. Table'
    BY <1>1, <1>3 DEF SkipUser, Table, Here
  <2> QED
    BY <1>1, <1>3, <2>1, NextSlotIs, ElsewhereKeeps DEF SkipUser
<1>4. CASE RemoveUser
  <2>1. at' \in Place /\ at'.in = "process_io" /\ at.slot \in SlotNo
    BY <1>1, <1>4, NextSlotIs DEF RemoveUser
  <2>2. Table'
    BY <1>1, <1>4, <2>1, SetToKeeps DEF RemoveUser
  <2> QED
    BY <1>1, <1>4, <2>1, <2>2, ElsewhereKeeps DEF RemoveUser
<1>5. CASE ReadUser
  <2> DEFINE i == at.slot
             u == all_users[i]
  <2>1. /\ at' \in Place /\ at'.in = "process_io" /\ i \in SlotNo
        /\ UNCHANGED NextCmdGiver /\ ~PassedOver(i)
    BY <1>1, <1>5, NextSlotIs DEF ReadUser
  <2>2. u \in User /\ Kept(u) /\ "CMD_IN_BUF" \notin u.iflags
    BY <1>1, <2>1, SlotIs DEF PassedOver, Has
  <2>3. PICK keys \in Keys(u) :
          /\ typed + Len(keys) <= MaxTyped /\ typed' = typed + Len(keys)
          /\ \E v \in Flushed(Read(u, keys)) : SetTo(i, v)
    BY <1>5 DEF ReadUser
  <2>4. PICK n \in 1 .. MaxText - Len(Overflow(u).text) : keys \in [1 .. n -> BOOLEAN]
    BY DEF Keys
  <2>5. PICK v \in Flushed(Read(u, keys)) : SetTo(i, v)
    BY <2>3
  <2> HIDE DEF i, u
  <2>6. n \in Nat \ {0}
    BY <2>4
  <2>7. Read(u, keys) \in User /\ Kept(Read(u, keys)) /\ Len(keys) \in Nat
    <3>1. Len(keys) = n
      BY <2>2, <2>4, <2>6, PositionsAre
    <3> QED
      BY <2>2, <2>4, <2>6, <3>1, ReadKept
  <2>8. v \in User /\ Kept(v)
    BY <2>5, <2>7, FlushedKept
  <2>9. Table'
    BY <1>1, <2>1, <2>5, <2>8, SetToKeeps
  <2>10. typed' \in 0 .. MaxTyped
    BY <1>1, <2>3, <2>7, CommandsAssumption
  <2> QED
    BY <2>1, <2>9, <2>10, ElsewhereKeeps
<1>6. CASE FlushUser
  <2>1. at' \in Place /\ at'.in = "process_io" /\ at.slot \in SlotNo
    BY <1>1, <1>6, NextSlotIs DEF FlushUser
  <2>2. Here(at.slot)
    BY <1>6 DEF FlushUser, PassedOver
  <2>3. PICK v \in Flushed(all_users[at.slot]) : SetTo(at.slot, v)
    BY <1>6 DEF FlushUser
  <2>4. v \in User /\ Kept(v)
    BY <1>1, <2>1, <2>2, <2>3, SlotIs, FlushedKept
  <2>5. Table'
    BY <1>1, <2>1, <2>3, <2>4, SetToKeeps
  <2> QED
    BY <1>1, <1>6, <2>1, <2>5, ElsewhereKeeps DEF FlushUser
<1>7. CASE IoDone
  <2>1. Table'
    BY <1>1, <1>7 DEF IoDone, Table, Here
  <2>2. 0 \in 0 .. MaxUsers
    BY CommandsAssumption
  <2> QED
    BY <1>7, <2>1, <2>2, ScanBegins DEF IoDone
<1> QED
  BY <1>2, <1>3, <1>4, <1>5, <1>6, <1>7 DEF ProcessIo

-----------------------------------------------------------------------------
(* Commands *)

LEMMA ScanOnKeeps ==
  ASSUME IInv, ScanOn
  PROVE  IInv'
<1>0. PICK n \in SlotNo : n = NextCmdGiver
  BY DEF IInv
<1>1. /\ Table /\ at \in Place /\ n \in SlotNo /\ typed \in 0 .. MaxTyped
      /\ Scanned
  BY DEF IInv
<1>2. /\ at.in = "scan" /\ at.scanned < MaxUsers
      /\ at' = [at EXCEPT !.scanned = @ + 1] /\ UNCHANGED typed
      /\ NextCmdGiver' = (n + 1) % MaxUsers
  BY <1>0 DEF ScanOn, Scanning, Ahead
<1>3. NextCmdGiver' \in SlotNo
      /\ NextCmdGiver' = IF n + 1 = MaxUsers THEN 0 ELSE n + 1
  BY <1>0, <1>1, <1>2, TurnIs
<1>4. /\ at \in [in : {"scan"}, ran : 0 .. MaxUsers, scanned : 0 .. MaxUsers]
      /\ at.scanned \in 0 .. MaxUsers /\ at.scanned + 1 \in 0 .. MaxUsers
  BY <1>1, <1>2, AtIs, CommandsAssumption
<1>5. at' \in Place /\ at'.in = "scan" /\ at'.scanned = at.scanned + 1
  BY <1>2, <1>4 DEF Place
<1>6. /\ Table'
      /\ \A i \in SlotNo \ {n} : all_users'[i] = all_users[i]
      /\ Has(n, "CMD_IN_BUF")' => Has(n, "NET_DEAD")'
  <2>1. CASE ~Here(n) /\ UNCHANGED all_users
    BY <1>1, <2>1 DEF Table, Here, Has
  <2>2. ASSUME Here(n), NEW u \in Flushed(all_users[n]),
               MayGoOn(n, u) => "CMD_IN_BUF" \notin u.iflags, SetTo(n, u)
        PROVE  /\ Table'
               /\ \A i \in SlotNo \ {n} : all_users'[i] = all_users[i]
               /\ Has(n, "CMD_IN_BUF")' => Has(n, "NET_DEAD")'
    <3>1. u \in User /\ Kept(u)
      BY <1>1, <2>2, SlotIs, FlushedKept
    <3>2. /\ Table'
          /\ \A j \in SlotNo : all_users'[j] = IF j = n THEN u ELSE all_users[j]
      BY <1>1, <2>2, <3>1, SetToKeeps
    <3>3. "CMD_IN_BUF" \in u.iflags => "NET_DEAD" \in u.iflags
      BY <2>2 DEF MayGoOn
    <3>4. all_users'[n] = u
      BY <1>1, <3>2
    <3>5. Has(n, "CMD_IN_BUF")' => Has(n, "NET_DEAD")'
      BY <3>3, <3>4, <1>1 DEF Has, Here
    <3> QED
      BY <3>2, <3>5
  <2> QED
    BY <1>0, <2>1, <2>2 DEF ScanOn
<1>7. Scanned'
  <2> SUFFICES ASSUME NEW i \in SlotNo, Since(i)' <= at.scanned + 1,
                      Has(i, "CMD_IN_BUF")'
               PROVE  Has(i, "NET_DEAD")'
    BY <1>5 DEF Scanned
  <2>1. CASE i = n
    BY <1>6, <2>1
  <2>2. CASE i # n
    <3>1. Since(i)' = Since(i) + 1 /\ Since(i) \in Int
      BY <1>0, <1>1, <1>3, <2>2, CommandsAssumption DEF Since, SlotNo
    <3>2. Since(i) <= at.scanned
      BY <1>4, <3>1
    <3>3. Has(i, "CMD_IN_BUF") => Has(i, "NET_DEAD")
      BY <1>1, <1>2, <3>2 DEF Scanned
    <3> QED
      BY <1>6, <2>2, <3>3 DEF Has, Here
  <2> QED
    BY <2>1, <2>2
<1> QED
  BY <1>1, <1>2, <1>3, <1>5, <1>6, <1>7 DEF IInv, Running

(* The buffer of whoever has CMD_IN_BUF set is not empty, so that a        *)
(* command is taken from it.                                               *)
LEMMA TakeCommandTakes ==
  ASSUME IInv, TakeCommand
  PROVE  \E u \in User :
           /\ Kept(u) /\ "CMD_IN_BUF" \in u.iflags
           /\ RunCommand(NextCmdGiver, u)
<1>1. PICK u \in Flushed(all_users[NextCmdGiver]) :
        /\ "CMD_IN_BUF" \in u.iflags
        /\ IF Cleaned(u).text = <<>>
           THEN SetTo(NextCmdGiver, Cleaned(u)) /\ at' = [in |-> "select"]
           ELSE RunCommand(NextCmdGiver, u)
  BY DEF TakeCommand
<1>2. u \in User /\ Kept(u)
  BY <1>1, SlotIs, FlushedKept DEF TakeCommand, IInv
<1>3. Cleaned(u) = u /\ u.text # <<>>
  BY <1>1, <1>2, TakingKept
<1>4. RunCommand(NextCmdGiver, u)
  BY <1>1, <1>3
<1> QED
  BY <1>1, <1>2, <1>4

LEMMA AnsweredKept ==
  ASSUME NEW u \in User, Kept(u)
  PROVE  Answered(u) \in User /\ Kept(Answered(u)) /\ Answered(u).char = u.char
<1>1. /\ Answered(u) \in User
      /\ Answered(u).text = u.text /\ Answered(u).line = u.line
      /\ Answered(u).char = u.char /\ Answered(u).ahead = u.ahead
      /\ Answered(u).iflags = u.iflags \ {"SINGLE_CHAR"}
  BY DEF Answered, Clear, User
<1> QED
  BY <1>1, KeptSame

LEMMA TakeCommandKeeps ==
  ASSUME IInv, TakeCommand
  PROVE  IInv'
<1> DEFINE n == NextCmdGiver
<1>1. PICK u \in User :
        Kept(u) /\ "CMD_IN_BUF" \in u.iflags /\ RunCommand(n, u)
  BY TakeCommandTakes
<1> DEFINE t == AfterTaking(u)
           Runs(flushes) == [in |-> "command", ran |-> at.ran, giver |-> n,
                             command |-> Taken(u), flushes |-> flushes]
<1>2. /\ Table /\ at \in Place /\ n \in SlotNo /\ typed \in 0 .. MaxTyped
      /\ at.in = "scan" /\ at.ran \in 0 .. MaxUsers
  BY AtIs DEF IInv, TakeCommand, Scanning
<1>3. NextCmdGiver' \in SlotNo /\ UNCHANGED typed
  BY <1>2, TurnIs DEF TakeCommand, Ahead
<1>4. /\ t \in User /\ Kept(t) /\ t.char = u.char
      /\ Taken(u) \in Seq(Int) /\ (~u.char => Whole(Taken(u)))
  BY <1>1, TakingKept
<1>5. ~u.char => "SINGLE_CHAR" \notin t.iflags
  BY <1>4 DEF Kept, Flows
<1>6. \E v \in User, flushes \in BOOLEAN :
        /\ SetTo(n, v) /\ Kept(v) /\ v.char = u.char
        /\ at' = Runs(flushes)
        /\ ~u.char => ~flushes
  <2>1. \/ SetTo(n, t) /\ at' = Runs(FALSE)
        \/ /\ SetTo(n, Answered(t))
           /\ at' = Runs("SINGLE_CHAR" \in t.iflags /\ t.input_to = "self")
    BY <1>1, Zenon DEF RunCommand
  <2>2. CASE SetTo(n, t) /\ at' = Runs(FALSE)
    BY <1>4, <2>2
  <2> DEFINE b == "SINGLE_CHAR" \in t.iflags /\ t.input_to = "self"
  <2>3. CASE SetTo(n, Answered(t)) /\ at' = Runs(b)
    <3>1. Answered(t) \in User /\ Kept(Answered(t)) /\ Answered(t).char = u.char
      BY <1>4, AnsweredKept
    <3>2. b \in BOOLEAN /\ (~u.char => ~b)
      BY <1>5
    <3> HIDE DEF b, Runs, t
    <3> QED
      BY <2>3, <3>1, <3>2
  <2> QED
    BY <2>1, <2>2, <2>3
<1>7. PICK v \in User, flushes \in BOOLEAN :
        /\ SetTo(n, v) /\ Kept(v) /\ v.char = u.char
        /\ at' = Runs(flushes)
        /\ ~u.char => ~flushes
  BY <1>6
<1>8. Table' /\ all_users'[n] = v
  BY <1>2, <1>7, SetToKeeps
<1>9. /\ at' \in Place /\ at'.in = "command" /\ at'.giver = n
      /\ at'.command = Taken(u) /\ at'.flushes = flushes
  BY <1>2, <1>4, <1>7, PlacesAre
<1>10. Running'
  BY <1>4, <1>7, <1>8, <1>9 DEF Running
<1> QED
  BY <1>2, <1>3, <1>8, <1>9, <1>10 DEF IInv, Scanned

LEMMA RoundOverKeeps ==
  ASSUME IInv, RoundOver
  PROVE  IInv'
<1>1. Table'
  BY DEF RoundOver, IInv, Table, Here
<1> QED
  BY <1>1, PlacesAre, ElsewhereKeeps DEF RoundOver, IInv

LEMMA CommandFailsKeeps ==
  ASSUME IInv, CommandFails
  PROVE  IInv'
<1>1. Table'
  BY DEF CommandFails, IInv, Table, Here
<1> QED
  BY <1>1, PlacesAre, ElsewhereKeeps DEF CommandFails, IInv

LEMMA CommandReturnsKeeps ==
  ASSUME IInv, CommandReturns
  PROVE  IInv'
<1>1. /\ Table /\ at \in Place /\ at.in = "command" /\ Running
      /\ at.ran \in 0 .. MaxUsers /\ at.giver \in SlotNo
  BY AtIs DEF IInv, CommandReturns
<1> DEFINE i == at.giver
           u == all_users[i]
           flushing == at.flushes /\ Here(i) /\ ~Has(i, "SINGLE_CHAR")
<1>2. Table'
  <2>1. CASE flushing
    <3>1. u \in User /\ u.char /\ SetTo(i, FlushedText(u))
      BY <1>1, <2>1, SlotIs DEF Running, CommandReturns
    <3>4. Here(i) /\ i \in SlotNo
      BY <1>1, <2>1
    <3> HIDE DEF u, i, flushing
    <3>2. /\ FlushedText(u) \in User /\ FlushedText(u).char
          /\ FlushedText(u).text = <<>>
          /\ "CMD_IN_BUF" \notin FlushedText(u).iflags
      <4> DEFINE v == [u EXCEPT !.text = <<>>]
      <4>1. v \in User /\ v.char = u.char /\ v.text = <<>>
        BY <3>1, EmptySeq, TextChanges
      <4>2. FlushedText(u) = Clear(v, "CMD_IN_BUF")
        BY DEF FlushedText
      <4> HIDE DEF v
      <4> DEFINE w == Clear(v, "CMD_IN_BUF")
      <4>3. /\ w \in User /\ w.iflags = v.iflags \ {"CMD_IN_BUF"}
            /\ w.text = v.text /\ w.char = v.char
        BY <4>1, UserIs
      <4> HIDE DEF w
      <4>4. FlushedText(u) = w
        BY <4>2 DEF w
      <4>5. w.char
        BY <3>1, <4>1, <4>3, Zenon
      <4> QED
        BY <4>1, <4>3, <4>4, <4>5
    <3>3. Kept(FlushedText(u))
      <4>1. Newlines(<<>>) = {}
        BY DEF Newlines
      <4> QED
        BY <3>2, <4>1 DEF Kept
    <3> QED
      BY <1>1, <3>1, <3>2, <3>3, <3>4, SetToKeeps
  <2>2. CASE ~flushing
    BY <1>1, <2>2 DEF CommandReturns, Table, Here
  <2> QED
    BY <2>1, <2>2
<1>3. CASE at.ran < MaxUsers
  <2>1. at' = [in |-> "scan", ran |-> at.ran + 1, scanned |-> 0]
    BY <1>3 DEF CommandReturns
  <2>2. at.ran + 1 \in 0 .. MaxUsers
    BY <1>1, <1>3, CommandsAssumption
  <2> QED
    BY <1>2, <2>1, <2>2, ScanBegins DEF CommandReturns
<1>4. CASE ~(at.ran < MaxUsers)
  <2>1. at' = [in |-> "select"]
    BY <1>4 DEF CommandReturns
  <2> QED
    BY <1>2, <2>1, PlacesAre, ElsewhereKeeps DEF CommandReturns, IInv
<1> QED
  BY <1>3, <1>4

(* What LPC code does to a user.                                           *)
LEMMA LpcStep ==
  ASSUME IInv, at.in = "command", UNCHANGED <<NextCmdGiver, at, typed>>,
         NEW i \in SlotNo, Here(i), NEW u, SetTo(i, u),
         \/ u = NoUser
         \/ u \in User /\ Kept(u) /\ (~u.char => ~all_users[i].char)
  PROVE  IInv'
<1>1. /\ Table'
      /\ \A j \in SlotNo : all_users'[j] = IF j = i THEN u ELSE all_users[j]
  BY SetToKeeps DEF IInv
<1>2. Running'
  <2>1. at.giver \in SlotNo
    BY AtIs DEF IInv
  <2> QED
    BY <1>1, <2>1 DEF IInv, Running, Here
<1> QED
  BY <1>1, <1>2 DEF IInv, Scanned

LEMMA LpcKeeps ==
  ASSUME IInv, Lpc
  PROVE  IInv'
<1>1. /\ Table /\ at.in = "command" /\ UNCHANGED <<NextCmdGiver, at, typed>>
      /\ at.giver \in SlotNo
  BY AtIs DEF IInv, Lpc
<1>2. CASE SetCall
  <2> DEFINE i == at.giver
  <2>1. PICK by \in Callers, char \in BOOLEAN :
          LET v == [all_users[i] EXCEPT
                      !.input_to = by, !.char = @ \/ char,
                      !.ahead = @ \/ (char /\ HalfLine(all_users[i]))]
          IN  SetTo(i, IF char THEN Set(v, "SINGLE_CHAR") ELSE v)
    BY <1>2 DEF SetCall
  <2> DEFINE u == all_users[i]
             v == [u EXCEPT !.input_to = by, !.char = @ \/ char,
                            !.ahead = @ \/ (char /\ HalfLine(u))]
             w == IF char THEN Set(v, "SINGLE_CHAR") ELSE v
  <2>2. u \in User /\ Kept(u) /\ Here(i) /\ i \in SlotNo
    BY <1>1, <1>2, SlotIs DEF SetCall
  <2>3. SetTo(i, w)
    BY <2>1
  <2> HIDE DEF u, i
  <2>4. /\ v \in User /\ v.text = u.text /\ v.line = u.line
        /\ v.iflags = u.iflags /\ v.char = (u.char \/ char)
        /\ v.ahead = (u.ahead \/ (char /\ HalfLine(u)))
    BY <2>2, CommandsAssumption DEF User, HalfLine
  <2> HIDE DEF v
  <2>5. /\ w \in User /\ w.text = u.text /\ w.line = u.line
        /\ w.iflags = u.iflags \union (IF char THEN {"SINGLE_CHAR"} ELSE {})
        /\ w.char = v.char /\ w.ahead = v.ahead
    BY <2>4, UserIs
  <2> HIDE DEF w
  <2>6. Kept(w)
    BY <2>2, <2>4, <2>5, KeptSame
  <2>7. ~w.char => ~u.char
    BY <2>4, <2>5
  <2> QED
    BY <1>1, <2>2, <2>3, <2>5, <2>6, <2>7, LpcStep DEF u
<1>3. ASSUME NEW i \in SlotNo, Here(i), RemoveGetChar(i) PROVE IInv'
  <2> DEFINE u == all_users[i]
             w == [u EXCEPT !.input_to = "none"]
  <2>1. u \in User /\ Kept(u) /\ SetTo(i, w)
    BY <1>1, <1>3, SlotIs DEF RemoveGetChar
  <2> HIDE DEF u
  <2>2. /\ w \in User /\ w.text = u.text /\ w.line = u.line
        /\ w.iflags = u.iflags /\ w.char = u.char
        /\ w.ahead = u.ahead
    BY <2>1 DEF User
  <2> HIDE DEF w
  <2>3. Kept(w)
    BY <2>1, <2>2, KeptSame
  <2> QED
    BY <1>1, <1>3, <2>1, <2>2, <2>3, LpcStep DEF u
<1>4. ASSUME NEW i \in SlotNo, Here(i), RemoveCharmode(i) PROVE IInv'
  <2> DEFINE u == all_users[i]
             w == Clear(u, "SINGLE_CHAR")
  <2>1. u \in User /\ Kept(u) /\ SetTo(i, w)
    BY <1>1, <1>4, SlotIs DEF RemoveCharmode
  <2> HIDE DEF u
  <2>2. /\ w \in User /\ w.text = u.text /\ w.line = u.line
        /\ w.iflags = u.iflags \ {"SINGLE_CHAR"} /\ w.char = u.char
        /\ w.ahead = u.ahead
    BY <2>1, UserIs
  <2> HIDE DEF w
  <2>3. Kept(w)
    BY <2>1, <2>2, KeptSame
  <2> QED
    BY <1>1, <1>4, <2>1, <2>2, <2>3, LpcStep DEF u
<1>5. ASSUME NEW i \in SlotNo, Here(i), AddMessage(i) PROVE IInv'
  <2> DEFINE u == all_users[i]
             v == [u EXCEPT !.message = TRUE]
  <2>1. u \in User /\ Kept(u)
    BY <1>1, <1>5, SlotIs
  <2>2. PICK w \in Flushed(v) : SetTo(i, w)
    BY <1>5 DEF AddMessage
  <2> HIDE DEF u
  <2>3. /\ v \in User /\ v.text = u.text /\ v.line = u.line
        /\ v.iflags = u.iflags /\ v.char = u.char
        /\ v.ahead = u.ahead
    BY <2>1 DEF User
  <2> HIDE DEF v
  <2>4. Kept(v)
    BY <2>1, <2>3, KeptSame
  <2>5. w \in User /\ Kept(w) /\ w.char = u.char
    BY <2>2, <2>3, <2>4, FlushedKept
  <2> QED
    BY <1>1, <1>5, <2>2, <2>5, LpcStep DEF u
<1>6. ASSUME NEW i \in SlotNo, Here(i), DestructUser(i) PROVE IInv'
  BY <1>1, <1>6, LpcStep DEF DestructUser
<1>7. ASSUME NEW i \in SlotNo, Here(i), DestructCaller(i) PROVE IInv'
  <2> DEFINE u == all_users[i]
             w == [u EXCEPT !.input_to = "destructed"]
  <2>1. u \in User /\ Kept(u) /\ SetTo(i, w)
    BY <1>1, <1>7, SlotIs DEF DestructCaller
  <2> HIDE DEF u
  <2>2. /\ w \in User /\ w.text = u.text /\ w.line = u.line
        /\ w.iflags = u.iflags /\ w.char = u.char
        /\ w.ahead = u.ahead
    BY <2>1 DEF User
  <2> HIDE DEF w
  <2>3. Kept(w)
    BY <2>1, <2>2, KeptSame
  <2> QED
    BY <1>1, <1>7, <2>1, <2>2, <2>3, LpcStep DEF u
<1> QED
  BY <1>2, <1>3, <1>4, <1>5, <1>6, <1>7 DEF Lpc

-----------------------------------------------------------------------------
(* The whole *)

LEMMA InitHasIInv == Init => IInv
<1> SUFFICES ASSUME Init PROVE IInv
  OBVIOUS
<1>1. /\ all_users = [i \in SlotNo |-> NoUser] /\ NextCmdGiver = 0
      /\ at = [in |-> "select"] /\ typed = 0
  BY DEF Init
<1>2. Table
  BY <1>1 DEF Table, Here
<1>3. NextCmdGiver \in SlotNo /\ at \in Place /\ typed \in 0 .. MaxTyped
  BY <1>1, PlacesAre, CommandsAssumption DEF SlotNo
<1> QED
  BY <1>1, <1>2, <1>3 DEF IInv, Running, Scanned

LEMMA NextKeeps == IInv /\ [Next]_vars => IInv'
<1> SUFFICES ASSUME IInv, [Next]_vars PROVE IInv'
  OBVIOUS
<1>1. CASE Next
  BY <1>1, StartRoundKeeps, ProcessIoKeeps, ScanOnKeeps, TakeCommandKeeps,
     RoundOverKeeps, CommandReturnsKeeps, CommandFailsKeeps, LpcKeeps DEF Next
<1>2. CASE UNCHANGED vars
  BY <1>2 DEF vars, IInv, Table, Here, Running, Scanned, Since, Has
<1> QED
  BY <1>1, <1>2

(* In every reachable state the invariant holds.                           *)
THEOREM Invariance == Spec => []IInv
BY InitHasIInv, NextKeeps, PTL DEF Spec

(* Every variable has its type, whatever users type and LPC code does.     *)
THEOREM TypeOKHolds == Spec => []TypeOK
<1>1. IInv => TypeOK
  BY DEF IInv, Table, TypeOK
<1> QED
  BY <1>1, Invariance, PTL

(* CMD_IN_BUF is set while a command is in the buffer, unless it is half a *)
(* line that get_char() was called over, and never over an empty one.      *)
THEOREM FlagMatchesTextHolds == Spec => []FlagMatchesText
<1>1. IInv => FlagMatchesText
  <2> SUFFICES ASSUME IInv, NEW i \in SlotNo, Here(i)
               PROVE  LET u == all_users[i] IN
                      /\ CmdInBuf(u) => "CMD_IN_BUF" \in u.iflags \/ u.ahead
                      /\ Newlines(u.text) # {} => "CMD_IN_BUF" \in u.iflags
                      /\ "CMD_IN_BUF" \in u.iflags => u.text # <<>>
    BY DEF FlagMatchesText, Has
  <2>1. all_users[i] \in User /\ Kept(all_users[i])
    BY SlotIs DEF IInv
  <2> QED
    BY <2>1, KeptCommand DEF Kept
<1> QED
  BY <1>1, Invariance, PTL

(* Users who were never in character mode give whole lines as commands.    *)
THEOREM WholeLinesHolds == Spec => []WholeLines
<1>1. IInv => WholeLines
  BY Zenon DEF IInv, Running, Whole, WholeLines
<1> QED
  BY <1>1, Invariance, PTL

(* A round that ends for want of a command leaves no command in anybody's  *)
(* text but of those whose connection is lost, and half a line that        *)
(* get_char() was called over and that has not been added to since.        *)
THEOREM RoundDrainsHolds == Spec => RoundDrains
<1> DEFINE Drains ==
      at.in = "scan" /\ at'.in = "select" =>
        \A i \in SlotNo : Here(i)' =>
          /\ Has(i, "CMD_IN_BUF")' => Has(i, "NET_DEAD")'
          /\ CmdInBuf(all_users[i])' => Has(i, "NET_DEAD")' \/ all_users[i].ahead'
<1>1. IInv /\ [Next]_vars => [Drains]_vars
  <2> SUFFICES ASSUME IInv, Next, at.in = "scan", at'.in = "select",
                      NEW i \in SlotNo, Here(i)'
               PROVE  /\ Has(i, "CMD_IN_BUF")' => Has(i, "NET_DEAD")'
                      /\ CmdInBuf(all_users[i])' =>
                           Has(i, "NET_DEAD")' \/ all_users[i].ahead'
    OBVIOUS
  <2>1. ~TakeCommand
    <3> SUFFICES ASSUME TakeCommand PROVE FALSE
      OBVIOUS
    <3>1. PICK u \in User : RunCommand(NextCmdGiver, u)
      BY TakeCommandTakes
    <3>2. at'.in = "command"
      BY <3>1 DEF RunCommand
    <3> QED
      BY <3>2
  <2>2. ~ScanOn
    <3> SUFFICES ASSUME ScanOn PROVE FALSE
      OBVIOUS
    <3>1. at \in [in : {"scan"}, ran : 0 .. MaxUsers, scanned : 0 .. MaxUsers]
      BY AtIs DEF IInv
    <3> QED
      BY <3>1 DEF ScanOn
  <2>3. RoundOver
    BY <2>1, <2>2 DEF Next, StartRound, ProcessIo, NewUserHandler, SkipUser,
       RemoveUser, ReadUser, FlushUser, IoDone, CommandReturns, CommandFails, Lpc
  <2>4. at.scanned = MaxUsers /\ UNCHANGED all_users
    BY <2>3 DEF RoundOver
  <2>5. Since(i) <= at.scanned
    BY <2>4, CommandsAssumption DEF IInv, Since, SlotNo
  <2>6. Has(i, "CMD_IN_BUF") => Has(i, "NET_DEAD")
    BY <2>5 DEF IInv, Scanned
  <2>7. all_users'[i] = all_users[i] /\ Here(i)
    BY <2>4 DEF Here
  <2>8. all_users[i] \in User /\ Kept(all_users[i])
    BY <2>7, SlotIs DEF IInv
  <2>9. CmdInBuf(all_users[i]) => Has(i, "CMD_IN_BUF") \/ all_users[i].ahead
    BY <2>7, <2>8, KeptCommand DEF Has
  <2>10. /\ Has(i, "CMD_IN_BUF")' = Has(i, "CMD_IN_BUF")
         /\ Has(i, "NET_DEAD")' = Has(i, "NET_DEAD")
    BY <2>7 DEF Has, Here
  <2>11. CmdInBuf(all_users[i])' = CmdInBuf(all_users[i])
    BY <2>7 DEF CmdInBuf, Cleaned, Newlines, FirstLine, After, Clear
  <2> QED
    BY <2>6, <2>7, <2>9, <2>10, <2>11
<1> QED
  BY <1>1, Invariance, PTL DEF Spec, RoundDrains
=============================================================================
