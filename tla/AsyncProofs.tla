------------------------------ MODULE AsyncProofs ------------------------------
(***************************************************************************)
(* For any number of requests and every interleaving of the two threads:   *)
(* the types of Async are kept, no work node is in two places, the driver  *)
(* does not end before plain requests are in the files, and every step is  *)
(* a step of Jobs or leaves it as it is.                                   *)
(*                                                                         *)
(* The invariant names the list q of nodes to be done and the list f of    *)
(* free nodes, which the heads and the links spell.                        *)
(***************************************************************************)
EXTENDS Async, FiniteSetTheorems, SequenceTheorems, WellFoundedInduction, TLAPS

-----------------------------------------------------------------------------
(* The inductive invariant *)

Apart(s) == \A i, j \in DOMAIN s : s[i] = s[j] => i = j

(* The links nx spell the list s of nodes from its head.                   *)
Linked(s, first, nx) ==
  /\ s \in Seq(Node) /\ Apart(s)
  /\ first = IF s = <<>> THEN None ELSE s[1]
  /\ \A i \in DOMAIN s : nx[s[i]] = IF i = Len(s) THEN None ELSE s[i + 1]

(* The worker has a node in hand, and has yet to carry its request out,    *)
(* or to say so.                                                           *)
Has == worker.at \in {"drop", "run", "done", "close", "free", "freed"}
ToRun == worker.at \in {"drop", "run"}

(* The main thread has a request in hand that it has not yet put in.       *)
Asking == main.at \in {"take", "put"}

MainPlace == [at : {"lpc", "take", "put", "last", "post", "off"},
              work : Ptr, req : Ptr]
WorkerPlace == [at : {"wait", "test", "pop", "drop", "run", "done", "close",
                      "free", "freed"}, work : Ptr]

Types ==
  /\ main \in MainPlace /\ worker \in WorkerPlace
  /\ mut \in BOOLEAN
  /\ lasttodo \in Ptr
  /\ next \in [Node -> Ptr] /\ data \in [Node -> Ptr]
  /\ req \in [Node -> Request]
  /\ reqs \in Seq(Node) /\ reqms \in Seq(Node)
  /\ handling \in BOOLEAN /\ down \in BOOLEAN
  /\ in_file \subseteq Node
  /\ asked \in Seq(Kinds) /\ Len(asked) <= MaxAsks
  /\ carried \in Seq(Node) /\ answered \in Seq(Node)

Locks ==
  /\ work_mut \in Holder /\ mem_mut \in Holder
  /\ work_mut = "main" <=> main.at = "last"
  /\ work_mut = "worker" <=> worker.at = "drop"
  /\ mem_mut # "main"
  /\ mem_mut = "worker" <=> worker.at = "freed"

(* The two lists.  While one thread holds work_mut, lasttodo may be wrong. *)
Lists(q, f) ==
  /\ Linked(q, todo, next) /\ Linked(f, stuffs, next)
  /\ Elements(q) \intersect Elements(f) = {}
  /\ work_mut = "nobody" => lasttodo = IF q = <<>> THEN None ELSE q[Len(q)]
  /\ work_mut = "main" => q # <<>> /\ main.work = q[Len(q)]
  /\ work_mut = "worker" /\ q # <<>> => lasttodo = q[Len(q)]
  /\ main.at = "take" => f # <<>>
  /\ worker.at = "pop" => q # <<>>
  /\ worker.at = "freed" => next[worker.work] = stuffs

(* Nodes in hand are in no list, and memory is used from the lowest on.    *)
Hands(q, f) ==
  /\ \A n \in Elements(q) \union Elements(f) : n <= Len(asked)
  /\ main.at \in {"lpc", "take", "off"} => main.work = None
  /\ main.at = "put" =>
       /\ main.work \in Node /\ main.work <= Len(asked)
       /\ main.work \notin Elements(q) \union Elements(f)
       /\ main.work # worker.work
  /\ ~Has => worker.work = None
  /\ Has =>
       /\ worker.work \in Node /\ worker.work <= Len(asked)
       /\ worker.work \notin Elements(q) \union Elements(f)

(* The first request was called, its function ended in an error or is      *)
(* still running.                                                          *)
Called == reqs # <<>> /\ req[reqs[1]].done

(* How many requests are put in, and the number before the first waiting.  *)
Made == IF Asking THEN Len(asked) - 1 ELSE Len(asked)
Before == IF Called THEN Len(answered) - 1 ELSE Len(answered)

(* The requests that wait for their call are numbered in order, and only   *)
(* the first may have had it.                                              *)
Waiting ==
  /\ Len(answered) <= Len(carried)
  /\ Before + Len(reqs) = Made
  /\ \A i \in DOMAIN reqs :
       /\ req[reqs[i]].id = Before + i
       /\ req[reqs[i]].kind = asked[Before + i]
       /\ req[reqs[i]].done => i = 1 /\ req[reqs[i]].status = "DONE"
       /\ req[reqs[i]].status = "DONE" => Before + i <= Len(carried)
  /\ handling => Called

(* Requests are in one list or in hand, and memory is used as for nodes.   *)
Spares ==
  /\ Apart(reqs) /\ Apart(reqms)
  /\ Elements(reqs) \intersect Elements(reqms) = {}
  /\ \A r \in Elements(reqs) \union Elements(reqms) : r <= Len(asked)
  /\ Asking =>
       /\ main.req \in Node /\ main.req <= Len(asked)
       /\ main.req \notin Elements(reqs) \union Elements(reqms)
       /\ asked # <<>>
       /\ req[main.req] = [id |-> Len(asked), kind |-> asked[Len(asked)],
                           status |-> "BUSY", done |-> FALSE]

(* Node n is for the request with the number id, which waits and is not    *)
(* carried out yet.                                                        *)
For(n, id) ==
  /\ data[n] \in Elements(reqs)
  /\ req[data[n]].id = id /\ req[data[n]].status = "BUSY"

(* What is to be done is what was not carried out, in order.               *)
Done == IF ToRun THEN Len(carried) + 1 ELSE Len(carried)
Works(q) ==
  /\ Done + Len(q) = Made
  /\ \A i \in DOMAIN q : For(q[i], Done + i)
  /\ ToRun => For(worker.work, Done)
  /\ worker.at = "done" => For(worker.work, Done)
  /\ worker.at \in {"done", "close"} => carried # <<>>

Files ==
  /\ \A n \in DOMAIN carried : asked[n] = "plain" => n \in in_file
  /\ main.at = "off" => reqs = <<>>

Inv(q, f) ==
  Types /\ Locks /\ Lists(q, f) /\ Hands(q, f) /\ Waiting /\ Spares /\ Works(q)
  /\ Files

IInv == \E q, f \in Seq(Node) : Inv(q, f)

-----------------------------------------------------------------------------
(* Sequences and lists *)

LEMMA LeastNumber ==
  ASSUME NEW T \in SUBSET Nat, T # {}
  PROVE  \E m \in T : \A k \in T : m <= k
<1> DEFINE R == StrictSubsetOrdering(Nat)
           F == FiniteSubsetsOf(Nat)
           V == {0 .. k : k \in T}
<1>1. IsWellFoundedOn(R, F)
  BY FS_StrictSubsetOrderingWellFounded
<1>2. V \subseteq F
  <2> SUFFICES ASSUME NEW k \in T PROVE 0 .. k \in F
    OBVIOUS
  <2>1. k \in Nat /\ IsFiniteSet(0 .. k) /\ 0 .. k \subseteq Nat
    BY FS_Interval
  <2> QED
    BY <2>1 DEF FiniteSubsetsOf
<1>3. V # {}
  OBVIOUS
<1>4. PICK v \in V : \A w \in V : ~(<<w, v>> \in R)
  <2> HIDE DEF R, F, V
  <2> QED
    BY <1>1, <1>2, <1>3, WFMin
<1>5. PICK m \in T : v = 0 .. m
  OBVIOUS
<1>6. ASSUME NEW k \in T PROVE m <= k
  <2> SUFFICES ASSUME ~(m <= k) PROVE FALSE
    OBVIOUS
  <2>1. m \in Nat /\ k \in Nat /\ k < m
    OBVIOUS
  <2>2. /\ 0 .. k \in SUBSET Nat /\ 0 .. m \in SUBSET Nat
        /\ 0 .. k \subseteq 0 .. m /\ 0 .. k # 0 .. m
    BY <2>1
  <2>3. <<0 .. k, 0 .. m>> \in R
    BY <2>2 DEF StrictSubsetOrdering
  <2> QED
    BY <1>4, <1>5, <2>3
<1> QED
  BY <1>6

LEMMA SeqIs ==
  ASSUME NEW S, NEW s \in Seq(S)
  PROVE  /\ Len(s) \in Nat /\ DOMAIN s = 1 .. Len(s)
         /\ \A i \in DOMAIN s : s[i] \in S
         /\ s # <<>> <=> Len(s) > 0
         /\ Elements(s) \subseteq S
         /\ \A i \in DOMAIN s : s[i] \in Elements(s)
<1>1. Len(s) \in Nat /\ DOMAIN s = 1 .. Len(s) /\ \A i \in DOMAIN s : s[i] \in S
  BY LenProperties, ElementOfSeq
<1>2. s # <<>> <=> Len(s) > 0
  BY <1>1, EmptySeq
<1> QED
  BY <1>1, <1>2 DEF Elements

LEMMA NoElements ==
  /\ \A S : <<>> \in Seq(S)
  /\ Len(<<>>) = 0 /\ DOMAIN <<>> = {} /\ Elements(<<>>) = {} /\ Apart(<<>>)
<1>1. /\ \A S : <<>> \in Seq(S)
      /\ Len(<<>>) = 0
  BY EmptySeq
<1>2. DOMAIN <<>> = {}
  BY <1>1, SeqIs
<1> QED
  BY <1>1, <1>2 DEF Elements, Apart

LEMMA TailIs ==
  ASSUME NEW S, NEW s \in Seq(S), s # <<>>
  PROVE  /\ Tail(s) \in Seq(S) /\ Len(Tail(s)) = Len(s) - 1
         /\ DOMAIN Tail(s) = 1 .. Len(s) - 1
         /\ \A i \in DOMAIN Tail(s) : i + 1 \in DOMAIN s /\ Tail(s)[i] = s[i + 1]
         /\ Elements(Tail(s)) \subseteq Elements(s)
         /\ Elements(s) = Elements(Tail(s)) \union {s[1]}
         /\ Apart(s) => Apart(Tail(s)) /\ s[1] \notin Elements(Tail(s))
<1>1. /\ Tail(s) \in Seq(S) /\ Len(Tail(s)) = Len(s) - 1
      /\ \A i \in 1 .. Len(Tail(s)) : Tail(s)[i] = s[i + 1]
  BY HeadTailProperties
<1>2. /\ Len(s) \in Nat \ {0} /\ DOMAIN s = 1 .. Len(s)
      /\ DOMAIN Tail(s) = 1 .. Len(s) - 1
  BY <1>1, SeqIs
<1>3. \A i \in DOMAIN Tail(s) : i + 1 \in DOMAIN s /\ Tail(s)[i] = s[i + 1]
  BY <1>1, <1>2
<1>4. Elements(Tail(s)) \subseteq Elements(s)
  BY <1>3 DEF Elements
<1>5. Elements(s) \subseteq Elements(Tail(s)) \union {s[1]}
  <2> SUFFICES ASSUME NEW i \in DOMAIN s, i # 1
               PROVE  s[i] \in Elements(Tail(s))
    BY DEF Elements
  <2>1. i - 1 \in DOMAIN Tail(s) /\ (i - 1) + 1 = i
    BY <1>2
  <2>2. Tail(s)[i - 1] = s[i]
    BY <1>3, <2>1
  <2> QED
    BY <2>1, <2>2 DEF Elements
<1>6. s[1] \in Elements(s)
  BY <1>2 DEF Elements
<1>7. Apart(s) => Apart(Tail(s)) /\ s[1] \notin Elements(Tail(s))
  <2> SUFFICES ASSUME Apart(s)
               PROVE  Apart(Tail(s)) /\ s[1] \notin Elements(Tail(s))
    OBVIOUS
  <2>1. Apart(Tail(s))
    <3> SUFFICES ASSUME NEW i \in DOMAIN Tail(s), NEW j \in DOMAIN Tail(s),
                        Tail(s)[i] = Tail(s)[j]
                 PROVE  i = j
      BY DEF Apart
    <3>1. i + 1 = j + 1
      BY <1>3 DEF Apart
    <3> QED
      BY <1>2, <3>1
  <2>2. s[1] \notin Elements(Tail(s))
    <3> SUFFICES ASSUME NEW i \in DOMAIN Tail(s), Tail(s)[i] = s[1]
                 PROVE  FALSE
      BY DEF Elements
    <3>1. i + 1 = 1
      BY <1>2, <1>3 DEF Apart
    <3> QED
      BY <1>2, <3>1
  <2> QED
    BY <2>1, <2>2
<1> QED
  BY <1>1, <1>2, <1>3, <1>4, <1>5, <1>6, <1>7

LEMMA AppendIs ==
  ASSUME NEW S, NEW s \in Seq(S), NEW x \in S
  PROVE  /\ Append(s, x) \in Seq(S) /\ Append(s, x) # <<>>
         /\ Len(Append(s, x)) = Len(s) + 1
         /\ DOMAIN Append(s, x) = 1 .. Len(s) + 1
         /\ \A i \in DOMAIN s : Append(s, x)[i] = s[i]
         /\ Append(s, x)[Len(s) + 1] = x
         /\ Elements(Append(s, x)) = Elements(s) \union {x}
         /\ Apart(s) /\ x \notin Elements(s) => Apart(Append(s, x))
<1> DEFINE t == Append(s, x)
<1>1. /\ t \in Seq(S) /\ t # <<>> /\ Len(t) = Len(s) + 1
      /\ \A i \in 1 .. Len(s) : t[i] = s[i]
      /\ t[Len(s) + 1] = x
  BY AppendProperties
<1> HIDE DEF t
<1>2. Len(s) \in Nat /\ DOMAIN s = 1 .. Len(s) /\ DOMAIN t = 1 .. Len(s) + 1
  BY <1>1, SeqIs
<1>3. Elements(t) = Elements(s) \union {x}
  <2>1. \A i \in DOMAIN s : i \in DOMAIN t
    BY <1>2
  <2>2. Len(s) + 1 \in DOMAIN t
    BY <1>2
  <2>3. \A i \in DOMAIN t : i \in DOMAIN s \/ i = Len(s) + 1
    BY <1>2
  <2> QED
    BY <1>1, <1>2, <2>1, <2>2, <2>3 DEF Elements
<1>4. Apart(s) /\ x \notin Elements(s) => Apart(t)
  <2>1. \A i \in DOMAIN t : i \in DOMAIN s \/ i = Len(s) + 1
    BY <1>2
  <2> QED
    BY <1>1, <1>2, <2>1 DEF Elements, Apart
<1> QED
  BY <1>1, <1>2, <1>3, <1>4 DEF t

LEMMA PushIs ==
  ASSUME NEW S, NEW s \in Seq(S), NEW x \in S
  PROVE  /\ <<x>> \o s \in Seq(S) /\ <<x>> \o s # <<>>
         /\ Len(<<x>> \o s) = Len(s) + 1
         /\ DOMAIN (<<x>> \o s) = 1 .. Len(s) + 1
         /\ (<<x>> \o s)[1] = x
         /\ \A i \in DOMAIN s : (<<x>> \o s)[i + 1] = s[i]
         /\ Elements(<<x>> \o s) = Elements(s) \union {x}
         /\ Apart(s) /\ x \notin Elements(s) => Apart(<<x>> \o s)
<1> DEFINE t == <<x>> \o s
<1>1. <<x>> \in Seq(S) /\ Len(<<x>>) = 1 /\ <<x>>[1] = x
  OBVIOUS
<1>2. Len(s) \in Nat /\ DOMAIN s = 1 .. Len(s)
  BY SeqIs
<1>3. /\ t \in Seq(S) /\ Len(t) = 1 + Len(s)
      /\ \A i \in 1 .. 1 + Len(s) : t[i] = IF i <= 1 THEN <<x>>[i] ELSE s[i - 1]
  BY <1>1, ConcatProperties
<1> HIDE DEF t
<1>4. DOMAIN t = 1 .. Len(s) + 1 /\ t # <<>>
  BY <1>2, <1>3, SeqIs
<1>5. t[1] = x
  BY <1>1, <1>2, <1>3
<1>6. \A i \in DOMAIN s : i + 1 \in DOMAIN t /\ t[i + 1] = s[i]
  BY <1>2, <1>3, <1>4
<1>7. \A i \in DOMAIN t : i = 1 \/ (i - 1 \in DOMAIN s /\ t[i] = s[i - 1])
  BY <1>2, <1>3, <1>4
<1>8. Elements(t) = Elements(s) \union {x}
  <2>1. 1 \in DOMAIN t
    BY <1>2, <1>4
  <2> QED
    BY <1>5, <1>6, <1>7, <2>1 DEF Elements
<1>9. Apart(s) /\ x \notin Elements(s) => Apart(t)
  <2> SUFFICES ASSUME Apart(s), x \notin Elements(s),
                      NEW i \in DOMAIN t, NEW j \in DOMAIN t, t[i] = t[j]
               PROVE  i = j
    BY DEF Apart
  <2>1. CASE i = 1 \/ j = 1
    BY <1>5, <1>7, <2>1 DEF Elements
  <2>2. CASE i # 1 /\ j # 1
    <3>1. i - 1 = j - 1
      BY <1>7, <2>2 DEF Apart
    <3> QED
      BY <1>2, <1>4, <3>1
  <2> QED
    BY <2>1, <2>2
<1> QED
  BY <1>2, <1>3, <1>4, <1>5, <1>6, <1>8, <1>9 DEF t

(* What links spell is the same as long as they are.                       *)
LEMMA LinkedSame ==
  ASSUME NEW s, NEW first, NEW nx, Linked(s, first, nx), NEW ny,
         \A n \in Elements(s) : ny[n] = nx[n]
  PROVE  Linked(s, first, ny)
BY SeqIs DEF Linked

LEMMA LinkedIs ==
  ASSUME NEW s, NEW first, NEW nx, Linked(s, first, nx)
  PROVE  /\ s \in Seq(Node) /\ Apart(s)
         /\ first \in Ptr
         /\ first = None <=> s = <<>>
         /\ s # <<>> => first \in Elements(s) /\ first = s[1]
<1>1. s # <<>> => 1 \in DOMAIN s /\ s[1] \in Node /\ s[1] \in Elements(s)
  BY SeqIs DEF Linked
<1>2. None \notin Node
  BY AsyncAssumption DEF Node
<1> QED
  BY <1>1, <1>2 DEF Linked, Ptr

(* The first node is taken, ...                                            *)
LEMMA LinkedTail ==
  ASSUME NEW s, NEW first, NEW nx, Linked(s, first, nx), s # <<>>
  PROVE  /\ Linked(Tail(s), nx[first], nx)
         /\ Elements(Tail(s)) = Elements(s) \ {first}
         /\ first \in Node /\ first \in Elements(s)
         /\ Tail(s) # <<>> => Tail(s)[Len(Tail(s))] = s[Len(s)]
<1> DEFINE t == Tail(s)
<1>1. /\ s \in Seq(Node) /\ Apart(s) /\ first = s[1]
      /\ \A i \in DOMAIN s : nx[s[i]] = IF i = Len(s) THEN None ELSE s[i + 1]
  BY DEF Linked
<1>2. /\ Len(s) \in Nat \ {0} /\ DOMAIN s = 1 .. Len(s)
      /\ s[1] \in Node /\ s[1] \in Elements(s)
  BY <1>1, SeqIs
<1>3. /\ t \in Seq(Node) /\ Len(t) = Len(s) - 1
      /\ DOMAIN t = 1 .. Len(s) - 1
      /\ \A i \in DOMAIN t : i + 1 \in DOMAIN s /\ t[i] = s[i + 1]
      /\ Elements(s) = Elements(t) \union {s[1]}
      /\ Apart(t) /\ s[1] \notin Elements(t)
  BY <1>1, TailIs
<1> HIDE DEF t
<1>4. t # <<>> <=> Len(s) > 1
  BY <1>2, <1>3, SeqIs
<1>5. nx[first] = IF t = <<>> THEN None ELSE t[1]
  BY <1>1, <1>2, <1>3, <1>4
<1>6. ASSUME NEW i \in DOMAIN t
      PROVE  nx[t[i]] = IF i = Len(t) THEN None ELSE t[i + 1]
  <2>1. i \in Nat /\ i + 1 \in DOMAIN s /\ t[i] = s[i + 1]
    BY <1>2, <1>3
  <2>2. nx[t[i]] = IF i + 1 = Len(s) THEN None ELSE s[(i + 1) + 1]
    BY <1>1, <2>1
  <2>3. i + 1 = Len(s) <=> i = Len(t)
    BY <1>2, <1>3, <2>1
  <2>4. i # Len(t) => t[i + 1] = s[(i + 1) + 1]
    BY <1>2, <1>3, <2>1
  <2> QED
    BY <2>2, <2>3, <2>4
<1>7. t # <<>> => t[Len(t)] = s[Len(s)]
  <2> SUFFICES ASSUME t # <<>> PROVE t[Len(t)] = s[Len(s)]
    OBVIOUS
  <2>1. Len(t) \in DOMAIN t /\ Len(t) + 1 = Len(s)
    BY <1>2, <1>3, <1>4
  <2> QED
    BY <1>3, <2>1
<1>8. Linked(t, nx[first], nx)
  BY <1>3, <1>5, <1>6 DEF Linked
<1> QED
  BY <1>1, <1>2, <1>3, <1>7, <1>8 DEF t

(* ... one is put first, with the link to the first, ...                   *)
LEMMA LinkedPush ==
  ASSUME NEW s, NEW first, NEW nx, Linked(s, first, nx),
         NEW n \in Node, n \notin Elements(s), nx[n] = first
  PROVE  /\ Linked(<<n>> \o s, n, nx)
         /\ Elements(<<n>> \o s) = Elements(s) \union {n}
<1> DEFINE t == <<n>> \o s
<1>1. /\ s \in Seq(Node) /\ Apart(s) /\ first = IF s = <<>> THEN None ELSE s[1]
      /\ \A i \in DOMAIN s : nx[s[i]] = IF i = Len(s) THEN None ELSE s[i + 1]
  BY DEF Linked
<1>2. /\ Len(s) \in Nat /\ DOMAIN s = 1 .. Len(s)
      /\ s # <<>> <=> Len(s) > 0
  BY <1>1, SeqIs
<1>3. /\ t \in Seq(Node) /\ t # <<>> /\ Len(t) = Len(s) + 1
      /\ DOMAIN t = 1 .. Len(s) + 1 /\ t[1] = n
      /\ \A i \in DOMAIN s : t[i + 1] = s[i]
      /\ Elements(t) = Elements(s) \union {n} /\ Apart(t)
  BY <1>1, PushIs
<1> HIDE DEF t
<1>4. ASSUME NEW i \in DOMAIN t
      PROVE  nx[t[i]] = IF i = Len(t) THEN None ELSE t[i + 1]
  <2>1. CASE i = 1
    BY <1>1, <1>2, <1>3, <2>1
  <2>2. CASE i # 1
    <3>1. /\ i \in Nat /\ i - 1 \in DOMAIN s /\ i = (i - 1) + 1
          /\ i - 1 = Len(s) <=> i = Len(t)
      BY <1>2, <1>3, <2>2
    <3>2. t[i] = s[i - 1]
      BY <1>3, <3>1
    <3>3. nx[t[i]] = IF i = Len(t) THEN None ELSE s[i]
      BY <1>1, <3>1, <3>2
    <3>4. i # Len(t) => i \in DOMAIN s
      BY <1>2, <1>3, <3>1
    <3> QED
      BY <1>3, <3>3, <3>4
  <2> QED
    BY <2>1, <2>2
<1>5. Linked(t, n, nx)
  BY <1>3, <1>4 DEF Linked
<1> QED
  BY <1>3, <1>5 DEF t

(* ... or one is put last.                                                 *)
LEMMA LinkedAppend ==
  ASSUME NEW s, NEW first, NEW nx, Linked(s, first, nx),
         NEW n \in Node, n \notin Elements(s), NEW ny,
         ny[n] = None, s # <<>> => ny[s[Len(s)]] = n,
         \A m \in Elements(s) : m # s[Len(s)] => ny[m] = nx[m]
  PROVE  /\ Linked(Append(s, n), IF s = <<>> THEN n ELSE first, ny)
         /\ Elements(Append(s, n)) = Elements(s) \union {n}
         /\ Append(s, n)[Len(Append(s, n))] = n
<1> DEFINE t == Append(s, n)
<1>1. /\ s \in Seq(Node) /\ Apart(s) /\ first = IF s = <<>> THEN None ELSE s[1]
      /\ \A i \in DOMAIN s : nx[s[i]] = IF i = Len(s) THEN None ELSE s[i + 1]
  BY DEF Linked
<1>2. /\ Len(s) \in Nat /\ DOMAIN s = 1 .. Len(s)
      /\ s # <<>> <=> Len(s) > 0
      /\ \A i \in DOMAIN s : s[i] \in Elements(s)
  BY <1>1, SeqIs
<1>3. /\ t \in Seq(Node) /\ t # <<>> /\ Len(t) = Len(s) + 1
      /\ DOMAIN t = 1 .. Len(s) + 1 /\ t[Len(s) + 1] = n
      /\ \A i \in DOMAIN s : t[i] = s[i]
      /\ Elements(t) = Elements(s) \union {n} /\ Apart(t)
  BY <1>1, AppendIs
<1> HIDE DEF t
<1>4. (IF s = <<>> THEN n ELSE first) = t[1]
  BY <1>1, <1>2, <1>3
<1>5. ASSUME NEW i \in DOMAIN t
      PROVE  ny[t[i]] = IF i = Len(t) THEN None ELSE t[i + 1]
  <2>1. CASE i = Len(s) + 1
    BY <1>2, <1>3, <2>1
  <2>2. CASE i = Len(s)
    <3>0. i \in 1 .. Len(s) + 1 /\ Len(s) \in Nat
      BY <1>2, <1>3
    <3>1. i \in 1 .. Len(s) /\ Len(s) > 0 /\ i # Len(s) + 1
      BY <2>2, <3>0
    <3>2. i \in DOMAIN s /\ s # <<>> /\ i # Len(t)
      BY <1>2, <1>3, <3>1
    <3>3. ny[t[i]] = n
      BY <1>3, <2>2, <3>2
    <3> QED
      BY <1>3, <2>2, <3>2, <3>3
  <2>3. CASE i # Len(s) + 1 /\ i # Len(s)
    <3>1. i \in DOMAIN s /\ i + 1 \in DOMAIN s /\ Len(s) \in DOMAIN s
      BY <1>2, <1>3, <2>3
    <3>2. s[i] # s[Len(s)]
      BY <1>1, <2>3, <3>1 DEF Apart
    <3>3. ny[s[i]] = s[i + 1]
      BY <1>1, <1>2, <2>3, <3>1, <3>2
    <3> QED
      BY <1>2, <1>3, <2>3, <3>1, <3>3
  <2> QED
    BY <2>1, <2>2, <2>3
<1>6. Linked(t, IF s = <<>> THEN n ELSE first, ny)
  BY <1>3, <1>4, <1>5 DEF Linked
<1> QED
  BY <1>3, <1>6 DEF t

(* The nodes reached from the head are those of the list.                  *)
LEMMA FromIs ==
  ASSUME NEW s, NEW first, Linked(s, first, next)
  PROVE  From(first) = Elements(s)
<1>1. /\ s \in Seq(Node) /\ first = IF s = <<>> THEN None ELSE s[1]
      /\ \A i \in DOMAIN s : next[s[i]] = IF i = Len(s) THEN None ELSE s[i + 1]
  BY DEF Linked
<1>2. /\ Len(s) \in Nat /\ DOMAIN s = 1 .. Len(s)
      /\ s # <<>> <=> Len(s) > 0
      /\ \A i \in DOMAIN s : s[i] \in Elements(s)
      /\ Elements(s) \subseteq Node
  BY <1>1, SeqIs
<1>3. ASSUME NEW n \in From(first)
      PROVE  n \in Elements(s)
  <2> DEFINE S == Elements(s) \union {None}
  <2>1. S \in SUBSET Ptr /\ first \in S
    BY <1>1, <1>2 DEF Ptr
  <2>2. ASSUME NEW m \in S \ {None}
        PROVE  next[m] \in S
    <3>1. PICK i \in DOMAIN s : m = s[i]
      BY DEF Elements
    <3>2. i # Len(s) => i + 1 \in DOMAIN s
      BY <1>2
    <3> QED
      BY <1>1, <1>2, <3>1, <3>2
  <2>3. Closed(S)
    BY <2>2 DEF Closed
  <2>4. n \in S /\ n # None
    BY <2>1, <2>3, AsyncAssumption DEF From, Node
  <2> QED
    BY <2>4
<1>4. ASSUME NEW n \in Elements(s), NEW S \in SUBSET Ptr, first \in S, Closed(S)
      PROVE  n \in S
  <2> DEFINE Out == {i \in DOMAIN s : s[i] \notin S}
  <2> SUFFICES ASSUME Out # {} PROVE FALSE
    BY DEF Elements
  <2>1. Out \in SUBSET Nat
    BY <1>2
  <2>2. PICK i \in Out : \A j \in Out : i <= j
    BY <2>1, LeastNumber
  <2>3. i \in DOMAIN s /\ i # 1
    BY <1>1, <1>2, <1>4
  <2>4. i - 1 \in DOMAIN s /\ i - 1 # Len(s) /\ (i - 1) + 1 = i /\ ~(i <= i - 1)
    BY <1>2, <2>3
  <2>5. s[i - 1] \in S
    BY <2>2, <2>4
  <2>6. s[i - 1] # None
    BY <1>2, <2>4, AsyncAssumption DEF Node
  <2>7. s[i] \in S
    BY <1>1, <1>4, <2>4, <2>5, <2>6 DEF Closed
  <2> QED
    BY <2>7
<1> QED
  BY <1>2, <1>3, <1>4 DEF From

-----------------------------------------------------------------------------
(* Initial states *)

LEMMA InitHasIInv == Init => IInv
<1> SUFFICES ASSUME Init PROVE Inv(<<>>, <<>>)
  BY NoElements DEF IInv
<1>1. Types
  <2>1. \A n \in Node : NoRequest \in Request
    BY AsyncAssumption DEF Node, Request, NoRequest
  <2>2. main \in MainPlace /\ worker \in WorkerPlace /\ lasttodo \in Ptr
    BY DEF Init, MainPlace, WorkerPlace, Ptr
  <2>3. /\ next \in [Node -> Ptr] /\ data \in [Node -> Ptr]
        /\ req \in [Node -> Request]
    BY <2>1 DEF Init, Ptr
  <2>4. /\ reqs \in Seq(Node) /\ reqms \in Seq(Node)
        /\ asked \in Seq(Kinds) /\ Len(asked) <= MaxAsks
        /\ carried \in Seq(Node) /\ answered \in Seq(Node)
    BY NoElements, AsyncAssumption DEF Init
  <2> QED
    BY <2>2, <2>3, <2>4 DEF Init, Types
<1>2. Locks
  BY DEF Init, Locks, Holder
<1>3. Linked(<<>>, None, next)
  BY NoElements DEF Linked
<1>4. Lists(<<>>, <<>>)
  BY <1>3, NoElements DEF Init, Lists
<1>5. Hands(<<>>, <<>>)
  BY NoElements DEF Init, Hands, Has
<1>6. Waiting /\ Spares
  BY NoElements DEF Init, Waiting, Spares, Called, Before, Made, Asking
<1>7. Works(<<>>) /\ Files
  BY NoElements DEF Init, Works, Files, Done, Made, Asking, ToRun
<1> QED
  BY <1>1, <1>2, <1>4, <1>5, <1>6, <1>7 DEF Inv

-----------------------------------------------------------------------------
(* What is kept by steps that leave it alone *)

LEMMA LensAre ==
  ASSUME Types
  PROVE  /\ Len(asked) \in Nat /\ Len(carried) \in Nat /\ Len(answered) \in Nat
         /\ Len(reqs) \in Nat /\ Len(reqms) \in Nat
         /\ DOMAIN reqs = 1 .. Len(reqs)
         /\ \A i \in DOMAIN reqs : reqs[i] \in Node /\ reqs[i] \in Elements(reqs)
         /\ Elements(reqs) \subseteq Node /\ Elements(reqms) \subseteq Node
         /\ reqs # <<>> <=> Len(reqs) > 0
         /\ MaxAsks \in Nat
         /\ Before \in Int /\ Made \in Int /\ Done \in Nat
<1>1. /\ Len(asked) \in Nat /\ Len(carried) \in Nat /\ Len(answered) \in Nat
      /\ Len(reqs) \in Nat /\ Len(reqms) \in Nat
      /\ DOMAIN reqs = 1 .. Len(reqs)
      /\ \A i \in DOMAIN reqs : reqs[i] \in Node /\ reqs[i] \in Elements(reqs)
      /\ Elements(reqs) \subseteq Node /\ Elements(reqms) \subseteq Node
      /\ reqs # <<>> <=> Len(reqs) > 0
  BY SeqIs DEF Types
<1> QED
  BY <1>1, AsyncAssumption DEF Before, Made, Done

LEMMA SameWaiting ==
  ASSUME Waiting, Types, UNCHANGED <<req, reqs, asked, answered, handling>>,
         Asking' <=> Asking, Len(carried)' \in Nat, Len(carried) <= Len(carried)'
  PROVE  Waiting'
<1>1. (Called' <=> Called) /\ Before' = Before /\ Made' = Made
  BY DEF Called, Before, Made
<1> QED
  BY <1>1, LensAre DEF Waiting

LEMMA SameSpares ==
  ASSUME Spares, UNCHANGED <<req, reqs, reqms, asked>>,
         Asking' => Asking /\ main.req' = main.req
  PROVE  Spares'
BY DEF Spares

LEMMA SameWorks ==
  ASSUME NEW q, Works(q),
         UNCHANGED <<req, reqs, data, carried, asked>>, Asking' <=> Asking,
         ToRun' <=> ToRun,
         ToRun' \/ worker'.at = "done" => worker'.work = worker.work,
         worker'.at = "done" => worker.at = "done",
         worker'.at = "close" => worker.at \in {"done", "close"}
  PROVE  Works(q)'
<1>1. Done' = Done /\ Made' = Made
  BY DEF Done, Made
<1>2. \A n, id : For(n, id) => For(n, id)'
  BY DEF For
<1> QED
  BY <1>1, <1>2 DEF Works

LEMMA GoesIs ==
  ASSUME NEW from, NEW to, Goes(from, to), Types,
         to \in {"wait", "test", "pop", "drop", "run", "done", "close",
                 "free", "freed"}
  PROVE  /\ main.at # "off" /\ worker.at = from
         /\ worker'.at = to /\ worker'.work = worker.work
         /\ worker' \in WorkerPlace
BY DEF Goes, Types, WorkerPlace

LEMMA MainGoes ==
  ASSUME Types, NEW to \in {"lpc", "take", "put", "last", "post", "off"},
         main' = [main EXCEPT !.at = to]
  PROVE  /\ main'.at = to /\ main'.work = main.work /\ main'.req = main.req
         /\ main' \in MainPlace
BY DEF Types, MainPlace

-----------------------------------------------------------------------------
(* The worker *)

LEMMA WakeKeeps ==
  ASSUME NEW q \in Seq(Node), NEW f \in Seq(Node), Inv(q, f), Wake
  PROVE  Inv(q, f)'
<1>1. /\ worker.at = "wait" /\ worker'.at = "test"
      /\ worker'.work = worker.work /\ worker' \in WorkerPlace /\ mut' = TRUE
      /\ UNCHANGED <<main, work_mut, mem_mut, works, requests, history>>
  BY GoesIs DEF Wake, Inv
<1>2. Types' /\ Locks' /\ Files'
  BY <1>1 DEF Inv, Types, Locks, Files, works, requests, history
<1>3. Lists(q, f)'
  BY <1>1 DEF Inv, Lists, works
<1>4. Hands(q, f)'
  BY <1>1 DEF Inv, Hands, Has, history
<1>5. Waiting' /\ Spares' /\ Works(q)'
  BY <1>1, LensAre, SameWaiting, SameSpares, SameWorks
     DEF Inv, Asking, ToRun, works, requests, history
<1> QED
  BY <1>2, <1>3, <1>4, <1>5 DEF Inv

LEMMA TestKeeps ==
  ASSUME NEW q \in Seq(Node), NEW f \in Seq(Node), Inv(q, f), Test
  PROVE  Inv(q, f)'
<1>1. /\ worker.at = "test" /\ worker'.at \in {"pop", "wait"}
      /\ worker'.work = worker.work /\ worker' \in WorkerPlace
      /\ worker'.at = "pop" => todo # None
      /\ UNCHANGED <<main, locks, works, requests, history>>
  BY GoesIs DEF Test, Inv
<1>2. Types' /\ Locks' /\ Files'
  BY <1>1 DEF Inv, Types, Locks, Files, locks, works, requests, history
<1>3. Lists(q, f)'
  BY <1>1, LinkedIs DEF Inv, Lists, works, locks
<1>4. Hands(q, f)'
  BY <1>1 DEF Inv, Hands, Has, history
<1>5. Waiting' /\ Spares' /\ Works(q)'
  BY <1>1, LensAre, SameWaiting, SameSpares, SameWorks
     DEF Inv, Asking, ToRun, works, requests, history
<1> QED
  BY <1>2, <1>3, <1>4, <1>5 DEF Inv

(* The request of the first node is the next one to be carried out.        *)
LEMMA PopKeeps ==
  ASSUME NEW q \in Seq(Node), NEW f \in Seq(Node), Inv(q, f), Pop
  PROVE  Inv(Tail(q), f)'
<1>1. /\ worker.at = "pop" /\ work_mut = "nobody" /\ work_mut' = "worker"
      /\ todo' = next[todo] /\ worker' = [at |-> "drop", work |-> todo]
      /\ worker'.at = "drop" /\ worker'.work = todo
      /\ UNCHANGED <<main, mut, mem_mut, lasttodo, stuffs, next, data, requests,
                     history>>
  BY DEF Pop
<1>2. /\ Types /\ Locks /\ Lists(q, f) /\ Hands(q, f) /\ Works(q)
      /\ q # <<>> /\ Linked(q, todo, next) /\ Linked(f, stuffs, next)
      /\ Elements(q) \intersect Elements(f) = {}
  BY <1>1 DEF Inv, Lists
<1>3. /\ Linked(Tail(q), next[todo], next)
      /\ Elements(Tail(q)) = Elements(q) \ {todo}
      /\ todo \in Node /\ todo \in Elements(q)
      /\ Tail(q) # <<>> => Tail(q)[Len(Tail(q))] = q[Len(q)]
  BY <1>2, LinkedTail
<1>4. Types' /\ Locks' /\ Files'
  <2>1. worker' \in WorkerPlace
    BY <1>1, <1>3 DEF WorkerPlace, Ptr
  <2> QED
    BY <1>1, <1>2, <2>1 DEF Inv, Types, Locks, Files, requests, history, Holder
<1>5. Lists(Tail(q), f)'
  <2>1. Linked(Tail(q), todo, next)' /\ Linked(f, stuffs, next)'
    BY <1>1, <1>2, <1>3
  <2>2. lasttodo = q[Len(q)]
    BY <1>1, <1>2 DEF Lists
  <2> QED
    BY <1>1, <1>2, <1>3, <2>1, <2>2 DEF Lists, Locks
<1>6. Hands(Tail(q), f)'
  BY <1>1, <1>2, <1>3 DEF Hands, Has, history
<1>7. Waiting' /\ Spares'
  BY <1>1, <1>2, LensAre, SameWaiting, SameSpares
     DEF Inv, Asking, requests, history
<1>8. Works(Tail(q))'
  <2>0. Done + Len(q) = Made /\ \A i \in DOMAIN q : For(q[i], Done + i)
    BY <1>2, Zenon DEF Works
  <2>1. /\ Done' = Done + 1 /\ Done \in Nat /\ Made' = Made /\ ToRun'
        /\ Done' = Len(carried) + 1 /\ Made \in Int
    BY <1>1, <1>2, LensAre DEF Done, ToRun, Made, Asking, history
  <2>2. \A n, id : For(n, id) => For(n, id)'
    BY <1>1 DEF For, requests
  <2>3. /\ Len(q) \in Nat /\ Len(Tail(q)) = Len(q) - 1 /\ 1 \in DOMAIN q
        /\ q[1] = todo
        /\ DOMAIN Tail(q) = 1 .. Len(q) - 1
        /\ \A i \in DOMAIN Tail(q) : i + 1 \in DOMAIN q /\ Tail(q)[i] = q[i + 1]
    BY <1>2, TailIs, SeqIs, LinkedIs
  <2>4. For(todo, Done + 1)
    BY <1>2, <2>3 DEF Works
  <2>5. ASSUME NEW i \in DOMAIN Tail(q)
        PROVE  For(Tail(q)[i], (Done + 1) + i)
    <3>1. i \in Nat /\ i + 1 \in DOMAIN q
      BY <2>3
    <3>2. For(q[i + 1], Done + (i + 1))
      BY <2>0, <3>1
    <3>3. Done + (i + 1) = (Done + 1) + i
      BY <2>1, <3>1
    <3> QED
      BY <2>3, <3>2, <3>3
  <2>6. Done' + Len(Tail(q)) = Made'
    <3>1. Done' = Done + 1 /\ Made' = Made /\ Done \in Nat
      BY <2>1
    <3>2. Len(q) \in Nat /\ Len(Tail(q)) = Len(q) - 1
      BY <2>3
    <3>3. Done + Len(q) = Made
      BY <2>0
    <3>4. \A d, n \in Nat : (d + 1) + (n - 1) = d + n
      OBVIOUS
    <3>5. Done' + Len(Tail(q)) = (Done + 1) + (Len(q) - 1)
      BY <3>1, <3>2
    <3> QED
      BY <3>1, <3>2, <3>3, <3>4, <3>5
  <2> QED
    BY <1>1, <2>1, <2>2, <2>4, <2>5, <2>6 DEF Works
<1> QED
  BY <1>4, <1>5, <1>6, <1>7, <1>8 DEF Inv

LEMMA PoppedKeeps ==
  ASSUME NEW q \in Seq(Node), NEW f \in Seq(Node), Inv(q, f), Popped
  PROVE  Inv(q, f)'
<1>1. /\ worker.at = "drop" /\ worker'.at = "run"
      /\ worker'.work = worker.work /\ worker' \in WorkerPlace
      /\ lasttodo' = (IF todo = None THEN None ELSE lasttodo)
      /\ work_mut' = "nobody"
      /\ UNCHANGED <<main, mut, mem_mut, todo, stuffs, next, data, requests,
                     history>>
  BY GoesIs DEF Popped, Inv
<1>2. Types' /\ Locks' /\ Files'
  BY <1>1 DEF Inv, Types, Locks, Files, requests, history, Holder, Ptr
<1>3. Lists(q, f)'
  <2>1. work_mut = "worker" /\ (todo = None <=> q = <<>>)
    BY <1>1, LinkedIs DEF Inv, Lists, Locks
  <2> QED
    BY <1>1, <2>1 DEF Inv, Lists
<1>4. Hands(q, f)'
  BY <1>1 DEF Inv, Hands, Has, history
<1>5. Waiting' /\ Spares' /\ Works(q)'
  BY <1>1, LensAre, SameWaiting, SameSpares, SameWorks
     DEF Inv, Asking, ToRun, requests, history
<1> QED
  BY <1>2, <1>3, <1>4, <1>5 DEF Inv


(* The node in hand is for the next request, and that is of the kind asked *)
(* for under its number.                                                   *)
LEMMA RunKeeps ==
  ASSUME NEW q \in Seq(Node), NEW f \in Seq(Node), Inv(q, f), Run
  PROVE  /\ Inv(q, f)'
         /\ Len(carried) < Len(asked)
         /\ carried' = Append(carried, Len(carried) + 1)
<1>1. /\ worker.at = "run" /\ worker'.at = "done" /\ main.at # "off"
      /\ worker'.work = worker.work /\ worker' \in WorkerPlace
      /\ carried' = Append(carried, Job.id)
      /\ in_file' = IF Job.kind = "gz" THEN in_file ELSE in_file \union {Job.id}
      /\ UNCHANGED <<main, locks, works, requests, asked, answered>>
  BY GoesIs DEF Run, Inv
<1>2. Types /\ Locks /\ Lists(q, f) /\ Hands(q, f) /\ Waiting /\ Works(q) /\ Files
  BY DEF Inv
<1>3. Done = Len(carried) + 1 /\ Len(carried) \in Nat /\ Len(asked) \in Nat
  BY <1>1, <1>2, LensAre DEF Done, ToRun
<1>4. PICK i \in DOMAIN reqs : data[worker.work] = reqs[i]
  BY <1>1, <1>2 DEF Works, ToRun, For, Elements
<1>5. Job \in Request /\ Job.id = Len(carried) + 1 /\ Job.kind = asked[Job.id]
  <2>1. Job = req[reqs[i]] /\ Job.id = Done
    BY <1>1, <1>2, <1>4 DEF Works, ToRun, For, Job
  <2>2. Job \in Request
    BY <1>2, <2>1, LensAre DEF Types
  <2>3. Job.id = Before + i /\ Job.kind = asked[Before + i]
    BY <1>2, <2>1 DEF Waiting
  <2> QED
    BY <1>3, <2>1, <2>2, <2>3
<1>6. /\ carried' \in Seq(Node) /\ Len(carried') = Len(carried) + 1
      /\ DOMAIN carried = 1 .. Len(carried)
      /\ DOMAIN carried' = 1 .. Len(carried) + 1 /\ carried' # <<>>
  <2>1. Job.id \in Node /\ carried \in Seq(Node)
    BY <1>2, <1>5 DEF Request, Types
  <2> QED
    BY <1>1, <2>1, AppendIs, SeqIs
<1>7. Len(carried) < Len(asked)
  <2>1. Done + Len(q) = Made /\ Len(q) \in Nat
    BY <1>2, SeqIs DEF Works
  <2> QED
    BY <1>3, <2>1 DEF Made
<1>8. Types'
  BY <1>1, <1>2, <1>5, <1>6 DEF Types, locks, works, requests, Request
<1>9. Locks' /\ Lists(q, f)' /\ Hands(q, f)'
  <2>1. Locks'
    BY <1>1, <1>2 DEF Locks, locks
  <2>2. Lists(q, f)'
    BY <1>1, <1>2 DEF Lists, locks, works
  <2>3. Hands(q, f)'
    BY <1>1, <1>2 DEF Hands, Has
  <2> QED
    BY <2>1, <2>2, <2>3
<1>10. Waiting' /\ Spares'
  BY <1>1, <1>2, <1>3, <1>6, SameWaiting, SameSpares DEF Inv, Asking, requests
<1>11. Works(q)'
  <2>1. Done' = Done /\ Made' = Made /\ ~ToRun'
    BY <1>1, <1>3, <1>6 DEF Done, Made, ToRun, Asking
  <2>2. \A n, id : For(n, id) => For(n, id)'
    BY <1>1 DEF For, works, requests
  <2>3. For(worker.work, Done)
    BY <1>1, <1>2 DEF Works, ToRun
  <2> QED
    BY <1>1, <1>2, <1>6, <2>1, <2>2, <2>3 DEF Works
<1>12. Files'
  <2>1. ASSUME NEW n \in DOMAIN carried', asked'[n] = "plain"
        PROVE  n \in in_file'
    <3>1. CASE n \in DOMAIN carried
      BY <1>1, <1>2, <2>1, <3>1 DEF Files
    <3>2. CASE n \notin DOMAIN carried
      <4>1. n = Job.id
        BY <1>3, <1>5, <1>6, <2>1, <3>2
      <4> QED
        BY <1>1, <1>5, <2>1, <4>1
    <3> QED
      BY <3>1, <3>2
  <2> QED
    BY <1>1, <2>1 DEF Files
<1> QED
  BY <1>1, <1>5, <1>7, <1>8, <1>9, <1>10, <1>11, <1>12 DEF Inv

(* A request is marked while it waits, so it is not another one's by now.  *)
LEMMA SetDoneKeeps ==
  ASSUME NEW q \in Seq(Node), NEW f \in Seq(Node), Inv(q, f), SetDone
  PROVE  Inv(q, f)'
<1> DEFINE r == data[worker.work]
<1>1. /\ worker.at = "done" /\ worker'.at = "close" /\ main.at # "off"
      /\ worker'.work = worker.work /\ worker' \in WorkerPlace
      /\ req' = [req EXCEPT ![r].status = "DONE"]
      /\ UNCHANGED <<main, locks, works, reqs, reqms, handling, down, history>>
  BY GoesIs DEF SetDone, Inv
<1>2. /\ Types /\ Locks /\ Lists(q, f) /\ Hands(q, f) /\ Waiting /\ Spares
      /\ Works(q) /\ Files
  BY DEF Inv
<1>3. /\ Done = Len(carried) /\ Len(carried) \in Nat /\ Before \in Int
      /\ For(worker.work, Done) /\ r \in Elements(reqs) /\ r \in Node
      /\ req[r].id = Len(carried)
  <2>1. Done = Len(carried) /\ For(worker.work, Done)
    BY <1>1, <1>2 DEF Done, ToRun, Works
  <2> QED
    BY <1>2, <2>1, LensAre DEF For
<1>4. /\ req' \in [Node -> Request]
      /\ \A m \in Node :
           /\ req'[m].id = req[m].id /\ req'[m].kind = req[m].kind
           /\ req'[m].done = req[m].done
           /\ req'[m].status = IF m = r THEN "DONE" ELSE req[m].status
           /\ m # r => req'[m] = req[m]
  <2>1. req \in [Node -> Request] /\ r \in Node
    BY <1>2, <1>3 DEF Types
  <2> HIDE DEF r
  <2> QED
    BY <1>1, <2>1 DEF Request
<1> HIDE DEF r
<1>5. Types'
  BY <1>1, <1>2, <1>4 DEF Types, locks, works, history
<1>6. Locks' /\ Lists(q, f)' /\ Hands(q, f)' /\ Files'
  <2>1. Locks' /\ Files'
    BY <1>1, <1>2 DEF Locks, Files, locks, history
  <2>2. Lists(q, f)'
    BY <1>1, <1>2 DEF Lists, locks, works
  <2>3. Hands(q, f)'
    BY <1>1, <1>2 DEF Hands, Has, history
  <2> QED
    BY <2>1, <2>2, <2>3
<1>7. Waiting'
  <2>1. /\ DOMAIN reqs = 1 .. Len(reqs) /\ \A i \in DOMAIN reqs : reqs[i] \in Node
        /\ reqs # <<>> => 1 \in DOMAIN reqs
    BY <1>2, LensAre
  <2>2. (Called' <=> Called) /\ Before' = Before /\ Made' = Made
    BY <1>1, <1>4, <2>1 DEF Called, Before, Made, Asking, history
  <2>3. ASSUME NEW i \in DOMAIN reqs
        PROVE  /\ req'[reqs[i]].id = Before + i
               /\ req'[reqs[i]].kind = asked[Before + i]
               /\ req'[reqs[i]].done => i = 1 /\ req'[reqs[i]].status = "DONE"
               /\ req'[reqs[i]].status = "DONE" => Before + i <= Len(carried)
    <3>1. reqs[i] \in Node
      BY <2>1
    <3>2. /\ req[reqs[i]].id = Before + i
          /\ req[reqs[i]].kind = asked[Before + i]
          /\ req[reqs[i]].done => i = 1 /\ req[reqs[i]].status = "DONE"
          /\ req[reqs[i]].status = "DONE" => Before + i <= Len(carried)
      BY <1>2 DEF Waiting
    <3>3. CASE reqs[i] = r
      BY <1>3, <1>4, <3>1, <3>2, <3>3
    <3>4. CASE reqs[i] # r
      BY <1>4, <3>1, <3>2, <3>4
    <3> QED
      BY <3>3, <3>4
  <2> QED
    BY <1>1, <1>2, <2>2, <2>3 DEF Waiting, history
<1>8. Spares'
  <2>1. Asking => main.req \in Node /\ main.req # r
    BY <1>2, <1>3 DEF Spares
  <2> QED
    BY <1>1, <1>2, <1>4, <2>1 DEF Spares, Asking, history
<1>9. Works(q)'
  <2>1. Done' = Done /\ Made' = Made /\ ~ToRun'
    BY <1>1, <1>3 DEF Done, Made, ToRun, Asking, history
  <2>2. ASSUME NEW i \in DOMAIN q
        PROVE  For(q[i], Done + i)'
    <3>1. For(q[i], Done + i)
      BY <1>2 DEF Works
    <3>2. Done + i # Len(carried) /\ data[q[i]] \in Node
      BY <1>2, <1>3, <3>1, SeqIs, LensAre DEF For
    <3>3. data[q[i]] # r
      BY <1>3, <3>1, <3>2 DEF For
    <3> QED
      BY <1>1, <1>4, <2>1, <3>1, <3>2, <3>3 DEF For, works
  <2> QED
    BY <1>1, <1>2, <2>1, <2>2 DEF Works, history
<1> QED
  BY <1>2, <1>5, <1>6, <1>7, <1>8, <1>9 DEF Inv

LEMMA CloseKeeps ==
  ASSUME NEW q \in Seq(Node), NEW f \in Seq(Node), Inv(q, f), Close
  PROVE  Inv(q, f)'
<1>1. /\ worker.at = "close" /\ worker'.at = "free" /\ main.at # "off"
      /\ worker'.work = worker.work /\ worker' \in WorkerPlace
      /\ in_file' = in_file \union {carried[Len(carried)]}
      /\ UNCHANGED <<main, locks, works, requests, asked, carried, answered>>
  BY GoesIs DEF Close, Inv
<1>2. carried[Len(carried)] \in Node
  <2>1. carried \in Seq(Node) /\ carried # <<>>
    BY <1>1 DEF Inv, Types, Works
  <2>2. Len(carried) \in DOMAIN carried
    BY <2>1, SeqIs
  <2> QED
    BY <2>1, <2>2, SeqIs
<1>3. Types' /\ Locks' /\ Files'
  BY <1>1, <1>2 DEF Inv, Types, Locks, Files, locks, works, requests
<1>4. Lists(q, f)'
  BY <1>1 DEF Inv, Lists, locks, works
<1>5. Hands(q, f)'
  BY <1>1 DEF Inv, Hands, Has
<1>6. Waiting' /\ Spares' /\ Works(q)'
  BY <1>1, LensAre, SameWaiting, SameSpares, SameWorks
     DEF Inv, Asking, ToRun, works, requests
<1> QED
  BY <1>3, <1>4, <1>5, <1>6 DEF Inv

LEMMA FreeKeeps ==
  ASSUME NEW q \in Seq(Node), NEW f \in Seq(Node), Inv(q, f), Free
  PROVE  Inv(q, f)'
<1>1. /\ worker.at = "free" /\ worker'.at = "freed" /\ main.at # "off"
      /\ worker'.work = worker.work /\ worker' \in WorkerPlace
      /\ mem_mut = "nobody" /\ mem_mut' = "worker"
      /\ next' = [next EXCEPT ![worker.work] = stuffs]
      /\ UNCHANGED <<main, mut, work_mut, todo, lasttodo, stuffs, data, requests,
                     history>>
  BY GoesIs DEF Free, Inv
<1>2. /\ Types /\ Lists(q, f) /\ Linked(q, todo, next) /\ Linked(f, stuffs, next)
      /\ worker.work \in Node
      /\ worker.work \notin Elements(q) /\ worker.work \notin Elements(f)
  BY <1>1 DEF Inv, Lists, Hands, Has
<1>3. /\ next' \in [Node -> Ptr] /\ next'[worker.work] = stuffs
      /\ \A n \in Node \ {worker.work} : next'[n] = next[n]
  BY <1>1, <1>2, LinkedIs DEF Types
<1>4. Types' /\ Locks' /\ Files'
  BY <1>1, <1>3 DEF Inv, Types, Locks, Files, requests, history, Holder
<1>5. Lists(q, f)'
  <2>1. Elements(q) \subseteq Node /\ Elements(f) \subseteq Node
    BY SeqIs
  <2>2. Linked(q, todo, next') /\ Linked(f, stuffs, next')
    BY <1>2, <1>3, <2>1, LinkedSame
  <2>3. Linked(q, todo, next)' /\ Linked(f, stuffs, next)'
    BY <1>1, <2>2
  <2> QED
    BY <1>1, <1>2, <1>3, <2>3 DEF Lists
<1>6. Hands(q, f)'
  BY <1>1 DEF Inv, Hands, Has, history
<1>7. Waiting' /\ Spares' /\ Works(q)'
  BY <1>1, LensAre, SameWaiting, SameSpares, SameWorks
     DEF Inv, Asking, ToRun, requests, history
<1> QED
  BY <1>4, <1>5, <1>6, <1>7 DEF Inv

LEMMA FreedKeeps ==
  ASSUME NEW q \in Seq(Node), NEW f \in Seq(Node), Inv(q, f), Freed
  PROVE  \E g \in Seq(Node) : Inv(q, g)'
<1>0. PICK n \in Node : n = worker.work
  BY DEF Inv, Hands, Has, Freed
<1>1. /\ worker.at = "freed" /\ stuffs' = n /\ mem_mut' = "nobody"
      /\ worker' = [at |-> "test", work |-> None]
      /\ worker'.at = "test" /\ worker'.work = None
      /\ UNCHANGED <<main, mut, work_mut, todo, lasttodo, next, data, requests,
                     history>>
  BY <1>0 DEF Freed
<1>2. /\ Types /\ Locks /\ Lists(q, f) /\ Hands(q, f)
      /\ Linked(q, todo, next) /\ Linked(f, stuffs, next)
      /\ n \in Node /\ n <= Len(asked) /\ next[n] = stuffs
      /\ n \notin Elements(q) /\ n \notin Elements(f)
      /\ main.at = "put" => main.work # n
  BY <1>0, <1>1 DEF Inv, Lists, Hands, Has
<1>3. /\ Linked(<<n>> \o f, n, next)
      /\ Elements(<<n>> \o f) = Elements(f) \union {n}
      /\ <<n>> \o f # <<>>
  BY <1>2, LinkedPush, PushIs
<1> DEFINE g == <<n>> \o f
<1> HIDE DEF g
<1>4. Types' /\ Locks' /\ Files'
  <2>1. worker' \in WorkerPlace
    BY <1>1 DEF WorkerPlace, Ptr
  <2> QED
    BY <1>1, <1>2, <2>1 DEF Inv, Types, Locks, Files, requests, history, Holder
<1>5. Lists(q, g)'
  <2>1. Linked(q, todo, next)' /\ Linked(g, stuffs, next)'
    BY <1>1, <1>2, <1>3 DEF g
  <2> QED
    BY <1>1, <1>2, <1>3, <2>1 DEF Lists, g
<1>6. Hands(q, g)'
  BY <1>1, <1>2, <1>3, AsyncAssumption DEF Hands, Has, history, g, Node
<1>7. Waiting' /\ Spares' /\ Works(q)'
  BY <1>1, LensAre, SameWaiting, SameSpares, SameWorks
     DEF Inv, Asking, ToRun, requests, history
<1> QED
  BY <1>2, <1>4, <1>5, <1>6, <1>7, PushIs DEF Inv, g


-----------------------------------------------------------------------------
(* The main thread makes a request *)

LEMMA LowestIs ==
  ASSUME NEW S \in SUBSET Nat, S # {}
  PROVE  Lowest(S) \in S /\ \A m \in S : Lowest(S) <= m
BY LeastNumber DEF Lowest

(* A request is free, or its memory is the lowest never used.              *)
LEMMA RequestIsFree ==
  ASSUME Types, Spares, Len(asked) < MaxAsks,
         NEW r, r = IF reqms = <<>> THEN NewReq ELSE Head(reqms)
  PROVE  /\ r \in Node /\ r <= Len(asked) + 1 /\ r \notin Elements(reqs)
         /\ LET rest == IF reqms = <<>> THEN reqms ELSE Tail(reqms)
            IN  /\ rest \in Seq(Node) /\ Apart(rest) /\ r \notin Elements(rest)
                /\ Elements(rest) \subseteq Elements(reqms)
<1>1. /\ Len(asked) \in Nat /\ MaxAsks \in Nat /\ reqms \in Seq(Node)
      /\ Elements(reqs) \subseteq Node /\ Elements(reqms) \subseteq Node
  BY LensAre DEF Types
<1>2. CASE reqms = <<>>
  <2> DEFINE S == Node \ (Elements(reqs) \union Elements(reqms))
  <2>1. S \in SUBSET Nat /\ Len(asked) + 1 \in S
    BY <1>1 DEF Spares, Node
  <2>2. r = Lowest(S)
    BY <1>2 DEF NewReq
  <2>3. r \in S /\ r <= Len(asked) + 1
    <3> HIDE DEF S
    <3> QED
      BY <2>1, <2>2, LowestIs
  <2> QED
    BY <1>1, <1>2, <2>3 DEF Spares
<1>3. CASE reqms # <<>>
  <2>1. /\ Tail(reqms) \in Seq(Node) /\ Elements(Tail(reqms)) \subseteq Elements(reqms)
        /\ Elements(reqms) = Elements(Tail(reqms)) \union {reqms[1]}
        /\ Apart(Tail(reqms)) /\ reqms[1] \notin Elements(Tail(reqms))
    BY <1>1, <1>3, TailIs DEF Spares
  <2>2. r = reqms[1]
    BY <1>1, <1>3
  <2>3. r <= Len(asked) /\ r \in Node /\ r \notin Elements(reqs)
    BY <1>1, <2>1, <2>2 DEF Spares
  <2>4. r <= Len(asked) + 1
    BY <1>1, <2>3 DEF Node
  <2> QED
    BY <1>3, <2>1, <2>2, <2>3, <2>4
<1> QED
  BY <1>2, <1>3

(* The memory of a new node is the lowest never used, too.                 *)
LEMMA NodeIsNew ==
  ASSUME NEW q \in Seq(Node), NEW f \in Seq(Node), Inv(q, f),
         Len(asked) < MaxAsks, main.work = None
  PROVE  /\ NewWork \in Node /\ NewWork <= Len(asked) + 1
         /\ NewWork \notin Elements(q) /\ NewWork \notin Elements(f)
         /\ NewWork # worker.work
<1>1. From(todo) = Elements(q) /\ From(stuffs) = Elements(f)
  BY FromIs DEF Inv, Lists
<1>2. Len(asked) \in Nat /\ MaxAsks \in Nat /\ None \notin Nat
  BY LensAre, AsyncAssumption DEF Inv
<1> DEFINE S == Node \ (Elements(q) \union Elements(f) \union {None, worker.work})
<1>3. NewWork = Lowest(S)
  BY <1>1 DEF NewWork
<1>4. S \in SUBSET Nat
  BY DEF Node
<1>5. Len(asked) + 1 \in S
  <2>1. Len(asked) + 1 \in Node /\ ~(Len(asked) + 1 <= Len(asked))
    BY <1>2 DEF Node
  <2>2. worker.work = None \/ worker.work <= Len(asked)
    BY DEF Inv, Hands
  <2>3. Len(asked) + 1 # worker.work
    BY <1>2, <2>1, <2>2
  <2> QED
    BY <1>2, <2>1, <2>3 DEF Inv, Hands
<1> HIDE DEF S
<1>6. Lowest(S) \in S /\ Lowest(S) <= Len(asked) + 1
  BY <1>4, <1>5, LowestIs
<1> QED
  BY <1>3, <1>6 DEF S

LEMMA AskKeeps ==
  ASSUME NEW q \in Seq(Node), NEW f \in Seq(Node), Inv(q, f), Ask
  PROVE  Inv(q, f)' /\ Len(asked') = Len(asked) + 1
<1> DEFINE r == IF reqms = <<>> THEN NewReq ELSE Head(reqms)
<1>1. PICK kind \in Kinds :
        /\ req' = [req EXCEPT ![r] =
                     [id |-> Len(asked) + 1, kind |-> kind,
                      status |-> "BUSY", done |-> FALSE]]
        /\ asked' = Append(asked, kind)
        /\ reqms' = IF reqms = <<>> THEN reqms ELSE Tail(reqms)
        /\ main' = IF stuffs = None
                   THEN [at |-> "put", work |-> NewWork, req |-> r]
                   ELSE [at |-> "take", work |-> None, req |-> r]
  BY DEF Ask
<1>2. /\ main.at = "lpc" /\ Len(asked) < MaxAsks
      /\ UNCHANGED <<worker, locks, works, reqs, handling, down, carried,
                     answered, in_file>>
  BY DEF Ask
<1>3. /\ Types /\ Locks /\ Lists(q, f) /\ Hands(q, f) /\ Waiting /\ Spares
      /\ Works(q) /\ Files
  BY DEF Inv
<1>4. /\ Len(asked) \in Nat /\ Len(carried) \in Nat /\ MaxAsks \in Nat
      /\ Elements(reqs) \subseteq Node /\ Elements(reqms) \subseteq Node
      /\ DOMAIN reqs = 1 .. Len(reqs) /\ Len(reqs) \in Nat
      /\ \A i \in DOMAIN reqs : reqs[i] \in Node /\ reqs[i] \in Elements(reqs)
      /\ reqs # <<>> <=> Len(reqs) > 0
      /\ Before \in Int /\ Done \in Nat
  BY <1>3, LensAre
<1>5. /\ r \in Node /\ r <= Len(asked) + 1 /\ r \notin Elements(reqs)
      /\ reqms' \in Seq(Node) /\ Apart(reqms') /\ r \notin Elements(reqms')
      /\ Elements(reqms') \subseteq Elements(reqms)
  BY <1>1, <1>2, <1>3, RequestIsFree
<1> HIDE DEF r
<1>6. /\ asked' \in Seq(Kinds) /\ Len(asked') = Len(asked) + 1
      /\ \A i \in 1 .. Len(asked) : asked'[i] = asked[i]
      /\ asked'[Len(asked) + 1] = kind /\ asked' # <<>>
  <2>1. asked \in Seq(Kinds) /\ DOMAIN asked = 1 .. Len(asked)
    BY <1>3, SeqIs DEF Types
  <2> QED
    BY <1>1, <2>1, AppendIs
<1>7. /\ req' \in [Node -> Request]
      /\ req'[r] = [id |-> Len(asked) + 1, kind |-> kind,
                    status |-> "BUSY", done |-> FALSE]
      /\ \A m \in Node \ {r} : req'[m] = req[m]
  <2>1. [id |-> Len(asked) + 1, kind |-> kind,
         status |-> "BUSY", done |-> FALSE] \in Request
    BY <1>2, <1>4, AsyncAssumption DEF Request, Node
  <2> QED
    BY <1>1, <1>3, <1>5, <2>1 DEF Types
<1>8. /\ NewWork \in Node /\ NewWork <= Len(asked) + 1
      /\ NewWork \notin Elements(q) /\ NewWork \notin Elements(f)
      /\ NewWork # worker.work
  BY <1>2, <1>3, NodeIsNew DEF Hands
<1>9. /\ main' \in MainPlace /\ main'.at \in {"put", "take"} /\ main'.req = r
      /\ main'.at = "put" => main'.work = NewWork
      /\ main'.at = "take" => main'.work = None /\ stuffs # None
  BY <1>1, <1>5, <1>8 DEF MainPlace, Ptr
<1>10. Types'
  <2>1. Len(asked') <= MaxAsks
    BY <1>2, <1>4, <1>6
  <2> QED
    BY <1>2, <1>3, <1>5, <1>6, <1>7, <1>9, <2>1 DEF Types, locks, works
<1>11. Locks'
  BY <1>2, <1>3, <1>9 DEF Locks, locks
<1>12. Lists(q, f)'
  BY <1>2, <1>3, <1>9, LinkedIs DEF Lists, Locks, locks, works
<1>13. Hands(q, f)'
  <2>1. ASSUME NEW n \in Node, n <= Len(asked) PROVE n <= Len(asked) + 1
    BY <1>4, <2>1 DEF Node
  <2>2. Elements(q) \subseteq Node /\ Elements(f) \subseteq Node
    BY SeqIs
  <2>3. \A n \in Elements(q) \union Elements(f) : n <= Len(asked')
    BY <1>3, <1>6, <2>1, <2>2 DEF Hands
  <2>4. Has' =>
          /\ worker'.work \in Node /\ worker'.work <= Len(asked')
          /\ worker'.work \notin Elements(q) \union Elements(f)
    BY <1>2, <1>3, <1>6, <2>1 DEF Hands, Has
  <2>5. ~Has' => worker'.work = None
    BY <1>2, <1>3 DEF Hands, Has
  <2>6. worker' = worker
    BY <1>2
  <2>7. main'.at \in {"lpc", "take", "off"} => main'.work = None
    BY <1>9
  <2>8. main'.at = "put" =>
          /\ main'.work \in Node /\ main'.work <= Len(asked')
          /\ main'.work \notin Elements(q) \union Elements(f)
          /\ main'.work # worker'.work
    BY <1>6, <1>8, <1>9, <2>6
  <2> QED
    BY <2>3, <2>4, <2>5, <2>7, <2>8 DEF Hands, Has
<1>14. Waiting'
  <2>0. reqs # <<>> => reqs[1] \in Node \ {r}
    <3>1. reqs # <<>> => 1 \in DOMAIN reqs
      BY <1>4
    <3> QED
      BY <1>4, <1>5, <3>1
  <2>1. (Called' <=> Called) /\ Before' = Before
    <3>1. Called' <=> Called
      BY <1>2, <1>7, <2>0 DEF Called
    <3> QED
      BY <1>2, <3>1 DEF Before
  <2>2. Made' = Made /\ Made = Len(asked)
    BY <1>2, <1>4, <1>6, <1>9 DEF Made, Asking
  <2>3. ASSUME NEW i \in DOMAIN reqs
        PROVE  req'[reqs[i]] = req[reqs[i]] /\ asked'[Before + i] = asked[Before + i]
    <3>1. reqs[i] \in Node \ {r}
      BY <1>4, <1>5
    <3>2. Before + i \in Node
      BY <1>3, <3>1 DEF Waiting, Types, Request
    <3>3. Before + i <= Before + Len(reqs)
      BY <1>4
    <3>4. Before + Len(reqs) = Len(asked)
      BY <1>3, <2>2 DEF Waiting
    <3>5. Before + i \in 1 .. Len(asked)
      BY <1>4, <3>2, <3>3, <3>4 DEF Node
    <3> QED
      BY <1>6, <1>7, <3>1, <3>5
  <2> QED
    BY <1>2, <1>3, <2>1, <2>2, <2>3 DEF Waiting
<1>15. Spares'
  <2>1. ASSUME NEW n \in Node, n <= Len(asked) PROVE n <= Len(asked) + 1
    BY <1>4, <2>1 DEF Node
  <2> QED
    BY <1>2, <1>3, <1>4, <1>5, <1>6, <1>7, <1>9, <2>1 DEF Spares, Asking
<1>16. Works(q)'
  <2>1. Done' = Done /\ Made' = Made /\ (ToRun' <=> ToRun)
    BY <1>2, <1>4, <1>6, <1>9 DEF Done, Made, ToRun, Asking
  <2>2. \A n, id : For(n, id) => For(n, id)'
    BY <1>2, <1>4, <1>5, <1>7 DEF For, works
  <2> QED
    BY <1>2, <1>3, <2>1, <2>2 DEF Works
<1>17. Files'
  <2>1. Done + Len(q) = Made /\ Made = Len(asked) /\ Len(q) \in Nat
    BY <1>2, <1>3, SeqIs DEF Works, Made, Asking
  <2>2. Len(carried) <= Len(asked) /\ DOMAIN carried = 1 .. Len(carried)
    BY <1>3, <1>4, <2>1, SeqIs DEF Done, Types
  <2>3. \A n \in DOMAIN carried : asked'[n] = asked[n]
    BY <1>4, <1>6, <2>2
  <2> QED
    BY <1>2, <1>3, <1>9, <2>3 DEF Files
<1> QED
  BY <1>6, <1>10, <1>11, <1>12, <1>13, <1>14, <1>15, <1>16, <1>17 DEF Inv


(* The free list was not empty when it was looked at, and only the main    *)
(* thread takes from it.                                                   *)
LEMMA TakeKeeps ==
  ASSUME NEW q \in Seq(Node), NEW f \in Seq(Node), Inv(q, f), Take
  PROVE  Inv(q, Tail(f))'
<1>1. /\ main.at = "take" /\ mem_mut = "nobody"
      /\ main' = [main EXCEPT !.at = "put", !.work = stuffs]
      /\ stuffs' = next[stuffs]
      /\ UNCHANGED <<worker, locks, todo, lasttodo, next, data, requests, history>>
  BY DEF Take
<1>2. /\ Types /\ Locks /\ Lists(q, f) /\ Hands(q, f)
      /\ f # <<>> /\ Linked(q, todo, next) /\ Linked(f, stuffs, next)
      /\ Elements(q) \intersect Elements(f) = {}
  BY <1>1 DEF Inv, Lists
<1>3. /\ Linked(Tail(f), next[stuffs], next)
      /\ Elements(Tail(f)) = Elements(f) \ {stuffs}
      /\ stuffs \in Node /\ stuffs \in Elements(f)
  BY <1>2, LinkedTail
<1>4. /\ main' \in MainPlace /\ main'.at = "put" /\ main'.work = stuffs
      /\ main'.req = main.req
  BY <1>1, <1>2, <1>3 DEF Types, MainPlace, Ptr
<1>5. Types' /\ Locks' /\ Files'
  BY <1>1, <1>4 DEF Inv, Types, Locks, Files, locks, requests, history
<1>6. Lists(q, Tail(f))'
  <2>1. Linked(q, todo, next)' /\ Linked(Tail(f), stuffs, next)'
    BY <1>1, <1>2, <1>3
  <2>2. work_mut # "main" /\ worker.at # "freed"
    BY <1>1, <1>2 DEF Locks
  <2> QED
    BY <1>1, <1>2, <1>3, <1>4, <2>1, <2>2 DEF Lists, locks
<1>7. Hands(q, Tail(f))'
  <2>1. stuffs # worker.work
    BY <1>2, <1>3, AsyncAssumption DEF Hands, Node
  <2> QED
    BY <1>1, <1>2, <1>3, <1>4, <2>1 DEF Hands, Has, history
<1>8. Waiting' /\ Spares' /\ Works(q)'
  BY <1>1, <1>4, LensAre, SameWaiting, SameSpares, SameWorks
     DEF Inv, Asking, ToRun, requests, history
<1> QED
  BY <1>5, <1>6, <1>7, <1>8 DEF Inv

LEMMA PutKeeps ==
  ASSUME NEW q \in Seq(Node), NEW f \in Seq(Node), Inv(q, f), Put
  PROVE  \E p \in Seq(Node) : Inv(p, f)'
<1>0. PICK n, r : n = main.work /\ r = main.req
  OBVIOUS
<1>1. /\ main.at = "put" /\ work_mut = "nobody" /\ work_mut' = "main"
      /\ reqs' = Append(reqs, r)
      /\ data' = [data EXCEPT ![n] = r]
      /\ next' = [next EXCEPT ![n] = None,
                              ![IF lasttodo = None THEN n ELSE lasttodo] =
                                 IF lasttodo = None THEN None ELSE n]
      /\ todo' = IF lasttodo = None THEN n ELSE todo
      /\ main' = [main EXCEPT !.at = "last"]
      /\ UNCHANGED <<worker, mut, mem_mut, lasttodo, stuffs, req, reqms,
                     handling, down, history>>
  BY <1>0 DEF Put
<1>2. /\ Types /\ Locks /\ Lists(q, f) /\ Hands(q, f) /\ Waiting /\ Spares
      /\ Works(q) /\ Files
  BY DEF Inv
<1>3. /\ Linked(q, todo, next) /\ Linked(f, stuffs, next)
      /\ Elements(q) \intersect Elements(f) = {}
      /\ lasttodo = IF q = <<>> THEN None ELSE q[Len(q)]
      /\ Elements(q) \subseteq Node /\ Elements(f) \subseteq Node
      /\ q # <<>> => q[Len(q)] \in Elements(q)
  <2>1. q # <<>> => Len(q) \in DOMAIN q
    BY SeqIs
  <2> QED
    BY <1>1, <1>2, <2>1, SeqIs DEF Lists
<1>4. /\ n \in Node /\ n <= Len(asked) /\ n # worker.work
      /\ n \notin Elements(q) /\ n \notin Elements(f)
  BY <1>0, <1>1, <1>2 DEF Hands
<1>5. /\ r \in Node /\ r <= Len(asked)
      /\ r \notin Elements(reqs) /\ r \notin Elements(reqms)
      /\ req[r] = [id |-> Len(asked), kind |-> asked[Len(asked)],
                   status |-> "BUSY", done |-> FALSE]
  BY <1>0, <1>1, <1>2 DEF Spares, Asking
<1>6. /\ main' \in MainPlace /\ main'.at = "last" /\ main'.work = n
  BY <1>0, <1>1, <1>2, MainGoes
<1>7. None \notin Node
  BY AsyncAssumption DEF Node
<1>8. lasttodo = None <=> q = <<>>
  BY <1>3, <1>7
<1>9. /\ next' \in [Node -> Ptr] /\ next'[n] = None
      /\ q # <<>> => next'[q[Len(q)]] = n
      /\ \A m \in Node \ {n} : q = <<>> \/ m # q[Len(q)] => next'[m] = next[m]
  <2>1. next \in [Node -> Ptr] /\ n \in Ptr /\ None \in Ptr
    BY <1>2, <1>4 DEF Types, Ptr
  <2>2. CASE q = <<>>
    <3>1. next' = [[next EXCEPT ![n] = None] EXCEPT ![n] = None]
      BY <1>1, <1>8, <2>2
    <3> QED
      BY <1>4, <2>1, <2>2, <3>1
  <2>3. CASE q # <<>>
    <3>1. next' = [[next EXCEPT ![n] = None] EXCEPT ![q[Len(q)]] = n]
      BY <1>1, <1>3, <1>8, <2>3
    <3>2. q[Len(q)] \in Node /\ q[Len(q)] # n
      BY <1>3, <1>4, <2>3
    <3> QED
      BY <1>4, <2>1, <2>3, <3>1, <3>2
  <2> QED
    BY <2>2, <2>3
<1> DEFINE p == Append(q, n)
<1>10. /\ Linked(p, IF q = <<>> THEN n ELSE todo, next')
       /\ Elements(p) = Elements(q) \union {n}
       /\ p[Len(p)] = n
  BY <1>3, <1>4, <1>9, LinkedAppend
<1>11. /\ p \in Seq(Node) /\ p # <<>> /\ Len(p) = Len(q) + 1
       /\ DOMAIN p = 1 .. Len(q) + 1 /\ DOMAIN q = 1 .. Len(q)
       /\ Len(q) \in Nat
       /\ \A i \in DOMAIN q : p[i] = q[i] /\ q[i] \in Elements(q)
       /\ p[Len(q) + 1] = n
  BY <1>4, AppendIs, SeqIs
<1> HIDE DEF p
<1>12. /\ reqs' \in Seq(Node) /\ Len(reqs') = Len(reqs) + 1
       /\ DOMAIN reqs' = 1 .. Len(reqs) + 1 /\ reqs' # <<>>
       /\ \A i \in DOMAIN reqs : reqs'[i] = reqs[i]
       /\ reqs'[Len(reqs) + 1] = r
       /\ Elements(reqs') = Elements(reqs) \union {r} /\ Apart(reqs')
  <2>1. reqs \in Seq(Node) /\ Apart(reqs)
    BY <1>2 DEF Types, Spares
  <2> QED
    BY <1>1, <1>5, <2>1, AppendIs
<1>13. /\ data' \in [Node -> Ptr] /\ data'[n] = r
       /\ \A m \in Node \ {n} : data'[m] = data[m]
  BY <1>1, <1>2, <1>4, <1>5 DEF Types, Ptr
<1>14. Types'
  BY <1>1, <1>2, <1>6, <1>9, <1>12, <1>13 DEF Types, history
<1>15. Locks' /\ Files'
  BY <1>1, <1>2, <1>6 DEF Locks, Files, history, Holder
<1>16. Lists(p, f)'
  <2>1. todo' = IF q = <<>> THEN n ELSE todo
    BY <1>1, <1>8
  <2>2. Linked(p, todo, next)'
    BY <1>10, <2>1
  <2>3. \A m \in Elements(f) : next'[m] = next[m]
    BY <1>3, <1>4, <1>9
  <2>4. Linked(f, stuffs, next')
    BY <1>3, <2>3, LinkedSame
  <2>5. Linked(f, stuffs, next)'
    BY <1>1, <2>4
  <2>6. worker.at = "freed" => next'[worker.work] = stuffs
    <3>1. worker.at = "freed" =>
            /\ worker.work \in Node \ {n} /\ worker.work \notin Elements(q)
            /\ next[worker.work] = stuffs
      BY <1>2, <1>4 DEF Hands, Has, Lists
    <3> QED
      BY <1>3, <1>9, <3>1
  <2>7. Elements(p) \intersect Elements(f) = {}
    BY <1>3, <1>4, <1>10
  <2> QED
    BY <1>1, <1>6, <1>10, <1>11, <2>2, <2>5, <2>6, <2>7 DEF Lists
<1>17. Hands(p, f)'
  BY <1>1, <1>2, <1>4, <1>6, <1>10 DEF Hands, Has, history
<1>18. /\ Len(asked) \in Nat /\ Len(reqs) \in Nat /\ DOMAIN reqs = 1 .. Len(reqs)
       /\ \A i \in DOMAIN reqs : reqs[i] \in Node /\ reqs[i] \in Elements(reqs)
       /\ reqs # <<>> <=> Len(reqs) > 0
       /\ Before \in Int /\ Done \in Nat
  BY <1>2, LensAre
<1>19. Made = Len(asked) - 1 /\ Made' = Len(asked)
  BY <1>1, <1>6 DEF Made, Asking, history
<1>20. Waiting'
  <2>1. Called' <=> Called
    <3>1. CASE reqs = <<>>
      <4>1. reqs'[1] = r
        BY <1>12, <1>18, <3>1
      <4> QED
        BY <1>1, <1>5, <3>1, <4>1 DEF Called
    <3>2. CASE reqs # <<>>
      <4>1. reqs'[1] = reqs[1]
        BY <1>12, <1>18, <3>2
      <4> QED
        BY <1>1, <1>12, <3>2, <4>1 DEF Called
    <3> QED
      BY <3>1, <3>2
  <2>2. Before' = Before
    BY <1>1, <2>1 DEF Before, history
  <2>3. Before + Len(reqs) = Len(asked) - 1
    BY <1>2, <1>19 DEF Waiting
  <2>4. Before + Len(reqs') = Len(asked) /\ Before + (Len(reqs) + 1) = Len(asked)
    BY <1>12, <1>18, <2>3
  <2>5. ASSUME NEW i \in DOMAIN reqs'
        PROVE  /\ req[reqs'[i]].id = Before + i
               /\ req[reqs'[i]].kind = asked[Before + i]
               /\ req[reqs'[i]].done => i = 1 /\ req[reqs'[i]].status = "DONE"
               /\ req[reqs'[i]].status = "DONE" => Before + i <= Len(carried)
    <3>1. CASE i \in DOMAIN reqs
      BY <1>2, <1>12, <3>1 DEF Waiting
    <3>2. CASE i \notin DOMAIN reqs
      <4>1. i = Len(reqs) + 1
        BY <1>12, <1>18, <3>2
      <4>2. reqs'[i] = r /\ Before + i = Len(asked)
        BY <1>12, <2>4, <4>1
      <4> QED
        BY <1>5, <4>2
    <3> QED
      BY <3>1, <3>2
  <2> QED
    BY <1>1, <1>2, <1>19, <2>1, <2>2, <2>4, <2>5 DEF Waiting, history
<1>21. Spares'
  BY <1>1, <1>2, <1>5, <1>6, <1>12 DEF Spares, Asking, history
<1>22. Works(p)'
  <2>1. Done' = Done /\ (ToRun' <=> ToRun)
    BY <1>1 DEF Done, ToRun, history
  <2>2. \A m \in Node \ {n} : \A id : For(m, id) => For(m, id)'
    BY <1>1, <1>12, <1>13 DEF For
  <2>3. For(n, Len(asked))'
    BY <1>1, <1>5, <1>12, <1>13 DEF For, history
  <2>4. Done + Len(q) = Len(asked) - 1 /\ \A i \in DOMAIN q : For(q[i], Done + i)
    BY <1>2, <1>19, Zenon DEF Works
  <2>5. Done + (Len(q) + 1) = Len(asked)
    BY <1>11, <1>18, <2>4
  <2>6. ASSUME NEW i \in DOMAIN p
        PROVE  For(p[i], Done + i)'
    <3>1. CASE i \in DOMAIN q
      <4>1. q[i] \in Node \ {n} /\ p[i] = q[i]
        BY <1>3, <1>4, <1>11, <3>1
      <4> QED
        BY <2>1, <2>2, <2>4, <3>1, <4>1
    <3>2. CASE i \notin DOMAIN q
      <4>1. i = Len(q) + 1
        BY <1>11, <3>2
      <4>2. p[i] = n /\ Done + i = Len(asked)
        BY <1>11, <2>5, <4>1
      <4>3. Done' + i = Len(asked')
        BY <1>1, <2>1, <4>2 DEF history
      <4> QED
        BY <2>3, <4>2, <4>3
    <3> QED
      BY <3>1, <3>2
  <2>7. ASSUME ToRun \/ worker.at = "done"
        PROVE  For(worker.work, Done)'
    <3>1. For(worker.work, Done) /\ worker.work \in Node \ {n}
      BY <1>2, <1>4, <2>7 DEF Works, Hands, Has, ToRun
    <3> QED
      BY <1>1, <2>1, <2>2, <3>1
  <2> QED
    BY <1>1, <1>2, <1>11, <1>19, <2>1, <2>5, <2>6, <2>7 DEF Works, history
<1> QED
  BY <1>11, <1>14, <1>15, <1>16, <1>17, <1>20, <1>21, <1>22 DEF Inv

LEMMA LastKeeps ==
  ASSUME NEW q \in Seq(Node), NEW f \in Seq(Node), Inv(q, f), Last
  PROVE  Inv(q, f)'
<1>1. /\ main.at = "last" /\ main'.at = "post" /\ main'.work = main.work
      /\ main' \in MainPlace /\ lasttodo' = main.work /\ work_mut' = "nobody"
      /\ UNCHANGED <<worker, mut, mem_mut, todo, stuffs, next, data, requests,
                     history>>
  BY MainGoes DEF Last, Inv
<1>2. Types' /\ Locks' /\ Files'
  <2>1. main.work \in Ptr
    BY DEF Inv, Types, MainPlace
  <2> QED
    BY <1>1, <2>1 DEF Inv, Types, Locks, Files, requests, history, Holder
<1>3. Lists(q, f)'
  BY <1>1 DEF Inv, Lists, Locks
<1>4. Hands(q, f)'
  BY <1>1 DEF Inv, Hands, Has, history
<1>5. Waiting' /\ Spares' /\ Works(q)'
  BY <1>1, LensAre, SameWaiting, SameSpares, SameWorks
     DEF Inv, Asking, ToRun, requests, history
<1> QED
  BY <1>2, <1>3, <1>4, <1>5 DEF Inv

LEMMA PostKeeps ==
  ASSUME NEW q \in Seq(Node), NEW f \in Seq(Node), Inv(q, f), Post
  PROVE  Inv(q, f)'
<1>1. /\ main.at = "post" /\ main' = [at |-> "lpc", work |-> None, req |-> None]
      /\ main'.at = "lpc" /\ main'.work = None /\ mut' = FALSE
      /\ UNCHANGED <<worker, work_mut, mem_mut, works, requests, history>>
  BY DEF Post
<1>2. Types' /\ Locks' /\ Files'
  <2>1. main' \in MainPlace
    BY <1>1 DEF MainPlace, Ptr
  <2> QED
    BY <1>1, <2>1 DEF Inv, Types, Locks, Files, works, requests, history
<1>3. Lists(q, f)'
  BY <1>1 DEF Inv, Lists, Locks, works
<1>4. Hands(q, f)'
  BY <1>1 DEF Inv, Hands, Has, history
<1>5. Waiting' /\ Spares' /\ Works(q)'
  BY <1>1, LensAre, SameWaiting, SameSpares, SameWorks
     DEF Inv, Asking, ToRun, works, requests, history
<1> QED
  BY <1>2, <1>3, <1>4, <1>5 DEF Inv


-----------------------------------------------------------------------------
(* The main thread answers *)

(* The request that is answered is the next one, and it was carried out.   *)
LEMMA CallKeeps ==
  ASSUME NEW q \in Seq(Node), NEW f \in Seq(Node), Inv(q, f), Call
  PROVE  /\ Inv(q, f)'
         /\ Len(answered) < Len(carried)
         /\ answered' = Append(answered, Len(answered) + 1)
<1>1. /\ main.at = "lpc" /\ reqs # <<>> /\ req[First].status = "DONE"
      /\ ~req[First].done
      /\ req' = [req EXCEPT ![First].done = TRUE]
      /\ handling' = TRUE
      /\ answered' = Append(answered, req[First].id)
      /\ UNCHANGED <<main, worker, locks, works, reqs, reqms, down, asked,
                     carried, in_file>>
  BY DEF Call, Ready
<1>2. /\ Types /\ Locks /\ Lists(q, f) /\ Hands(q, f) /\ Waiting /\ Spares
      /\ Works(q) /\ Files
  BY DEF Inv
<1>3. /\ DOMAIN reqs = 1 .. Len(reqs) /\ 1 \in DOMAIN reqs
      /\ \A i \in DOMAIN reqs : reqs[i] \in Node /\ reqs[i] \in Elements(reqs)
      /\ Len(answered) \in Nat /\ Len(carried) \in Nat
      /\ First = reqs[1] /\ First \in Node
  <2>1. /\ DOMAIN reqs = 1 .. Len(reqs) /\ Len(reqs) \in Nat /\ Len(reqs) > 0
        /\ \A i \in DOMAIN reqs : reqs[i] \in Node /\ reqs[i] \in Elements(reqs)
        /\ Len(answered) \in Nat /\ Len(carried) \in Nat
    BY <1>1, <1>2, LensAre
  <2>2. 1 \in DOMAIN reqs
    BY <2>1
  <2> QED
    BY <2>1, <2>2 DEF First
<1>4. Before = Len(answered) /\ ~Called
  BY <1>1 DEF Before, Called, First
<1>5. req[First].id = Len(answered) + 1 /\ Len(answered) + 1 <= Len(carried)
  BY <1>1, <1>2, <1>3, <1>4 DEF Waiting
<1>6. /\ req' \in [Node -> Request]
      /\ \A m \in Node :
           /\ req'[m].id = req[m].id /\ req'[m].kind = req[m].kind
           /\ req'[m].status = req[m].status
           /\ m # First => req'[m] = req[m]
      /\ req'[First].done
  <2> DEFINE r == First
  <2> HIDE DEF r
  <2>1. r \in Node /\ req \in [Node -> Request]
    BY <1>2, <1>3 DEF Types, r
  <2>2. req' = [req EXCEPT ![r].done = TRUE]
    BY <1>1 DEF r
  <2>3. /\ req' \in [Node -> Request]
        /\ \A m \in Node :
             /\ req'[m].id = req[m].id /\ req'[m].kind = req[m].kind
             /\ req'[m].status = req[m].status
             /\ m # r => req'[m] = req[m]
        /\ req'[r].done
    <3> DEFINE x == [req[r] EXCEPT !.done = TRUE]
    <3>1. req[r] \in Request
      BY <2>1
    <3>2. /\ x \in Request /\ x.id = req[r].id /\ x.kind = req[r].kind
          /\ x.status = req[r].status /\ x.done = TRUE
      BY <3>1 DEF Request
    <3>3. req' = [req EXCEPT ![r] = x]
      BY <2>1, <2>2
    <3> HIDE DEF x
    <3>4. req' \in [Node -> Request] /\ req'[r] = x
          /\ \A m \in Node \ {r} : req'[m] = req[m]
      BY <2>1, <3>2, <3>3
    <3>5. req'[r].done
      BY <3>2, <3>4
    <3> QED
      BY <3>2, <3>4, <3>5
  <2> QED
    BY <2>3 DEF r
<1>7. /\ answered' \in Seq(Node) /\ Len(answered') = Len(answered) + 1
  <2>1. answered \in Seq(Node) /\ req[First].id \in Node
    BY <1>2, <1>3 DEF Types, Request
  <2> QED
    BY <1>1, <2>1, AppendIs
<1>8. Types'
  BY <1>1, <1>2, <1>6, <1>7 DEF Types, locks, works
<1>9. Locks' /\ Lists(q, f)' /\ Hands(q, f)' /\ Files'
  <2>1. Locks' /\ Files'
    BY <1>1, <1>2 DEF Locks, Files, locks
  <2>2. Lists(q, f)'
    BY <1>1, <1>2 DEF Lists, locks, works
  <2>3. Hands(q, f)'
    BY <1>1, <1>2 DEF Hands, Has
  <2> QED
    BY <2>1, <2>2, <2>3
<1>10. Waiting'
  <2>1. Called'
    BY <1>1, <1>6 DEF Called, First
  <2>2. Before' = Before
    BY <1>3, <1>4, <1>7, <2>1 DEF Before
  <2>3. Made' = Made
    BY <1>1 DEF Made, Asking
  <2>4. ASSUME NEW i \in DOMAIN reqs
        PROVE  /\ req'[reqs[i]].id = Before + i
               /\ req'[reqs[i]].kind = asked[Before + i]
               /\ req'[reqs[i]].done => i = 1 /\ req'[reqs[i]].status = "DONE"
               /\ req'[reqs[i]].status = "DONE" => Before + i <= Len(carried)
    <3>1. reqs[i] \in Node
      BY <1>3
    <3>2. /\ req[reqs[i]].id = Before + i
          /\ req[reqs[i]].kind = asked[Before + i]
          /\ req[reqs[i]].done => i = 1 /\ req[reqs[i]].status = "DONE"
          /\ req[reqs[i]].status = "DONE" => Before + i <= Len(carried)
      BY <1>2 DEF Waiting
    <3>3. i # 1 => reqs[i] # First
      BY <1>2, <1>3 DEF Spares, Apart
    <3> QED
      BY <1>1, <1>3, <1>6, <3>1, <3>2, <3>3
  <2>5. Len(answered') <= Len(carried)
    BY <1>5, <1>7
  <2> QED
    BY <1>1, <1>2, <2>1, <2>2, <2>3, <2>4, <2>5 DEF Waiting
<1>11. Spares'
  BY <1>1, <1>2 DEF Spares, Asking
<1>12. Works(q)'
  <2>1. Done' = Done /\ Made' = Made /\ (ToRun' <=> ToRun)
    BY <1>1 DEF Done, Made, ToRun, Asking
  <2>2. Elements(reqs) \subseteq Node
    BY <1>2, LensAre
  <2>3. \A n, id : For(n, id) => For(n, id)'
    BY <1>1, <1>6, <2>2 DEF For, works
  <2> QED
    BY <1>1, <1>2, <2>1, <2>3 DEF Works
<1> QED
  BY <1>1, <1>5, <1>8, <1>9, <1>10, <1>11, <1>12 DEF Inv

(* What is freed is the first request, and that was called and is done.    *)
LEMMA DropKeeps ==
  ASSUME NEW q \in Seq(Node), NEW f \in Seq(Node), Inv(q, f),
         main.at = "lpc", Called, Drop, handling' = FALSE,
         UNCHANGED <<main, worker, locks, works, req, down, history>>
  PROVE  Inv(q, f)'
<1> DEFINE r == reqs[1]
<1>1. /\ reqs' = Tail(reqs) /\ reqms' = <<r>> \o reqms
      /\ reqs # <<>> /\ req[r].done
  BY DEF Drop, First, Called
<1>2. /\ Types /\ Locks /\ Lists(q, f) /\ Hands(q, f) /\ Waiting /\ Spares
      /\ Works(q) /\ Files
  BY DEF Inv
<1>3. /\ DOMAIN reqs = 1 .. Len(reqs) /\ 1 \in DOMAIN reqs /\ Len(reqs) \in Nat
      /\ r \in Node /\ r \in Elements(reqs)
      /\ Len(answered) \in Nat /\ Before \in Int
  <2>1. /\ DOMAIN reqs = 1 .. Len(reqs) /\ Len(reqs) \in Nat /\ Len(reqs) > 0
        /\ \A i \in DOMAIN reqs : reqs[i] \in Node /\ reqs[i] \in Elements(reqs)
        /\ Len(answered) \in Nat /\ Before \in Int
    BY <1>1, <1>2, LensAre
  <2>2. 1 \in DOMAIN reqs
    BY <2>1
  <2> QED
    BY <2>1, <2>2
<1>4. req[r].status = "DONE"
  BY <1>1, <1>2, <1>3 DEF Waiting
<1>5. /\ reqs' \in Seq(Node) /\ Len(reqs') = Len(reqs) - 1
      /\ DOMAIN reqs' = 1 .. Len(reqs) - 1
      /\ \A i \in DOMAIN reqs' : i + 1 \in DOMAIN reqs /\ reqs'[i] = reqs[i + 1]
      /\ Elements(reqs) = Elements(reqs') \union {r}
      /\ Apart(reqs') /\ r \notin Elements(reqs')
  <2>1. reqs \in Seq(Node) /\ Apart(reqs)
    BY <1>2 DEF Types, Spares
  <2> QED
    BY <1>1, <2>1, TailIs
<1>6. /\ reqms' \in Seq(Node) /\ Elements(reqms') = Elements(reqms) \union {r}
      /\ Apart(reqms')
  <2>1. reqms \in Seq(Node) /\ Apart(reqms) /\ r \notin Elements(reqms)
    BY <1>2, <1>3 DEF Types, Spares
  <2> HIDE DEF r
  <2> QED
    BY <1>1, <1>3, <2>1, PushIs
<1> HIDE DEF r
<1>7. Types'
  BY <1>2, <1>5, <1>6 DEF Types, locks, works, history
<1>8. Locks' /\ Lists(q, f)' /\ Hands(q, f)' /\ Files'
  <2>1. Locks' /\ Files'
    BY <1>2 DEF Locks, Files, locks, history
  <2>2. Lists(q, f)'
    BY <1>2 DEF Lists, locks, works
  <2>3. Hands(q, f)'
    BY <1>2 DEF Hands, Has, history
  <2> QED
    BY <2>1, <2>2, <2>3
<1>9. Before = Len(answered) - 1 /\ Made' = Made
  BY DEF Before, Made, Asking, history
<1>10. ~Called'
  <2> SUFFICES ASSUME reqs' # <<>>, req[reqs'[1]].done PROVE FALSE
    BY DEF Called
  <2>1. 1 \in DOMAIN reqs'
    BY <1>5, SeqIs
  <2>2. 2 \in DOMAIN reqs /\ reqs'[1] = reqs[2]
    BY <1>5, <2>1
  <2> QED
    BY <1>2, <2>2 DEF Waiting
<1>11. Before' = Before + 1
  BY <1>3, <1>9, <1>10 DEF Before, history
<1>12. Waiting'
  <2>1. ASSUME NEW i \in DOMAIN reqs'
        PROVE  /\ req[reqs'[i]].id = Before' + i
               /\ req[reqs'[i]].kind = asked[Before' + i]
               /\ ~req[reqs'[i]].done
               /\ req[reqs'[i]].status = "DONE" => Before' + i <= Len(carried)
    <3>1. /\ i \in Nat /\ i + 1 \in DOMAIN reqs /\ reqs'[i] = reqs[i + 1]
          /\ i + 1 # 1
      BY <1>3, <1>5
    <3>2. /\ req[reqs[i + 1]].id = Before + (i + 1)
          /\ req[reqs[i + 1]].kind = asked[Before + (i + 1)]
          /\ req[reqs[i + 1]].done => i + 1 = 1
          /\ req[reqs[i + 1]].status = "DONE" => Before + (i + 1) <= Len(carried)
      BY <1>2, <3>1 DEF Waiting
    <3>3. Before' + i = Before + (i + 1)
      BY <1>3, <1>11, <3>1
    <3> QED
      BY <3>1, <3>2, <3>3
  <2>2. Before + Len(reqs) = Made /\ Len(answered) <= Len(carried)
    BY <1>2 DEF Waiting
  <2>3. Before' + Len(reqs') = Made
    <3>1. (Before + 1) + (Len(reqs) - 1) = Before + Len(reqs)
      BY <1>3
    <3> QED
      BY <1>5, <1>11, <2>2, <3>1
  <2> QED
    BY <1>9, <1>10, <2>1, <2>2, <2>3 DEF Waiting, history
<1>13. Spares'
  <2>1. ~Asking'
    BY DEF Asking
  <2>2. \A m \in Elements(reqs') \union Elements(reqms') : m <= Len(asked)
    BY <1>2, <1>5, <1>6 DEF Spares
  <2>3. Elements(reqs') \intersect Elements(reqms') = {}
    BY <1>2, <1>5, <1>6 DEF Spares
  <2> QED
    BY <1>5, <1>6, <2>1, <2>2, <2>3 DEF Spares, history
<1>14. Works(q)'
  <2>1. Done' = Done /\ (ToRun' <=> ToRun)
    BY DEF Done, ToRun, history
  <2>2. \A n, id : For(n, id) => For(n, id)'
    BY <1>4, <1>5 DEF For, works
  <2> QED
    BY <1>2, <1>9, <2>1, <2>2 DEF Works, history
<1> QED
  BY <1>7, <1>8, <1>12, <1>13, <1>14 DEF Inv

(* Steps that change no more than where the main thread is.                *)
LEMMA OnlyMain ==
  ASSUME NEW q \in Seq(Node), NEW f \in Seq(Node), Inv(q, f),
         main.at = "lpc", main' \in MainPlace, main'.work = main.work,
         main'.at \in {"lpc", "off"}, main'.at = "off" => reqs = <<>>,
         handling' \in BOOLEAN, handling' => handling, down' \in BOOLEAN,
         UNCHANGED <<worker, locks, works, req, reqs, reqms, history>>
  PROVE  Inv(q, f)'
<1>1. Types' /\ Locks' /\ Files'
  BY DEF Inv, Types, Locks, Files, locks, works, history
<1>2. Lists(q, f)'
  BY DEF Inv, Lists, locks, works
<1>3. Hands(q, f)'
  BY DEF Inv, Hands, Has, history
<1>4. Waiting'
  <2>1. (Called' <=> Called) /\ Before' = Before /\ Made' = Made
    BY DEF Called, Before, Made, Asking, history
  <2> QED
    BY <2>1 DEF Inv, Waiting, history
<1>5. Spares' /\ Works(q)'
  BY SameSpares, SameWorks DEF Inv, Asking, ToRun, works, history
<1> QED
  BY <1>1, <1>2, <1>3, <1>4, <1>5 DEF Inv

LEMMA AnswersKeep ==
  ASSUME NEW q \in Seq(Node), NEW f \in Seq(Node), Inv(q, f),
         CallReturns \/ DropMarked \/ Shutdown \/ Exit
  PROVE  Inv(q, f)' /\ UNCHANGED history
<1>1. CASE CallReturns
  BY <1>1, DropKeeps DEF CallReturns, Inv, Waiting
<1>2. CASE DropMarked
  <2>1. Called /\ handling' \in BOOLEAN /\ ~handling
    BY <1>2 DEF DropMarked, Ready, Called, First, Inv, Types
  <2> QED
    BY <1>2, <2>1, DropKeeps DEF DropMarked, Ready, Inv, Types
<1>3. CASE Shutdown
  BY <1>3, OnlyMain DEF Shutdown, Inv, Types
<1>4. CASE Exit
  <2>1. main'.at = "off" /\ main'.work = main.work /\ main' \in MainPlace
    BY <1>4, MainGoes DEF Exit, Inv
  <2> QED
    BY <1>4, <2>1, OnlyMain DEF Exit, Inv, Types, requests
<1> QED
  BY <1>1, <1>2, <1>3, <1>4

LEMMA StutterKeeps ==
  ASSUME NEW q, NEW f, Inv(q, f), UNCHANGED vars
  PROVE  Inv(q, f)'
<1>1. Types' /\ Locks' /\ Files'
  BY DEF Inv, Types, Locks, Files, vars, locks, works, requests, history
<1>2. Lists(q, f)'
  BY DEF Inv, Lists, vars, locks, works
<1>3. Hands(q, f)'
  BY DEF Inv, Hands, Has, vars, history
<1>4. Waiting' /\ Spares' /\ Works(q)'
  BY LensAre, SameWaiting, SameSpares, SameWorks
     DEF Inv, Asking, ToRun, vars, works, requests, history
<1> QED
  BY <1>1, <1>2, <1>3, <1>4 DEF Inv

-----------------------------------------------------------------------------
(* Theorems *)

LEMMA NextKeeps == IInv /\ [Next]_vars => IInv'
<1> SUFFICES ASSUME NEW q \in Seq(Node), NEW f \in Seq(Node), Inv(q, f),
                    [Next]_vars
             PROVE  \E p, g \in Seq(Node) : Inv(p, g)'
  BY DEF IInv
<1>1. CASE Ask
  BY <1>1, AskKeeps
<1>2. CASE MainThread
  <2>1. CASE Take
    <3>1. f # <<>> /\ Tail(f) \in Seq(Node)
      BY <2>1, TailIs DEF Take, Inv, Lists
    <3> QED
      BY <2>1, <3>1, TakeKeeps
  <2> QED
    BY <1>2, <2>1, PutKeeps, LastKeeps, PostKeeps DEF MainThread
<1>3. CASE Answers
  BY <1>3, CallKeeps, AnswersKeep DEF Answers
<1>4. CASE Shutdown \/ Exit
  BY <1>4, AnswersKeep
<1>5. CASE Worker
  <2>1. CASE Pop
    <3>1. q # <<>> /\ Tail(q) \in Seq(Node)
      BY <2>1, TailIs DEF Pop, Inv, Lists
    <3> QED
      BY <2>1, <3>1, PopKeeps
  <2> QED
    BY <1>5, <2>1, WakeKeeps, TestKeeps, PoppedKeeps, RunKeeps, SetDoneKeeps,
       CloseKeeps, FreeKeeps, FreedKeeps DEF Worker
<1>6. CASE Rest \/ UNCHANGED vars
  BY <1>6, StutterKeeps DEF Rest
<1> QED
  BY <1>1, <1>2, <1>3, <1>4, <1>5, <1>6 DEF Next

(* The two lists are there in every state, whichever thread goes first.    *)
THEOREM Invariance == Spec => []IInv
BY InitHasIInv, NextKeeps, PTL DEF Spec

(* The types of Async, and the threads that hold the mutexes.              *)
THEOREM TypeOKHolds == Spec => []TypeOK
<1>1. IInv => TypeOK
  <2> SUFFICES ASSUME NEW q \in Seq(Node), NEW f \in Seq(Node), Inv(q, f)
               PROVE  TypeOK
    BY DEF IInv
  <2>1. todo \in Ptr /\ stuffs \in Ptr
    BY LinkedIs DEF Inv, Lists
  <2>2. /\ (work_mut = "main") = (main.at = "last")
        /\ (work_mut = "worker") = (worker.at = "drop")
        /\ (mem_mut = "worker") = (worker.at = "freed")
    BY DEF Inv, Locks
  <2> QED
    BY <2>1, <2>2 DEF Inv, Types, Locks, TypeOK, MainPlace, WorkerPlace
<1> QED
  BY <1>1, Invariance, PTL

(* No work node is in two places, though heads of lists are read without   *)
(* the mutexes.                                                            *)
THEOREM OneOwnerHolds == Spec => []OneOwner
<1>1. IInv => OneOwner
  <2> SUFFICES ASSUME NEW q \in Seq(Node), NEW f \in Seq(Node), Inv(q, f)
               PROVE  OneOwner
    BY DEF IInv
  <2>1. /\ From(todo) = Elements(q) /\ From(stuffs) = Elements(f)
        /\ Elements(q) \intersect Elements(f) = {}
    BY FromIs DEF Inv, Lists
  <2> DEFINE mine == IF main.at \in {"put", "last"} THEN {main.work} ELSE {}
             its == {worker.work} \ {None}
  <2>2. /\ mine \intersect Elements(f) = {}
        /\ its \intersect (Elements(q) \union Elements(f)) = {}
        /\ its \intersect mine = {}
    <3>1. its # {} => /\ its = {worker.work}
                      /\ worker.work \notin Elements(q) \union Elements(f)
      BY DEF Inv, Hands
    <3>2. CASE main.at = "put"
      BY <3>1, <3>2 DEF Inv, Hands
    <3>3. CASE main.at = "last"
      <4>1. q # <<>> /\ main.work = q[Len(q)]
        BY <3>3 DEF Inv, Locks, Lists
      <4>2. main.work \in Elements(q)
        BY <4>1, SeqIs
      <4> QED
        BY <2>1, <3>1, <3>3, <4>2
    <3>4. CASE main.at \notin {"put", "last"}
      BY <3>1, <3>4
    <3> QED
      BY <3>2, <3>3, <3>4
  <2> QED
    BY <2>1, <2>2 DEF OneOwner
<1> QED
  BY <1>1, Invariance, PTL

(* When the driver is off, what was asked of it is in the files, but for   *)
(* what is compressed.                                                     *)
THEOREM ExitLosesNothingHolds == Spec => []ExitLosesNothing
<1>1. IInv => ExitLosesNothing
  <2> SUFFICES ASSUME NEW q \in Seq(Node), NEW f \in Seq(Node), Inv(q, f),
                      main.at = "off"
               PROVE  \A n \in DOMAIN asked : asked[n] = "plain" => n \in in_file
    BY DEF IInv, ExitLosesNothing
  <2>1. reqs = <<>> /\ Len(reqs) = 0 /\ ~Called
    BY NoElements DEF Inv, Files, Called
  <2>2. Len(asked) \in Nat /\ Len(carried) \in Nat /\ Len(answered) \in Nat
    BY LensAre DEF Inv
  <2>3. Before = Len(answered) /\ Made = Len(asked)
    BY <2>1 DEF Before, Made, Asking
  <2>4. Before + Len(reqs) = Made /\ Len(answered) <= Len(carried)
    BY DEF Inv, Waiting
  <2>5. Len(asked) <= Len(carried)
    BY <2>1, <2>2, <2>3, <2>4
  <2>6. DOMAIN asked = 1 .. Len(asked) /\ DOMAIN carried = 1 .. Len(carried)
    BY SeqIs DEF Inv, Types
  <2>7. DOMAIN asked \subseteq DOMAIN carried
    BY <2>2, <2>5, <2>6
  <2> QED
    BY <2>7 DEF Inv, Files
<1> QED
  BY <1>1, Invariance, PTL

(* Every step of the threads is a step of Jobs, or leaves it as it is: the *)
(* safety half of JobsSpec.                                                *)
THEOREM ImplementsJobs ==
  Spec => Promise!Init /\ [][Promise!Next]_(Promise!vars)
<1>1. Init => Promise!Init
  BY NoElements DEF Init, Promise!Init
<1>2. IInv /\ [Next]_vars => [Promise!Next]_(Promise!vars)
  <2> SUFFICES ASSUME NEW q \in Seq(Node), NEW f \in Seq(Node), Inv(q, f),
                      [Next]_vars
               PROVE  [Promise!Next]_(Promise!vars)
    BY DEF IInv
  <2>1. CASE Ask
    <3>1. Promise!Ask
      BY <2>1, AskKeeps DEF Ask, Promise!Ask
    <3> QED
      BY <3>1 DEF Promise!Next
  <2>2. CASE Run
    <3>1. Promise!CarryOut
      BY <2>2, RunKeeps DEF Run, Promise!CarryOut
    <3> QED
      BY <3>1 DEF Promise!Next
  <2>3. CASE Call
    <3>1. Promise!Answer
      BY <2>3, CallKeeps DEF Call, Promise!Answer
    <3> QED
      BY <3>1 DEF Promise!Next
  <2>4. CASE UNCHANGED <<asked, carried, answered>>
    BY <2>4 DEF Promise!vars
  <2>5. CASE CallReturns \/ DropMarked \/ Shutdown \/ Exit
    BY <2>4, <2>5, AnswersKeep DEF history
  <2>6. CASE MainThread
    BY <2>4, <2>6 DEF MainThread, Take, Put, Last, Post, history
  <2>7. CASE Worker /\ ~Run
    BY <2>4, <2>7
       DEF Worker, Wake, Test, Pop, Popped, SetDone, Close, Free, Freed, history
  <2>8. CASE Rest \/ UNCHANGED vars
    BY <2>4, <2>8 DEF Rest, vars, history
  <2> QED
    BY <2>1, <2>2, <2>3, <2>5, <2>6, <2>7, <2>8 DEF Next, Answers, Worker
<1> QED
  BY <1>1, <1>2, Invariance, PTL DEF Spec
================================================================================
