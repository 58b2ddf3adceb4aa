------------------------------ MODULE UsersProofs ------------------------------
(***************************************************************************)
(* For any number of objects and connections, and any depth of calls: the  *)
(* types of Users are kept, the links between objects and connections      *)
(* agree, a flagged snooper snoops, and a connection is closed by one      *)
(* frame.  All of it rests on what Users says of exec(): LPC code does not *)
(* move a connection that is being closed.                                 *)
(***************************************************************************)
EXTENDS Users, FiniteSetTheorems, SequenceTheorems, TLAPS

(* What an object points to is in the table and points back.               *)
Linked ==
  \A o \in All : interactive[o] # None =>
    /\ interactive[o] \in all_users
    /\ ip[interactive[o]].ob = o
    /\ o \in destructed => ip[interactive[o]].closing

Owned == \A i \in all_users : ~Lost(i) => interactive[ip[i].ob] = i

Counted == num_user = Cardinality(all_users)

Links == Linked /\ Owned /\ Counted

(* The flag is set just for the snooper of some connection, and nobody     *)
(* snoops two.                                                             *)
FlagsMatch ==
  \A o \in All : o \in O_SNOOP <=> \E i \in all_users : ip[i].snooped_by = o

OneVictim ==
  \A i, j \in all_users :
    ip[i].snooped_by = ip[j].snooped_by /\ ip[i].snooped_by # None => i = j

SnoopersLive == \A i \in all_users : ip[i].snooped_by \notin destructed

Snoops == FlagsMatch /\ OneVictim /\ SnoopersLive

(* Of a stack of frames: those in remove_interactive() hold different      *)
(* connections, which are being closed and still belong to the object that *)
(* the frame was called for; every connection being closed has its frame;  *)
(* and new_user_handler() is called by the backend loop only.              *)
Closing(f) == f.what = "net_dead"

FramesName(fr) ==
  \A k \in DOMAIN fr : Closing(fr[k]) =>
    /\ fr[k].ip \in all_users
    /\ ip[fr[k].ip].closing
    /\ interactive[fr[k].ob] = fr[k].ip

FramesApart(fr) ==
  \A j, k \in DOMAIN fr :
    Closing(fr[j]) /\ Closing(fr[k]) /\ fr[j].ip = fr[k].ip => j = k

ClosingFramed(fr) ==
  \A i \in all_users : ip[i].closing =>
    \E k \in DOMAIN fr : Closing(fr[k]) /\ fr[k].ip = i

ConnectFirst(fr) == \A k \in DOMAIN fr : fr[k].what = "connect" => k = 1

Stack(fr) ==
  /\ fr \in Seq(Frame) /\ Len(fr) <= MaxDepth
  /\ FramesName(fr) /\ FramesApart(fr) /\ ClosingFramed(fr)
  /\ ConnectFirst(fr)

Types ==
  /\ interactive \in [All -> Ips \union {None}]
  /\ all_users \subseteq Ips
  /\ ip \in [Ips -> Interactive]
  /\ O_SNOOP \subseteq All
  /\ destructed \subseteq Objects
  /\ hung_up \subseteq all_users

IInv == Types /\ Links /\ Snoops /\ Stack(frames)

-----------------------------------------------------------------------------
(* What the invariant says of its parts.                                   *)
LEMMA ManyUsers ==
  ASSUME Types
  PROVE  /\ IsFiniteSet(all_users)
         /\ Cardinality(all_users) \in 0 .. Cardinality(Ips)
         /\ Cardinality(all_users) \in Nat
<1>1. IsFiniteSet(all_users) /\ Cardinality(all_users) <= Cardinality(Ips)
  BY UsersAssumption, FS_Subset DEF Types
<1>2. Cardinality(all_users) \in Nat /\ Cardinality(Ips) \in Nat
  BY <1>1, UsersAssumption, FS_CardinalityType
<1> QED
  BY <1>1, <1>2

(* A frame in remove_interactive() names an object and a connection.       *)
LEMMA ClosingFrame ==
  ASSUME NEW f \in Frame, Closing(f)
  PROVE  f.ob \in All /\ f.ip \in Ips
BY DEF Frame, Closing

LEMMA OfSingle ==
  ASSUME NEW S, NEW c, \A x \in S : x = c
  PROVE  Cardinality(S) = IF c \in S THEN 1 ELSE 0
<1>1. CASE c \in S
  <2>1. S = {c}
    BY <1>1
  <2> QED
    BY <1>1, <2>1, FS_Singleton
<1>2. CASE c \notin S
  <2>1. S = {}
    BY <1>2
  <2> QED
    BY <1>2, <2>1, FS_EmptySet
<1> QED
  BY <1>1, <1>2

LEMMA IInvIsTyped == IInv => TypeOK
<1> SUFFICES ASSUME IInv PROVE TypeOK
  OBVIOUS
<1>1. num_user \in 0 .. Cardinality(Ips)
  BY ManyUsers DEF IInv, Links, Counted
<1> QED
  BY <1>1 DEF IInv, Types, Stack, TypeOK

LEMMA IInvLinks == IInv => LinksAgree
BY DEF IInv, Links, Linked, Owned, Counted, LinksAgree

LEMMA IInvSnoops == IInv => SnoopersSnoop
<1> SUFFICES ASSUME IInv PROVE SnoopersSnoop
  OBVIOUS
<1>1. ASSUME NEW o \in All
      PROVE  Cardinality({i \in all_users : ip[i].snooped_by = o})
               = IF o \in O_SNOOP THEN 1 ELSE 0
  <2> DEFINE S == {i \in all_users : ip[i].snooped_by = o}
  <2>1. o # None
    BY UsersAssumption DEF All
  <2>2. CASE o \in O_SNOOP
    <3>1. PICK c \in all_users : ip[c].snooped_by = o
      BY <2>2 DEF IInv, Snoops, FlagsMatch
    <3>2. c \in S /\ \A x \in S : x = c
      BY <2>1, <3>1 DEF IInv, Snoops, OneVictim
    <3> QED
      BY <2>2, <3>2, OfSingle
  <2>3. CASE o \notin O_SNOOP
    <3>1. S = {}
      BY <2>3 DEF IInv, Snoops, FlagsMatch
    <3> QED
      BY <2>3, <3>1, FS_EmptySet
  <2> QED
    BY <2>2, <2>3
<1> QED
  BY <1>1 DEF SnoopersSnoop, IInv, Snoops, SnoopersLive

LEMMA IInvClosed == IInv => ClosedByOneFrame
<1> SUFFICES ASSUME IInv, NEW i \in all_users
             PROVE  Cardinality({k \in DOMAIN frames :
                           frames[k].what = "net_dead" /\ frames[k].ip = i})
                      = IF ip[i].closing THEN 1 ELSE 0
  BY DEF ClosedByOneFrame
<1> DEFINE S == {k \in DOMAIN frames :
                   frames[k].what = "net_dead" /\ frames[k].ip = i}
<1>0. ip[i].closing \in BOOLEAN
  BY DEF IInv, Types, Interactive
<1>1. CASE ip[i].closing
  <2>1. PICK c \in DOMAIN frames : Closing(frames[c]) /\ frames[c].ip = i
    BY <1>1 DEF IInv, Stack, ClosingFramed
  <2>2. c \in S /\ \A x \in S : x = c
    BY <2>1 DEF IInv, Stack, FramesApart, Closing
  <2> QED
    BY <1>1, <2>2, OfSingle
<1>2. CASE ~ip[i].closing
  <2>1. S = {}
    BY <1>2 DEF IInv, Stack, FramesName, Closing
  <2> QED
    BY <1>2, <2>1, FS_EmptySet
<1> QED
  BY <1>0, <1>1, <1>2

-----------------------------------------------------------------------------
(* What the operators do, a connection at a time.                          *)
LEMMA UnsnoopedFacts ==
  ASSUME Types, Snoops, NEW ob \in All,
         NEW f, f = IF ob \in O_SNOOP THEN Unsnooped(ip, ob) ELSE ip
  PROVE  /\ f \in [Ips -> Interactive]
         /\ \A i \in Ips : f[i].ob = ip[i].ob /\ f[i].closing = ip[i].closing
         /\ \A i \in all_users :
              f[i].snooped_by = IF ip[i].snooped_by = ob THEN None
                                ELSE ip[i].snooped_by
<1>1. CASE ob \in O_SNOOP
  <2>1. f = [i \in Ips |-> IF i \in all_users /\ ip[i].snooped_by = ob
                           THEN [ip[i] EXCEPT !.snooped_by = None]
                           ELSE ip[i]]
    BY <1>1 DEF Unsnooped
  <2> QED
    BY <2>1 DEF Types, Interactive
<1>2. CASE ob \notin O_SNOOP
  BY <1>2 DEF Types, Snoops, FlagsMatch
<1> QED
  BY <1>1, <1>2

LEMMA PoppedStack ==
  ASSUME NEW fr \in Seq(Frame), fr # <<>>,
         NEW p, p = SubSeq(fr, 1, Len(fr) - 1)
  PROVE  /\ p \in Seq(Frame)
         /\ Len(p) = Len(fr) - 1
         /\ DOMAIN p = 1 .. Len(fr) - 1
         /\ DOMAIN fr = 1 .. Len(fr)
         /\ Len(fr) \in Nat \ {0}
         /\ \A k \in DOMAIN p : p[k] = fr[k]
<1>1. Len(fr) \in Nat \ {0} /\ DOMAIN fr = 1 .. Len(fr)
  BY EmptySeq, LenProperties
<1>2. 1 \in 1 .. Len(fr) + 1 /\ Len(fr) - 1 \in 1 - 1 .. Len(fr)
  BY <1>1
<1>3. /\ p \in Seq(Frame)
      /\ Len(p) = Len(fr) - 1
      /\ \A k \in 1 .. Len(fr) - 1 : p[k] = fr[k]
  BY <1>1, <1>2, SubSeqProperties
<1> QED
  BY <1>1, <1>3, LenProperties

(* The stack is kept by whatever changes neither it, nor which connections *)
(* are in the table and being closed, nor their objects.                   *)
LEMMA StackStays ==
  ASSUME NEW fr, Stack(fr), frames' = fr, all_users \subseteq all_users',
         \A i \in all_users' \ all_users : ~ip'[i].closing,
         \A i \in all_users : ip'[i].closing = ip[i].closing,
         \A k \in DOMAIN fr : Closing(fr[k]) =>
           interactive'[fr[k].ob] = interactive[fr[k].ob]
  PROVE  Stack(frames)'
<1>1. FramesName(frames)'
  BY DEF Stack, FramesName, Closing
<1>2. ASSUME NEW i \in all_users', ip'[i].closing
      PROVE  \E k \in DOMAIN fr : Closing(fr[k]) /\ fr[k].ip = i
  <2>1. i \in all_users
    BY <1>2
  <2>2. ip[i].closing
    BY <1>2, <2>1
  <2> QED
    BY <2>1, <2>2 DEF Stack, ClosingFramed
<1>3. ClosingFramed(frames)'
  BY <1>2 DEF ClosingFramed, Closing
<1>4. FramesApart(frames)' /\ ConnectFirst(frames)'
  BY DEF Stack, FramesApart, ConnectFirst, Closing
<1> QED
  BY <1>1, <1>3, <1>4 DEF Stack

(* A connection that is being closed keeps its object: so do the frames.   *)
LEMMA FramedLinks ==
  ASSUME Types, Links, Stack(frames), NEW k \in DOMAIN frames,
         Closing(frames[k])
  PROVE  /\ frames[k].ob \in All /\ frames[k].ip \in all_users
         /\ ip[frames[k].ip].closing
         /\ interactive[frames[k].ob] = frames[k].ip
         /\ ip[frames[k].ip].ob = frames[k].ob
<1>1. frames[k] \in Frame
  BY DEF Stack
<1>2. frames[k].ob \in All /\ frames[k].ip \in Ips
  BY <1>1, ClosingFrame
<1>3. /\ frames[k].ip \in all_users /\ ip[frames[k].ip].closing
      /\ interactive[frames[k].ob] = frames[k].ip
  BY DEF Stack, FramesName
<1>4. frames[k].ip # None
  BY <1>2, UsersAssumption
<1> QED
  BY <1>2, <1>3, <1>4 DEF Links, Linked

-----------------------------------------------------------------------------
(* A connection leaves the table: f and flags are the snoopers by then,    *)
(* and no object but its own is destructed meanwhile.                      *)
LEMMA FinishKeeps ==
  ASSUME Types, Links, Snoops,
         NEW f \in [Ips -> Interactive], NEW flags \in SUBSET All,
         NEW ob \in All, NEW i \in all_users, interactive[ob] = i,
         \A j \in Ips : f[j].ob = ip[j].ob /\ f[j].closing = ip[j].closing,
         \A o \in All : o \in flags <=> \E j \in all_users : f[j].snooped_by = o,
         \A j, k \in all_users :
           f[j].snooped_by = f[k].snooped_by /\ f[j].snooped_by # None => j = k,
         destructed' \subseteq Objects,
         \A j \in all_users : f[j].snooped_by \notin destructed',
         \A o \in destructed' : o \in destructed \/ o = ob,
         Finish(f, flags, ob, i)
  PROVE  Types' /\ Links' /\ Snoops'
<1>0. /\ i \in Ips /\ i # None
      /\ ip[i].ob = ob
      /\ Linked /\ Owned /\ Counted
  BY UsersAssumption DEF Types, Links, Linked
<1>1. /\ all_users' = all_users \ {i}
      /\ \A j \in all_users' : ip'[j] = f[j] /\ j \in all_users
      /\ \A o \in All : interactive'[o] = IF o = ob THEN None
                                         ELSE interactive[o]
      /\ O_SNOOP' = flags \ {f[i].snooped_by}
  BY <1>0 DEF Finish, Types
<1>2. Types'
  <2>1. Fresh \in Interactive
    BY DEF Fresh, Interactive, All
  <2>2. /\ ip' \in [Ips -> Interactive]
        /\ interactive' \in [All -> Ips \union {None}]
    BY <2>1 DEF Finish, Types
  <2> QED
    BY <1>0, <1>1, <2>2 DEF Finish, Types
<1>3. Linked'
  <2> SUFFICES ASSUME NEW o \in All, interactive'[o] # None
               PROVE  /\ interactive'[o] \in all_users'
                      /\ ip'[interactive'[o]].ob = o
                      /\ o \in destructed' => ip'[interactive'[o]].closing
    BY DEF Linked
  <2>1. o # ob /\ interactive'[o] = interactive[o]
    BY <1>1
  <2>2. interactive[o] \in all_users /\ ip[interactive[o]].ob = o
    BY <1>0, <2>1 DEF Linked
  <2>3. interactive[o] # i
    BY <1>0, <2>1, <2>2
  <2> QED
    BY <1>0, <1>1, <2>1, <2>2, <2>3 DEF Linked, Types
<1>4. Owned'
  <2> SUFFICES ASSUME NEW j \in all_users', ~Lost(j)'
               PROVE  interactive'[ip'[j].ob] = j
    BY DEF Owned
  <2>1. /\ j \in all_users /\ j # i /\ j # None
        /\ ip'[j].ob = ip[j].ob /\ ip[j].ob \in All
    BY <1>1, UsersAssumption DEF Types, Interactive
  <2>2. ~Lost(j)
    BY <1>1, <2>1 DEF Lost, All
  <2>3. interactive[ip[j].ob] = j
    BY <1>0, <2>1, <2>2 DEF Owned
  <2> QED
    BY <1>1, <2>1, <2>3
<1>5. Counted'
  <2>1. /\ Cardinality(all_users') = Cardinality(all_users) - 1
    BY <1>1, ManyUsers, FS_RemoveElement
  <2> QED
    BY <1>0, <2>1 DEF Counted, Finish
<1>6. FlagsMatch'
  <2> SUFFICES ASSUME NEW o \in All
               PROVE  o \in O_SNOOP' <=>
                        \E j \in all_users' : ip'[j].snooped_by = o
    BY DEF FlagsMatch
  <2>1. o # None
    BY UsersAssumption DEF All
  <2>2. (\E j \in all_users' : ip'[j].snooped_by = o)
          <=> \E j \in all_users : j # i /\ f[j].snooped_by = o
    BY <1>1
  <2> QED
    BY <1>1, <2>1, <2>2
<1>7. OneVictim' /\ SnoopersLive'
  BY <1>1 DEF OneVictim, SnoopersLive
<1> QED
  BY <1>2, <1>3, <1>4, <1>5, <1>6, <1>7 DEF Links, Snoops

LEMMA NetDeadReturnsKeeps ==
  ASSUME IInv, NetDeadReturns
  PROVE  IInv'
<1> DEFINE n == Len(frames)
           i == frames[n].ip
           ob == frames[n].ob
<1>0. Types /\ Links /\ Snoops /\ Stack(frames)
  BY DEF IInv
<1>1. /\ frames \in Seq(Frame) /\ frames # <<>>
      /\ Closing(frames[n]) /\ frames' = Popped
  BY <1>0 DEF NetDeadReturns, Waiting, Top, Closing, Stack
<1>2. /\ DOMAIN frames = 1 .. n /\ n \in Nat \ {0}
      /\ frames' \in Seq(Frame) /\ Len(frames') = n - 1
      /\ DOMAIN frames' = 1 .. n - 1
      /\ \A k \in DOMAIN frames' : frames'[k] = frames[k]
  BY <1>1, PoppedStack DEF Popped
<1>3. /\ ob \in All /\ i \in all_users /\ ip[i].closing
      /\ interactive[ob] = i
  BY <1>0, <1>1, <1>2, FramedLinks
<1>4. Finish(ip, O_SNOOP, ob, i) /\ destructed' = destructed
  BY DEF NetDeadReturns, Top
<1> HIDE DEF n, i, ob
<1>5. Types' /\ Links' /\ Snoops'
  <2>1. /\ ip \in [Ips -> Interactive] /\ O_SNOOP \in SUBSET All
        /\ destructed \subseteq Objects
    BY <1>0 DEF Types
  <2>2. \A o \in All : o \in O_SNOOP <=> \E j \in all_users : ip[j].snooped_by = o
    BY <1>0 DEF Snoops, FlagsMatch
  <2>3. \A j, k \in all_users :
          ip[j].snooped_by = ip[k].snooped_by /\ ip[j].snooped_by # None => j = k
    BY <1>0 DEF Snoops, OneVictim
  <2>4. \A j \in all_users : ip[j].snooped_by \notin destructed
    BY <1>0 DEF Snoops, SnoopersLive
  <2> QED
    BY <1>0, <1>3, <1>4, <2>1, <2>2, <2>3, <2>4, FinishKeeps
<1>6. Stack(frames)'
  <2>1. /\ all_users' = all_users \ {i}
        /\ \A j \in all_users' : ip'[j] = ip[j]
        /\ \A o \in All : o # ob => interactive'[o] = interactive[o]
    BY <1>0, <1>4 DEF Finish, Types
  <2>2. ASSUME NEW k \in DOMAIN frames', Closing(frames'[k])
        PROVE  /\ frames'[k].ip \in all_users' /\ ip'[frames'[k].ip].closing
               /\ interactive'[frames'[k].ob] = frames'[k].ip
    <3>1. k \in DOMAIN frames /\ Closing(frames[k]) /\ frames'[k] = frames[k]
      BY <1>2, <2>2
    <3>2. /\ frames[k].ip \in all_users /\ ip[frames[k].ip].closing
          /\ interactive[frames[k].ob] = frames[k].ip /\ frames[k].ob \in All
      BY <1>0, <3>1, FramedLinks
    <3>3. frames[k].ip # i
      <4>1. n \in DOMAIN frames /\ k # n /\ Closing(frames[n])
        BY <1>1, <1>2, <2>2 DEF n
      <4> QED
        BY <1>0, <3>1, <4>1 DEF Stack, FramesApart, i
    <3>4. frames[k].ob # ob
      BY <1>3, <3>2, <3>3
    <3> QED
      BY <2>1, <3>1, <3>2, <3>3, <3>4
  <2>3. ASSUME NEW j \in all_users', ip'[j].closing
        PROVE  \E k \in DOMAIN frames' : Closing(frames'[k]) /\ frames'[k].ip = j
    <3>1. j \in all_users /\ j # i /\ ip[j].closing
      BY <2>1, <2>3
    <3>2. PICK k \in DOMAIN frames : Closing(frames[k]) /\ frames[k].ip = j
      BY <1>0, <3>1 DEF Stack, ClosingFramed
    <3>3. k \in DOMAIN frames'
      BY <1>2, <3>1, <3>2 DEF i
    <3> QED
      BY <1>2, <3>2, <3>3
  <2>4. FramesApart(frames)' /\ ConnectFirst(frames)'
    BY <1>0, <1>2 DEF Stack, FramesApart, ConnectFirst, Closing
  <2>5. frames' \in Seq(Frame) /\ Len(frames') <= MaxDepth
    BY <1>0, <1>2, UsersAssumption DEF Stack, n
  <2> QED
    BY <2>2, <2>3, <2>4, <2>5
      DEF Stack, FramesName, ClosingFramed, Closing
<1> QED
  BY <1>5, <1>6 DEF IInv

(* remove_interactive() up to the call of net_dead(), which either returns *)
(* at once or takes a connection that nobody is closing.                   *)
LEMMA RemoveKeeps ==
  ASSUME Types, Links, Snoops, NEW base, Stack(base), NEW ob \in All,
         Remove(ob, base), destructed' = destructed
  PROVE  IInv'
<1> DEFINE i == interactive[ob]
           fr == [what |-> "net_dead", ob |-> ob, ip |-> i]
<1>1. CASE i = None \/ (i \in Ips /\ ip[i].closing)
  <2>1. /\ UNCHANGED <<interactive, all_users, ip, O_SNOOP, num_user, hung_up,
                       destructed>>
        /\ frames' = base
    BY <1>1 DEF Remove
  <2>2. Types' /\ Links' /\ Snoops'
    BY <2>1 DEF Types, Links, Linked, Owned, Lost, Counted, Snoops, FlagsMatch,
                OneVictim, SnoopersLive
  <2>3. Stack(frames)'
    BY <2>1, StackStays
  <2> QED
    BY <2>2, <2>3 DEF IInv
<1>2. CASE ~(i = None \/ (i \in Ips /\ ip[i].closing))
  <2>1. /\ UNCHANGED <<interactive, all_users, O_SNOOP, num_user, hung_up,
                       destructed>>
        /\ Len(base) < MaxDepth
        /\ ip' = [ip EXCEPT ![i].closing = TRUE]
        /\ frames' = Append(base, fr)
    BY <1>2 DEF Remove
  <2>2. i \in all_users /\ i \in Ips /\ ip[i].ob = ob /\ ~ip[i].closing
    BY <1>2 DEF Links, Linked, Types
  <2>3. /\ ip' \in [Ips -> Interactive]
        /\ \A j \in Ips : /\ ip'[j].ob = ip[j].ob
                          /\ ip'[j].snooped_by = ip[j].snooped_by
                          /\ ip'[j].closing = (ip[j].closing \/ j = i)
    BY <2>1, <2>2 DEF Types, Interactive
  <2>4. Types'
    BY <2>1, <2>3 DEF Types
  <2>5. Links'
    BY <2>1, <2>3 DEF Types, Links, Linked, Owned, Lost, Counted
  <2>6. Snoops'
    BY <2>1, <2>3 DEF Types, Snoops, FlagsMatch, OneVictim, SnoopersLive
  <2>7. Stack(frames)'
    <3>1. fr \in Frame /\ Closing(fr) /\ fr.ob = ob /\ fr.ip = i
      BY <2>2 DEF Frame, Closing
    <3> HIDE DEF fr, i
    <3>2. /\ base \in Seq(Frame) /\ DOMAIN base = 1 .. Len(base)
          /\ Len(base) \in Nat
      BY LenProperties DEF Stack
    <3>3. /\ frames' \in Seq(Frame) /\ Len(frames') = Len(base) + 1
          /\ frames'[Len(base) + 1] = fr
          /\ \A k \in DOMAIN base : frames'[k] = base[k]
      BY <2>1, <3>1, <3>2, AppendProperties
    <3>4. DOMAIN frames' = DOMAIN base \union {Len(base) + 1}
      BY <3>2, <3>3, LenProperties
    <3>5. \A k \in DOMAIN base : Closing(base[k]) => base[k].ip # i
      BY <2>2 DEF Stack, FramesName
    <3>6. FramesName(frames)'
      <4>1. ASSUME NEW k \in DOMAIN base, Closing(base[k])
            PROVE  /\ base[k].ip \in all_users' /\ ip'[base[k].ip].closing
                   /\ interactive'[base[k].ob] = base[k].ip
        BY <2>1, <2>3, <4>1 DEF Stack, FramesName, Types
      <4>2. /\ fr.ip \in all_users' /\ ip'[fr.ip].closing
            /\ interactive'[fr.ob] = fr.ip
        BY <2>1, <2>2, <2>3, <3>1 DEF i
      <4> QED
        BY <3>3, <3>4, <4>1, <4>2 DEF FramesName, Closing
    <3>7. FramesApart(frames)'
      BY <3>1, <3>2, <3>3, <3>4, <3>5 DEF Stack, FramesApart, Closing
    <3>8. ClosingFramed(frames)'
      <4> SUFFICES ASSUME NEW j \in all_users', ip'[j].closing
                   PROVE  \E k \in DOMAIN frames' :
                            Closing(frames'[k]) /\ frames'[k].ip = j
        BY DEF ClosingFramed, Closing
      <4>1. CASE j = i
        BY <3>1, <3>3, <3>4, <4>1
      <4>2. CASE j # i
        <5>1. j \in all_users /\ ip[j].closing
          BY <2>1, <2>3, <4>2 DEF Types
        <5>2. PICK k \in DOMAIN base : Closing(base[k]) /\ base[k].ip = j
          BY <5>1 DEF Stack, ClosingFramed
        <5> QED
          BY <3>3, <3>4, <5>2
      <4> QED
        BY <4>1, <4>2
    <3>9. ConnectFirst(frames)'
      BY <3>1, <3>2, <3>3, <3>4 DEF Stack, ConnectFirst, Closing
    <3> QED
      BY <2>1, <3>2, <3>3, <3>6, <3>7, <3>8, <3>9, UsersAssumption DEF Stack
  <2> QED
    BY <2>4, <2>5, <2>6, <2>7 DEF IInv
<1> QED
  BY <1>1, <1>2

(* The frame of connect() is the only one when it is the innermost.        *)
LEMMA ConnectAlone ==
  ASSUME IInv, Waiting("connect")
  PROVE  /\ Len(frames) = 1 /\ Popped = <<>>
         /\ \A i \in all_users : ~ip[i].closing
         /\ Stack(<<>>)
<1>1. frames \in Seq(Frame) /\ frames # <<>> /\ Stack(frames)
  BY DEF IInv, Stack, Waiting
<1>2. Len(frames) \in Nat \ {0} /\ DOMAIN frames = 1 .. Len(frames)
  BY <1>1, PoppedStack
<1>3. frames[Len(frames)].what = "connect"
  BY DEF Waiting, Top
<1>4. Len(frames) = 1
  BY <1>1, <1>2, <1>3 DEF Stack, ConnectFirst
<1>5. Popped = <<>>
  BY <1>4, SubSeqEmpty DEF Popped
<1>6. \A i \in all_users : ~ip[i].closing
  BY <1>1, <1>2, <1>3, <1>4 DEF Stack, ClosingFramed, Closing
<1>7. Stack(<<>>)
  <2>1. <<>> \in Seq(Frame) /\ Len(<<>>) = 0 /\ DOMAIN <<>> = {}
    BY EmptySeq
  <2> QED
    BY <1>6, <2>1, UsersAssumption
      DEF Stack, FramesName, FramesApart, ClosingFramed, ConnectFirst
<1> QED
  BY <1>4, <1>5, <1>6, <1>7

LEMMA ConnectAbortsKeeps ==
  ASSUME IInv, ConnectAborts
  PROVE  IInv'
<1>1. /\ Waiting("connect") /\ Remove(Master, Popped)
      /\ destructed' = destructed /\ Master \in All
  BY DEF ConnectAborts, All
<1>2. Popped = <<>> /\ Stack(<<>>)
  BY <1>1, ConnectAlone
<1> QED
  BY <1>1, <1>2, RemoveKeeps DEF IInv

LEMMA ConnectFailsKeeps ==
  ASSUME IInv, ConnectFails
  PROVE  IInv'
<1>1. Waiting("connect") /\ frames' = <<>>
      /\ UNCHANGED <<interactive, all_users, ip, O_SNOOP, destructed, num_user,
                     hung_up>>
  BY DEF ConnectFails
<1>2. Stack(<<>>)
  BY <1>1, ConnectAlone
<1>3. Types' /\ Links' /\ Snoops'
  BY <1>1 DEF IInv, Types, Links, Linked, Owned, Lost, Counted, Snoops,
              FlagsMatch, OneVictim, SnoopersLive
<1>4. Stack(frames)'
  BY <1>1, <1>2, StackStays
<1> QED
  BY <1>3, <1>4 DEF IInv

LEMMA DisconnectKeeps ==
  ASSUME IInv, NEW ob \in All, Disconnect(ob)
  PROVE  IInv'
BY RemoveKeeps DEF IInv, Disconnect

LEMMA ReadFailsKeeps ==
  ASSUME IInv, NEW i \in Ips, ReadFails(i)
  PROVE  IInv'
<1>1. ip[i].ob \in All
  BY DEF IInv, Types, Interactive
<1> QED
  BY <1>1, RemoveKeeps DEF IInv, ReadFails

LEMMA NewUserKeeps ==
  ASSUME IInv, NewUser
  PROVE  IInv'
<1>0. Types /\ Links /\ Snoops /\ Stack(frames) /\ frames = <<>>
  BY DEF IInv, NewUser, Idle
<1>1. PICK i \in Ips \ all_users :
        /\ all_users' = all_users \union {i}
        /\ ip' = [ip EXCEPT ![i] = Fresh]
        /\ interactive' = [interactive EXCEPT ![Master] = i]
  BY DEF NewUser
<1>2. /\ num_user' = num_user + 1
      /\ frames' = <<[what |-> "connect"]>>
      /\ UNCHANGED <<O_SNOOP, destructed, hung_up>>
  BY DEF NewUser
<1>3. /\ Fresh \in Interactive /\ Fresh.ob = Master /\ ~Fresh.closing
      /\ Fresh.snooped_by = None
      /\ Master \in All /\ Master \notin destructed
  BY <1>0, UsersAssumption DEF Fresh, Interactive, All, Types
<1>4. /\ ip' \in [Ips -> Interactive] /\ ip'[i] = Fresh
      /\ interactive' \in [All -> Ips \union {None}] /\ interactive'[Master] = i
      /\ \A j \in all_users : j # i /\ ip'[j] = ip[j]
      /\ \A o \in All : o # Master => interactive'[o] = interactive[o]
  BY <1>0, <1>1, <1>3 DEF Types
<1>5. Types'
  BY <1>0, <1>1, <1>2, <1>4 DEF Types
<1>6. Linked'
  <2> SUFFICES ASSUME NEW o \in All, interactive'[o] # None
               PROVE  /\ interactive'[o] \in all_users'
                      /\ ip'[interactive'[o]].ob = o
                      /\ o \in destructed' => ip'[interactive'[o]].closing
    BY DEF Linked
  <2>1. CASE o = Master
    BY <1>1, <1>2, <1>3, <1>4, <2>1
  <2>2. CASE o # Master
    BY <1>0, <1>1, <1>2, <1>4, <2>2 DEF Links, Linked
  <2> QED
    BY <2>1, <2>2
<1>7. Owned'
  <2> SUFFICES ASSUME NEW j \in all_users', ~Lost(j)'
               PROVE  interactive'[ip'[j].ob] = j
    BY DEF Owned
  <2>1. CASE j = i
    BY <1>3, <1>4, <2>1
  <2>2. CASE j # i
    <3>1. j \in all_users /\ ip'[j] = ip[j] /\ ip[j].ob \in All
      BY <1>0, <1>1, <1>4, <2>2 DEF Types, Interactive
    <3>2. ip[j].ob # Master
      BY <1>4, <2>2, <3>1 DEF Lost
    <3> QED
      BY <1>0, <1>4, <3>1, <3>2 DEF Links, Owned, Lost
  <2> QED
    BY <2>1, <2>2
<1>8. Counted'
  <2>1. Cardinality(all_users') = Cardinality(all_users) + 1
    BY <1>0, <1>1, ManyUsers, FS_AddElement
  <2> QED
    BY <1>0, <1>2, <2>1 DEF Links, Counted
<1>9. Snoops'
  <2>1. \A o \in All : o # None
    BY UsersAssumption DEF All
  <2>2. FlagsMatch'
    BY <1>0, <1>1, <1>2, <1>3, <1>4, <2>1 DEF Snoops, FlagsMatch
  <2>3. OneVictim'
    BY <1>0, <1>1, <1>3, <1>4 DEF Snoops, OneVictim
  <2>4. SnoopersLive'
    BY <1>0, <1>1, <1>2, <1>3, <1>4, UsersAssumption
      DEF Snoops, SnoopersLive, Types
  <2> QED
    BY <2>2, <2>3, <2>4 DEF Snoops
<1>10. Stack(frames)'
  <2>1. [what |-> "connect"] \in Frame
    BY DEF Frame
  <2>2. /\ frames' \in Seq(Frame) /\ Len(frames') = 1
        /\ DOMAIN frames' = {1} /\ frames'[1].what = "connect"
    BY <1>2, <2>1
  <2>3. \A j \in all_users' : ~ip'[j].closing
    BY <1>0, <1>1, <1>3, <1>4 DEF Stack, ClosingFramed
  <2> QED
    BY <2>2, <2>3, UsersAssumption
      DEF Stack, FramesName, FramesApart, ClosingFramed, ConnectFirst, Closing
<1> QED
  BY <1>5, <1>6, <1>7, <1>8, <1>9, <1>10 DEF IInv, Links

(* A connection that nobody is closing moves to an object without one.     *)
LEMMA MoveKeeps ==
  ASSUME Types, Links, Snoops, NEW fr, Stack(fr),
         NEW to \in All, NEW from \in All,
         to \notin destructed, interactive[to] = None,
         interactive[from] # None, ~ip[interactive[from]].closing,
         interactive' = [interactive EXCEPT ![to] = interactive[from],
                                            ![from] = None],
         ip' = [ip EXCEPT ![interactive[from]].ob = to],
         \A k \in DOMAIN fr : Closing(fr[k]) =>
           fr[k].ob \in All /\ fr[k].ip # None,
         frames' = fr,
         UNCHANGED <<all_users, O_SNOOP, destructed, num_user, hung_up>>
  PROVE  IInv'
<1> DEFINE i == interactive[from]
<1>1. /\ i \in all_users /\ i \in Ips /\ i # None /\ ip[i].ob = from
      /\ to # from
  BY DEF Links, Linked, Types
<1>2. /\ interactive' \in [All -> Ips \union {None}]
      /\ interactive'[to] = i /\ interactive'[from] = None
      /\ \A o \in All \ {to, from} : interactive'[o] = interactive[o]
  BY <1>1 DEF Types
<1>3. /\ ip' \in [Ips -> Interactive]
      /\ \A j \in Ips : /\ ip'[j].closing = ip[j].closing
                        /\ ip'[j].snooped_by = ip[j].snooped_by
                        /\ ip'[j].ob = IF j = i THEN to ELSE ip[j].ob
  BY <1>1 DEF Types, Interactive
<1> HIDE DEF i
<1>4. Types'
  BY <1>2, <1>3 DEF Types
<1>5. Linked'
  <2> SUFFICES ASSUME NEW o \in All, interactive'[o] # None
               PROVE  /\ interactive'[o] \in all_users'
                      /\ ip'[interactive'[o]].ob = o
                      /\ o \in destructed' => ip'[interactive'[o]].closing
    BY DEF Linked
  <2>1. CASE o = to
    BY <1>1, <1>2, <1>3, <2>1
  <2>2. CASE o # to
    <3>1. o # from /\ interactive'[o] = interactive[o]
      BY <1>2, <2>2
    <3>2. /\ interactive[o] \in all_users /\ interactive[o] \in Ips
          /\ ip[interactive[o]].ob = o
          /\ o \in destructed => ip[interactive[o]].closing
      BY <3>1 DEF Links, Linked, Types
    <3>3. interactive[o] # i
      BY <1>1, <3>1, <3>2
    <3> QED
      BY <1>3, <3>1, <3>2, <3>3
  <2> QED
    BY <2>1, <2>2
<1>6. Owned'
  <2> SUFFICES ASSUME NEW j \in all_users', ~Lost(j)'
               PROVE  interactive'[ip'[j].ob] = j
    BY DEF Owned
  <2>1. CASE j = i
    BY <1>1, <1>2, <1>3, <2>1
  <2>2. CASE j # i
    <3>1. j \in all_users /\ j \in Ips /\ ip'[j].ob = ip[j].ob
          /\ ip[j].ob \in All /\ j # None
      BY <1>3, <2>2, UsersAssumption DEF Types, Interactive
    <3>2. ~Lost(j)
      <4> SUFFICES ASSUME ip[j].ob = Master, interactive[Master] # j
                   PROVE  FALSE
        BY DEF Lost
      <4>1. interactive'[Master] = j
        BY <3>1 DEF Lost
      <4> QED
        BY <1>2, <2>2, <3>1, <4>1
    <3>3. interactive[ip[j].ob] = j
      BY <3>1, <3>2 DEF Links, Owned
    <3>4. ip[j].ob # from /\ ip[j].ob # to
      BY <2>2, <3>1, <3>3 DEF i
    <3> QED
      BY <1>2, <3>1, <3>3, <3>4
  <2> QED
    BY <2>1, <2>2
<1>7. Counted'
  BY DEF Links, Counted
<1>8. Snoops'
  BY <1>3 DEF Types, Snoops, FlagsMatch, OneVictim, SnoopersLive
<1>9. Stack(frames)'
  <2>1. ASSUME NEW k \in DOMAIN fr, Closing(fr[k])
        PROVE  interactive'[fr[k].ob] = interactive[fr[k].ob]
    <3>1. /\ fr[k].ob \in All /\ interactive[fr[k].ob] = fr[k].ip
          /\ ip[fr[k].ip].closing /\ fr[k].ip # None
      BY <2>1 DEF Stack, FramesName
    <3>2. fr[k].ob # from /\ fr[k].ob # to
      BY <3>1
    <3> QED
      BY <1>2, <3>1, <3>2
  <2> QED
    BY <1>3, <2>1, StackStays DEF Types
<1> QED
  BY <1>4, <1>5, <1>6, <1>7, <1>8, <1>9 DEF IInv, Links

LEMMA ConnectReturnsKeeps ==
  ASSUME IInv, ConnectReturns
  PROVE  IInv'
<1>1. /\ Waiting("connect") /\ interactive[Master] # None
      /\ frames' = Popped
      /\ UNCHANGED <<all_users, O_SNOOP, destructed, num_user, hung_up>>
  BY DEF ConnectReturns
<1>2. PICK ob \in Existing \ {Master} :
        /\ interactive[ob] = None
        /\ interactive' = [interactive EXCEPT ![ob] = interactive[Master],
                                              ![Master] = None]
        /\ ip' = [ip EXCEPT ![interactive[Master]].ob = ob]
  BY DEF ConnectReturns
<1>3. Popped = <<>> /\ Stack(<<>>) /\ DOMAIN <<>> = {}
      /\ \A i \in all_users : ~ip[i].closing
  BY <1>1, ConnectAlone
<1>4. /\ ob \in All /\ ob \notin destructed /\ Master \in All
      /\ ~ip[interactive[Master]].closing
  BY <1>1, <1>2, <1>3 DEF Existing, All, IInv, Links, Linked
<1> QED
  BY <1>1, <1>2, <1>3, <1>4, MoveKeeps DEF IInv

LEMMA ExecKeeps ==
  ASSUME IInv, ~ExecDying, NEW to \in All, NEW from \in All, Exec(to, from)
  PROVE  IInv'
<1>1. \A k \in DOMAIN frames : Closing(frames[k]) =>
        frames[k].ob \in All /\ frames[k].ip # None
  BY FramedLinks, UsersAssumption DEF IInv, Types
<1>2. /\ to \notin destructed /\ interactive[to] = None
      /\ interactive[from] # None /\ ~ip[interactive[from]].closing
      /\ interactive' = [interactive EXCEPT ![to] = interactive[from],
                                            ![from] = None]
      /\ ip' = [ip EXCEPT ![interactive[from]].ob = to]
      /\ frames' = frames
      /\ UNCHANGED <<all_users, O_SNOOP, destructed, num_user, hung_up>>
  BY DEF Exec, Existing
<1> QED
  BY <1>1, <1>2, MoveKeeps DEF IInv

LEMMA NewObjectKeeps ==
  ASSUME IInv, NEW ob \in Objects, NewObject(ob)
  PROVE  IInv'
<1>1. /\ \A i \in all_users : ip[i].ob # ob /\ ip[i].snooped_by # ob
      /\ destructed' = destructed \ {ob}
      /\ UNCHANGED <<interactive, all_users, ip, O_SNOOP, num_user, frames,
                     hung_up>>
  BY DEF NewObject
<1>2. Types' /\ Links' /\ Snoops'
  BY <1>1 DEF IInv, Types, Links, Linked, Owned, Lost, Counted, Snoops,
              FlagsMatch, OneVictim, SnoopersLive
<1>3. Stack(frames)'
  BY <1>1, StackStays DEF IInv
<1> QED
  BY <1>2, <1>3 DEF IInv

(* Only snoopers change.                                                   *)
LEMMA SnoopingKeeps ==
  ASSUME IInv, Snoops',
         ip' \in [Ips -> Interactive], O_SNOOP' \subseteq All,
         \A j \in Ips : ip'[j].ob = ip[j].ob /\ ip'[j].closing = ip[j].closing,
         UNCHANGED <<interactive, all_users, destructed, num_user, frames,
                     hung_up>>
  PROVE  IInv'
<1>1. Types'
  BY DEF IInv, Types
<1>2. Links'
  BY DEF IInv, Types, Links, Linked, Owned, Lost, Counted
<1>3. Stack(frames)'
  BY StackStays DEF IInv, Types
<1> QED
  BY <1>1, <1>2, <1>3 DEF IInv

LEMMA SnoopKeeps ==
  ASSUME IInv, NEW by \in All, NEW victim \in All, Snoop(by, victim)
  PROVE  IInv'
<1> DEFINE i == interactive[victim]
           f == IF by \in O_SNOOP THEN Unsnooped(ip, by) ELSE ip
<1>0. Types /\ Links /\ Snoops
  BY DEF IInv
<1>1. /\ by \notin destructed /\ i # None
      /\ O_SNOOP' = (O_SNOOP \ {f[i].snooped_by}) \union {by}
      /\ ip' = [f EXCEPT ![i].snooped_by = by]
      /\ UNCHANGED <<interactive, all_users, destructed, num_user, frames,
                     hung_up>>
  BY DEF Snoop, Existing
<1>2. i \in all_users /\ i \in Ips
  BY <1>0, <1>1 DEF Links, Linked, Types
<1>3. /\ f \in [Ips -> Interactive]
      /\ \A j \in Ips : f[j].ob = ip[j].ob /\ f[j].closing = ip[j].closing
      /\ \A j \in all_users :
           f[j].snooped_by = IF ip[j].snooped_by = by THEN None
                             ELSE ip[j].snooped_by
  BY <1>0, UnsnoopedFacts
<1> HIDE DEF i, f
<1>4. /\ ip' \in [Ips -> Interactive]
      /\ \A j \in Ips : ip'[j].ob = ip[j].ob /\ ip'[j].closing = ip[j].closing
      /\ \A j \in Ips :
           ip'[j].snooped_by = IF j = i THEN by ELSE f[j].snooped_by
  BY <1>1, <1>2, <1>3 DEF Interactive
<1>5. O_SNOOP' \subseteq All
  BY <1>0, <1>1 DEF Types
<1>6. FlagsMatch'
  <2> SUFFICES ASSUME NEW o \in All
               PROVE  o \in O_SNOOP' <=>
                        \E j \in all_users : ip'[j].snooped_by = o
    BY <1>1 DEF FlagsMatch
  <2>1. CASE o = by
    BY <1>1, <1>2, <1>4, <2>1
  <2>2. CASE o # by
    <3>1. o # None
      BY UsersAssumption DEF All
    <3>2. o \in O_SNOOP <=> \E j \in all_users : ip[j].snooped_by = o
      BY <1>0 DEF Snoops, FlagsMatch
    <3>3. \A j \in all_users : f[j].snooped_by = o <=> ip[j].snooped_by = o
      BY <1>3, <2>2, <3>1
    <3>4. \A j \in all_users :
            ip'[j].snooped_by = o <=> (j # i /\ ip[j].snooped_by = o)
      BY <1>0, <1>4, <2>2, <3>3 DEF Types
    <3>5. o \in O_SNOOP' <=> (o \in O_SNOOP /\ ip[i].snooped_by # o)
      BY <1>1, <1>2, <2>2, <3>3
    <3>6. \A j \in all_users : ip[j].snooped_by = o /\ ip[i].snooped_by = o => j = i
      BY <1>0, <1>2, <3>1 DEF Snoops, OneVictim
    <3> QED
      BY <1>2, <3>2, <3>4, <3>5, <3>6
  <2> QED
    BY <2>1, <2>2
<1>7. OneVictim'
  <2> SUFFICES ASSUME NEW j \in all_users, NEW k \in all_users,
                      ip'[j].snooped_by = ip'[k].snooped_by,
                      ip'[j].snooped_by # None
               PROVE  j = k
    BY <1>1 DEF OneVictim
  <2>1. \A l \in all_users : f[l].snooped_by # by
    BY <1>3, UsersAssumption DEF All
  <2>2. CASE j = i \/ k = i
    BY <1>0, <1>4, <2>1, <2>2 DEF Types
  <2>3. CASE j # i /\ k # i
    BY <1>0, <1>3, <1>4, <2>3 DEF Types, Snoops, OneVictim
  <2> QED
    BY <2>2, <2>3
<1>8. SnoopersLive'
  <2>1. None \notin destructed
    BY <1>0, UsersAssumption DEF Types
  <2> QED
    BY <1>0, <1>1, <1>3, <1>4, <2>1 DEF Types, Snoops, SnoopersLive
<1> QED
  BY <1>1, <1>4, <1>5, <1>6, <1>7, <1>8, SnoopingKeeps DEF Snoops

(* The driver hangs: nothing changes but the stack.                        *)
LEMMA SnoopHangsKeeps ==
  ASSUME IInv, NEW by \in All, NEW victim \in All, SnoopHangs(by, victim)
  PROVE  IInv'
<1> DEFINE fr == [what |-> "snoop"]
           s == Append(frames, fr)
<1>1. /\ Len(frames) < MaxDepth /\ frames' = s
      /\ UNCHANGED <<interactive, all_users, ip, O_SNOOP, destructed, num_user,
                     hung_up>>
  BY DEF SnoopHangs
<1>2. fr \in Frame /\ fr.what = "snoop" /\ ~Closing(fr)
  BY DEF Frame, Closing
<1> HIDE DEF fr
<1>3. /\ Stack(frames) /\ frames \in Seq(Frame)
      /\ DOMAIN frames = 1 .. Len(frames) /\ Len(frames) \in Nat
  BY LenProperties DEF IInv, Stack
<1>4. /\ s \in Seq(Frame) /\ Len(s) = Len(frames) + 1
      /\ s[Len(frames) + 1] = fr
      /\ \A k \in DOMAIN frames : s[k] = frames[k]
  BY <1>2, <1>3, AppendProperties
<1>5. DOMAIN s = DOMAIN frames \union {Len(frames) + 1}
  BY <1>3, <1>4, LenProperties
<1> HIDE DEF s
<1>6. FramesName(s) /\ FramesApart(s)
  BY <1>2, <1>3, <1>4, <1>5 DEF Stack, FramesName, FramesApart
<1>7. ClosingFramed(s)
  BY <1>3, <1>4, <1>5 DEF Stack, ClosingFramed
<1>8. ConnectFirst(s)
  BY <1>2, <1>3, <1>4, <1>5 DEF Stack, ConnectFirst
<1>9. Len(s) <= MaxDepth
  BY <1>1, <1>3, <1>4, UsersAssumption
<1>10. Stack(s)
  BY <1>4, <1>6, <1>7, <1>8, <1>9 DEF Stack
<1>11. Types' /\ Links' /\ Snoops'
  BY <1>1 DEF IInv, Types, Links, Linked, Owned, Lost, Counted, Snoops,
              FlagsMatch, OneVictim, SnoopersLive
<1>12. Stack(frames)'
  BY <1>1, <1>10, StackStays
<1> QED
  BY <1>11, <1>12 DEF IInv

LEMMA StopSnoopKeeps ==
  ASSUME IInv, NEW by \in All, StopSnoop(by)
  PROVE  IInv'
<1>0. Types /\ Snoops
  BY DEF IInv
<1>1. /\ by \in O_SNOOP /\ O_SNOOP' = O_SNOOP \ {by}
      /\ ip' = Unsnooped(ip, by)
      /\ UNCHANGED <<interactive, all_users, destructed, num_user, frames,
                     hung_up>>
  BY DEF StopSnoop
<1>2. /\ ip' \in [Ips -> Interactive]
      /\ \A j \in Ips : ip'[j].ob = ip[j].ob /\ ip'[j].closing = ip[j].closing
      /\ \A j \in all_users :
           ip'[j].snooped_by = IF ip[j].snooped_by = by THEN None
                               ELSE ip[j].snooped_by
  BY <1>0, <1>1, UnsnoopedFacts
<1>3. None \notin All /\ None \notin destructed /\ O_SNOOP' \subseteq All
  BY <1>0, <1>1, UsersAssumption DEF Types, All
<1>4. Snoops'
  <2>1. FlagsMatch'
    BY <1>0, <1>1, <1>2, <1>3 DEF Snoops, FlagsMatch
  <2>2. OneVictim'
    BY <1>0, <1>1, <1>2 DEF Snoops, OneVictim
  <2>3. SnoopersLive'
    BY <1>0, <1>1, <1>2, <1>3 DEF Snoops, SnoopersLive
  <2> QED
    BY <2>1, <2>2, <2>3 DEF Snoops
<1> QED
  BY <1>1, <1>2, <1>3, <1>4, SnoopingKeeps

LEMMA DestructKeeps ==
  ASSUME IInv, NEW ob \in All, Destruct(ob)
  PROVE  IInv'
<1> DEFINE i == interactive[ob]
           f == IF ob \in O_SNOOP THEN Unsnooped(ip, ob) ELSE ip
           flags == O_SNOOP \ {ob}
<1>0. Types /\ Links /\ Snoops /\ Stack(frames)
  BY DEF IInv
<1>1. /\ destructed' = destructed \union ({ob} \ {Master})
      /\ frames' = frames
  BY DEF Destruct
<1>2. /\ f \in [Ips -> Interactive]
      /\ \A j \in Ips : f[j].ob = ip[j].ob /\ f[j].closing = ip[j].closing
      /\ \A j \in all_users :
           f[j].snooped_by = IF ip[j].snooped_by = ob THEN None
                             ELSE ip[j].snooped_by
  BY <1>0, UnsnoopedFacts
<1>3. IF i = None \/ (i \in Ips /\ ip[i].closing)
      THEN /\ ip' = f
           /\ O_SNOOP' = O_SNOOP \ {ob}
           /\ UNCHANGED <<interactive, all_users, num_user, hung_up>>
      ELSE Finish(f, flags, ob, i)
  BY DEF Destruct
<1> HIDE DEF f
<1>4. /\ destructed' \subseteq Objects
      /\ \A o \in destructed' : o \in destructed \/ o = ob
      /\ None \notin All /\ None \notin destructed' /\ flags \in SUBSET All
  BY <1>0, <1>1, UsersAssumption DEF Types, All
<1>5. \A o \in All : o \in flags <=> \E j \in all_users : f[j].snooped_by = o
  BY <1>0, <1>2, <1>4 DEF Snoops, FlagsMatch
<1>6. \A j, k \in all_users :
        f[j].snooped_by = f[k].snooped_by /\ f[j].snooped_by # None => j = k
  BY <1>0, <1>2 DEF Snoops, OneVictim
<1>7. \A j \in all_users : f[j].snooped_by \notin destructed'
  BY <1>0, <1>2, <1>4 DEF Snoops, SnoopersLive
<1> HIDE DEF flags
<1>8. CASE i = None \/ (i \in Ips /\ ip[i].closing)
  <2>1. /\ ip' = f /\ O_SNOOP' = flags
        /\ UNCHANGED <<interactive, all_users, num_user, hung_up>>
    BY <1>3, <1>8 DEF flags
  <2>2. Types'
    BY <1>0, <1>2, <1>4, <2>1 DEF Types
  <2>3. Linked'
    BY <1>0, <1>2, <1>4, <1>8, <2>1 DEF Types, Links, Linked
  <2>4. Owned' /\ Counted'
    BY <1>0, <1>2, <2>1 DEF Types, Links, Owned, Lost, Counted
  <2>5. Snoops'
    BY <1>5, <1>6, <1>7, <2>1 DEF Snoops, FlagsMatch, OneVictim, SnoopersLive
  <2>6. Stack(frames)'
    BY <1>0, <1>1, <1>2, <2>1, StackStays DEF Types
  <2> QED
    BY <2>2, <2>3, <2>4, <2>5, <2>6 DEF IInv, Links
<1>9. CASE ~(i = None \/ (i \in Ips /\ ip[i].closing))
  <2>1. /\ i \in all_users /\ i \in Ips /\ ~ip[i].closing
        /\ interactive[ob] = i
    BY <1>0, <1>9 DEF Types, Links, Linked
  <2>2. Finish(f, flags, ob, i)
    BY <1>3, <1>9
  <2> HIDE DEF i
  <2>3. Types' /\ Links' /\ Snoops'
    <3>1. /\ f \in [Ips -> Interactive] /\ flags \in SUBSET All
          /\ destructed' \subseteq Objects
      BY <1>2, <1>4
    <3>2. \A j \in Ips : f[j].ob = ip[j].ob /\ f[j].closing = ip[j].closing
      BY <1>2
    <3>3. \A o \in destructed' : o \in destructed \/ o = ob
      BY <1>4
    <3> QED
      BY <1>0, <1>5, <1>6, <1>7, <2>1, <2>2, <3>1, <3>2, <3>3, FinishKeeps
  <2>4. Stack(frames)'
    <3>1. /\ all_users' = all_users \ {i}
          /\ \A j \in all_users' : ip'[j].closing = ip[j].closing
          /\ \A o \in All : o # ob => interactive'[o] = interactive[o]
      BY <1>0, <1>2, <2>2 DEF Finish, Types
    <3>2. FramesName(frames)'
      <4> SUFFICES ASSUME NEW k \in DOMAIN frames, Closing(frames[k])
                   PROVE  /\ frames[k].ip \in all_users'
                          /\ ip'[frames[k].ip].closing
                          /\ interactive'[frames[k].ob] = frames[k].ip
        BY <1>1 DEF FramesName, Closing
      <4>1. /\ frames[k].ob \in All /\ frames[k].ip \in all_users
            /\ ip[frames[k].ip].closing
            /\ interactive[frames[k].ob] = frames[k].ip
        BY <1>0, FramedLinks
      <4>2. frames[k].ip # i
        BY <2>1, <4>1
      <4>3. frames[k].ob # ob
        BY <2>1, <4>1, <4>2
      <4> QED
        BY <3>1, <4>1, <4>2, <4>3
    <3>3. ClosingFramed(frames)'
      BY <1>0, <1>1, <3>1 DEF Stack, ClosingFramed, Closing
    <3>4. FramesApart(frames)' /\ ConnectFirst(frames)'
      BY <1>0, <1>1 DEF Stack, FramesApart, ConnectFirst, Closing
    <3> QED
      BY <1>0, <1>1, <3>2, <3>3, <3>4 DEF Stack
  <2> QED
    BY <2>3, <2>4 DEF IInv
<1> QED
  BY <1>8, <1>9

-----------------------------------------------------------------------------
LEMMA InitHasIInv == Init => IInv
<1> SUFFICES ASSUME Init PROVE IInv
  OBVIOUS
<1>1. Types
  BY DEF Init, Types, Fresh, Interactive, All
<1>2. Links
  <2>1. Counted
    BY FS_EmptySet DEF Init, Counted
  <2> QED
    BY <2>1 DEF Init, Links, Linked, Owned
<1>3. Snoops
  BY DEF Init, Snoops, FlagsMatch, OneVictim, SnoopersLive
<1>4. Stack(frames)
  <2>1. <<>> \in Seq(Frame) /\ Len(<<>>) = 0 /\ DOMAIN <<>> = {}
    BY EmptySeq
  <2> QED
    BY <2>1, UsersAssumption
      DEF Init, Stack, FramesName, FramesApart, ClosingFramed, ConnectFirst
<1> QED
  BY <1>1, <1>2, <1>3, <1>4 DEF IInv

(* The invariant is kept by every step.                                    *)
LEMMA StepKeeps == IInv /\ ~ExecDying /\ [Next]_vars => IInv'
<1> SUFFICES ASSUME IInv, ~ExecDying, [Next]_vars PROVE IInv'
  OBVIOUS
<1>1. CASE NewUser \/ ConnectReturns \/ ConnectAborts \/ ConnectFails
           \/ NetDeadReturns
  BY <1>1, NewUserKeeps, ConnectReturnsKeeps, ConnectAbortsKeeps,
     ConnectFailsKeeps, NetDeadReturnsKeeps
<1>2. CASE Lpc
  BY <1>2, NewObjectKeeps, ExecKeeps, SnoopKeeps, SnoopHangsKeeps,
     StopSnoopKeeps, DisconnectKeeps, DestructKeeps DEF Lpc
<1>3. CASE ClientHangsUp
  <2>1. /\ hung_up' \subseteq all_users
        /\ UNCHANGED <<interactive, all_users, ip, O_SNOOP, destructed,
                       num_user, frames>>
    BY <1>3 DEF ClientHangsUp, IInv, Types
  <2>2. Types' /\ Links' /\ Snoops'
    BY <2>1 DEF IInv, Types, Links, Linked, Owned, Lost, Counted, Snoops,
                FlagsMatch, OneVictim, SnoopersLive
  <2>3. Stack(frames)'
    BY <2>1, StackStays DEF IInv
  <2> QED
    BY <2>2, <2>3 DEF IInv
<1>4. ASSUME NEW i \in Ips, ReadFails(i) PROVE IInv'
  BY <1>4, ReadFailsKeeps
<1>5. CASE UNCHANGED vars
  <2>1. Types' /\ Links' /\ Snoops'
    BY <1>5 DEF vars, IInv, Types, Links, Linked, Owned, Lost, Counted, Snoops,
                FlagsMatch, OneVictim, SnoopersLive
  <2>2. Stack(frames)'
    BY <1>5, StackStays DEF IInv, vars
  <2> QED
    BY <2>1, <2>2 DEF IInv
<1> QED
  BY <1>1, <1>2, <1>3, <1>4, <1>5 DEF Next

(* If LPC code never moves a connection that is being closed, every state  *)
(* has the invariant.                                                      *)
THEOREM Invariance == ASSUME ~ExecDying PROVE Spec => []IInv
<1>1. IInv /\ [Next]_vars => IInv'
  BY StepKeeps
<1> QED
  BY InitHasIInv, <1>1, PTL DEF Spec

(* The variables keep their types, the number of users stays between 0 and *)
(* the number of connections, and the stack of frames within its bound.    *)
THEOREM TypeOKHolds == ASSUME ~ExecDying PROVE Spec => []TypeOK
BY Invariance, IInvIsTyped, PTL

(* Objects and connections point to each other and are counted right,      *)
(* whatever net_dead() and connect() do (remove_interactive(),             *)
(* replace_interactive(), new_user_handler()).                             *)
THEOREM LinksAgreeHolds == ASSUME ~ExecDying PROVE Spec => []LinksAgree
BY Invariance, IInvLinks, PTL

(* A flagged snooper snoops one connection, and no destructed object does  *)
(* (new_set_snoop(), destruct_object()), so that query_snooping() does not *)
(* end the driver, provided that no LPC code hands a connection on by      *)
(* exec() inside that connection's own net_dead().  replace_interactive()  *)
(* does not check this: it is asked of the mudlib, and nothing is proved   *)
(* without it.                                                             *)
THEOREM SnoopersSnoopHolds == ASSUME ~ExecDying PROVE Spec => []SnoopersSnoop
BY Invariance, IInvSnoops, PTL

(* net_dead() is called once for each connection that is closed            *)
(* (remove_interactive()).                                                 *)
THEOREM ClosedByOneFrameHolds ==
  ASSUME ~ExecDying PROVE Spec => []ClosedByOneFrame
BY Invariance, IInvClosed, PTL
=============================================================================
