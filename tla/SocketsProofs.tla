----------------------------- MODULE SocketsProofs -----------------------------
(***************************************************************************)
(* For any objects, modes and descriptors, a table that grows by any       *)
(* number of slots, any number of sockets and any depth of C frames: the   *)
(* types of Sockets are kept, descriptors match slots, what waits to be    *)
(* written is polled, and a release is a handshake.                        *)
(***************************************************************************)
EXTENDS Sockets, FiniteSetTheorems, SequenceTheorems, WellFoundedInduction,
        TLAPS

Slot == Socket \union {Closed}
IsClosed(s) == s.state = "CLOSED"

(* Of a table, a stack of frames and a number of sockets made.             *)
Table(socks) ==
  \E n \in 0 .. MaxSockets : socks \in [0 .. Grow * n - 1 -> Slot]

(* No two slots hold the same socket.                                      *)
IdsApart(socks, m) ==
  \A i \in DOMAIN socks : ~IsClosed(socks[i]) =>
    /\ socks[i].id <= m
    /\ \A j \in DOMAIN socks :
         ~IsClosed(socks[j]) /\ socks[i].id = socks[j].id => i = j

Stack(fr, socks, m) ==
  /\ fr \in Seq(Frame)
  /\ \A k \in DOMAIN fr : fr[k].what # "destruct" =>
       fr[k].slot \in DOMAIN socks /\ fr[k].id <= m

Match(socks, fds) ==
  /\ fds = {socks[i].fd : i \in {j \in DOMAIN socks : ~IsClosed(socks[j])}}
  /\ \A i, j \in DOMAIN socks :
       ~IsClosed(socks[i]) /\ ~IsClosed(socks[j]) /\ socks[i].fd = socks[j].fd
         => i = j

Polled(s) ==
  /\ s.state = "FLUSHING" \/ s.w_buf => "BLOCKED" \in s.flags
  /\ s.state = "FLUSHING" => "LINKDEAD" \notin s.flags

(* The frame offers socket s of slot i: its callback has yet to take it.   *)
ReleaseFrame(f, i) == f.what = "release" /\ f.slot = i
Offering(f, i, s) == ReleaseFrame(f, i) /\ f.id = s.id /\ ~f.taken

(* S_RELEASE is set just while a frame offers the socket, and that frame   *)
(* is the last to release anything in this slot: a slot is not released    *)
(* twice, and what a callback puts into the slot it releases itself.       *)
Offers(socks, fr) ==
  \A i \in DOMAIN socks :
    /\ "RELEASE" \in socks[i].flags =>
         \E k \in DOMAIN fr : Offering(fr[k], i, socks[i])
    /\ \A k \in DOMAIN fr : Offering(fr[k], i, socks[i]) =>
         /\ "RELEASE" \in socks[i].flags
         /\ fr[k].to = socks[i].release_ob
         /\ \A l \in DOMAIN fr : ReleaseFrame(fr[l], i) => l <= k

Others ==
  /\ flagged \subseteq Objects
  /\ destructed \subseteq Objects
  /\ pass \in Pass
  /\ os_fds \subseteq Fds
  /\ made \in 0 .. MaxSockets

AllPolled(socks) == \A i \in DOMAIN socks : Polled(socks[i])

Sound(socks, fds, fr, m) ==
  /\ Table(socks)
  /\ IdsApart(socks, m)
  /\ Match(socks, fds)
  /\ AllPolled(socks)
  /\ Stack(fr, socks, m)
  /\ Offers(socks, fr)

IInv == Others /\ Sound(lpc_socks, os_fds, frames, made)

-----------------------------------------------------------------------------
(* What the invariant says.                                                *)
LEMMA SlotIs ==
  ASSUME NEW s \in Slot
  PROVE  /\ IsClosed(s) <=> s = Closed
         /\ IsClosed(s) <=> s \notin Socket
         /\ s.flags \subseteq {"RELEASE", "BLOCKED", "WACCEPT", "LINKDEAD"}
         /\ s.id \in Nat
         /\ IsClosed(s) => s.id = 0 /\ s.flags = {} /\ ~s.w_buf /\ s.fd = NoFd
         /\ ~IsClosed(s) => s.id \in 1 .. MaxSockets /\ s.fd \in Fds
BY SocketsAssumption DEF Slot, Socket, Closed, IsClosed

LEMMA TableIs ==
  ASSUME NEW socks, Table(socks)
  PROVE  /\ DOMAIN socks \subseteq Nat
         /\ socks \in [DOMAIN socks -> Slot]
BY SocketsAssumption DEF Table

LEMMA IInvIsTyped == IInv => TypeOK
<1> SUFFICES ASSUME IInv PROVE TypeOK
  OBVIOUS
<1>1. \E n \in 0 .. MaxSockets :
        lpc_socks \in [0 .. Grow * n - 1 -> Socket \union {Closed}]
  BY DEF IInv, Sound, Table, Slot
<1> QED
  BY <1>1 DEF IInv, Sound, Others, Stack, TypeOK

LEMMA IInvMatches == IInv => FdsMatchSlots
BY DEF IInv, Sound, Match, FdsMatchSlots, IsClosed, Slots

LEMMA IInvPolls == IInv => WritesArePolled
BY DEF IInv, Sound, AllPolled, Polled, WritesArePolled, WantsWrite, Slots

LEMMA IInvReleases == IInv => ReleasesAreHandshakes
<1> SUFFICES ASSUME IInv PROVE ReleasesAreHandshakes
  OBVIOUS
<1>1. ASSUME NEW i \in Slots, "RELEASE" \in lpc_socks[i].flags
      PROVE  \E k \in DOMAIN frames :
               /\ frames[k].what = "release"
               /\ frames[k].slot = i /\ frames[k].id = lpc_socks[i].id
               /\ frames[k].to = lpc_socks[i].release_ob /\ ~frames[k].taken
  BY <1>1 DEF IInv, Sound, Offers, Offering, ReleaseFrame, Slots
<1>2. ASSUME TopIs("release")
      PROVE  /\ Top.taken => Released(Top) = "EESUCCESS"
             /\ ~Top.taken /\ StillThere(Top) => Released(Top) = "EESOCKNOTRLSD"
  <2> DEFINE n == Len(frames)
             i == Top.slot
  <2>1. frames \in Seq(Frame) /\ n \in DOMAIN frames /\ n \in Nat
    BY <1>2, LenProperties, EmptySeq DEF IInv, Sound, Stack, TopIs
  <2>2. ReleaseFrame(frames[n], i) /\ i \in DOMAIN lpc_socks
    BY <1>2, <2>1 DEF IInv, Sound, Stack, TopIs, Top, ReleaseFrame
  <2>3. CASE Top.taken
    <3>1. ~Offering(frames[n], i, lpc_socks[i])
      BY <2>3 DEF Offering, Top
    <3>2. ASSUME NEW k \in DOMAIN frames, Offering(frames[k], i, lpc_socks[i])
          PROVE  FALSE
      <4>1. n <= k
        BY <2>1, <2>2, <3>2 DEF IInv, Sound, Offers
      <4>2. k \in 1 .. n
        BY <2>1, LenProperties
      <4> QED
        BY <2>1, <3>1, <3>2, <4>1, <4>2
    <3> QED
      BY <2>2, <2>3, <3>2 DEF IInv, Sound, Offers, Released
  <2>4. CASE ~Top.taken /\ StillThere(Top)
    <3>1. Offering(frames[n], i, lpc_socks[i])
      BY <2>2, <2>4 DEF Offering, Top, StillThere
    <3> QED
      BY <2>1, <2>2, <2>4, <3>1 DEF IInv, Sound, Offers, Released
  <2> QED
    BY <2>3, <2>4
<1> QED
  BY <1>1, <1>2 DEF ReleasesAreHandshakes

-----------------------------------------------------------------------------
(* Every set of natural numbers that has a member has a least one.         *)
LEMMA LeastNumber ==
  ASSUME NEW T \in SUBSET Nat, T # {}
  PROVE  \E m \in T : \A k \in T : m <= k
<1> DEFINE R == StrictSubsetOrdering(Nat)
           F == FiniteSubsetsOf(Nat)
           V == {0 .. k : k \in T}
<1>1. IsWellFoundedOn(R, F)
  BY FS_StrictSubsetOrderingWellFounded
<1>2. V \subseteq F
  <2> SUFFICES ASSUME NEW k \in T PROVE 0 .. k \in F
    OBVIOUS
  <2>1. k \in Nat /\ IsFiniteSet(0 .. k) /\ 0 .. k \subseteq Nat
    BY FS_Interval
  <2> QED
    BY <2>1 DEF FiniteSubsetsOf
<1>3. V # {}
  OBVIOUS
<1>4. PICK v \in V : \A w \in V : ~(<<w, v>> \in R)
  <2> HIDE DEF R, F, V
  <2> QED
    BY <1>1, <1>2, <1>3, WFMin
<1>5. PICK m \in T : v = 0 .. m
  OBVIOUS
<1>6. ASSUME NEW k \in T PROVE m <= k
  <2> SUFFICES ASSUME ~(m <= k) PROVE FALSE
    OBVIOUS
  <2>1. m \in Nat /\ k \in Nat /\ k < m
    OBVIOUS
  <2>2. /\ 0 .. k \in SUBSET Nat /\ 0 .. m \in SUBSET Nat
        /\ 0 .. k \subseteq 0 .. m /\ 0 .. k # 0 .. m
    BY <2>1
  <2>3. <<0 .. k, 0 .. m>> \in R
    BY <2>2 DEF StrictSubsetOrdering
  <2> QED
    BY <1>4, <1>5, <2>3
<1> QED
  BY <1>6

(* A table in which nothing is closed has fewer slots than sockets may be  *)
(* made: it may still grow.                                                *)
LEMMA FullTable ==
  ASSUME NEW n \in 0 .. MaxSockets, NEW socks \in [0 .. Grow * n - 1 -> Slot],
         NEW m \in 0 .. MaxSockets, m < MaxSockets, IdsApart(socks, m),
         \A i \in DOMAIN socks : ~IsClosed(socks[i])
  PROVE  n < MaxSockets
<1> SUFFICES ASSUME n = MaxSockets PROVE FALSE
  BY SocketsAssumption
<1> DEFINE D == 0 .. Grow * n - 1
           T == 1 .. m
           f == [i \in D |-> socks[i].id]
<1>1. Grow * n \in Nat /\ n <= Grow * n /\ Grow * n - 1 \in Int /\ n \in Nat
  BY SocketsAssumption
<1>2. IsFiniteSet(D) /\ Cardinality(D) = Grow * n
  BY <1>1, FS_Interval
<1>3. IsFiniteSet(T) /\ Cardinality(T) = m
  <2>1. 1 \in Int /\ m \in Int /\ m \in Nat
    BY SocketsAssumption
  <2>2. IsFiniteSet(T) /\ Cardinality(T) = IF 1 > m THEN 0 ELSE m - 1 + 1
    BY <2>1, FS_Interval
  <2> QED
    BY <2>1, <2>2
<1>4. Cardinality(T) < Cardinality(D)
  BY <1>1, <1>2, <1>3, SocketsAssumption
<1>5. f \in [D -> T]
  <2> SUFFICES ASSUME NEW i \in D PROVE socks[i].id \in T
    OBVIOUS
  <2>1. socks[i] \in Slot /\ ~IsClosed(socks[i]) /\ socks[i].id <= m
    BY DEF IdsApart
  <2> QED
    BY <2>1, SlotIs, SocketsAssumption
<1>6. PICK x \in D, y \in D : x # y /\ f[x] = f[y]
  <2> HIDE DEF D, T, f
  <2> QED
    BY <1>2, <1>3, <1>4, <1>5, FS_PigeonHole
<1> QED
  BY <1>6 DEF IdsApart

-----------------------------------------------------------------------------
(* What is done to a table.                                                *)

(* Two tables that differ in what is said neither of descriptors nor of    *)
(* releases: the slots hold the same sockets.                              *)
SameSocket(s, t) ==
  /\ s \in Slot
  /\ IsClosed(s) <=> IsClosed(t)
  /\ s.id = t.id /\ s.fd = t.fd /\ s.release_ob = t.release_ob
  /\ "RELEASE" \in s.flags <=> "RELEASE" \in t.flags

Alike(socks, old) ==
  /\ DOMAIN socks = DOMAIN old
  /\ socks = [i \in DOMAIN old |-> socks[i]]
  /\ \A i \in DOMAIN old : SameSocket(socks[i], old[i])

LEMMA AlikeIsSound ==
  ASSUME NEW old, NEW socks, NEW fds, NEW fr, NEW m,
         Sound(old, fds, fr, m), Alike(socks, old), AllPolled(socks)
  PROVE  Sound(socks, fds, fr, m)
<1>1. Table(socks)
  BY DEF Sound, Table, Alike, SameSocket
<1>2. IdsApart(socks, m)
  BY DEF Sound, IdsApart, Alike, SameSocket
<1>3. Match(socks, fds)
  <2>1. {j \in DOMAIN socks : ~IsClosed(socks[j])}
          = {j \in DOMAIN old : ~IsClosed(old[j])}
    BY DEF Alike, SameSocket
  <2>2. \A i \in DOMAIN old : socks[i].fd = old[i].fd
    BY DEF Alike, SameSocket
  <2> QED
    BY <2>1, <2>2 DEF Sound, Match, Alike, SameSocket
<1>4. Stack(fr, socks, m)
  BY DEF Sound, Stack, Alike
<1>5. Offers(socks, fr)
  BY DEF Sound, Offers, Offering, Alike, SameSocket
<1> QED
  BY <1>1, <1>2, <1>3, <1>4, <1>5 DEF Sound

(* CloseSlots() on a table that holds the sockets that lpc_socks does: a   *)
(* slot that is to be closed may have had its flags changed before.        *)
ClosedTable(S, socks) ==
  [i \in DOMAIN socks |-> IF i \in S THEN Rest(socks[i]) ELSE socks[i]]
ClosedFds(S, socks, fds) ==
  fds \ {socks[i].fd : i \in {j \in S : Rest(socks[j]).state = "CLOSED"}}

LEMMA RestOf ==
  ASSUME NEW s \in Slot
  PROVE  /\ Rest(s) \in Slot
         /\ Polled(Rest(s))
         /\ Rest(s) # Closed => SameSocket(Rest(s), s)
         /\ IsClosed(Rest(s)) <=> Rest(s) = Closed
         /\ IsClosed(s) => Rest(s) = Closed
<1>1. CASE s = Closed
  BY <1>1 DEF Rest, Closed, Polled, Slot, IsClosed
<1>2. CASE s \in Socket
  <2>1. CASE "BLOCKED" \in s.flags /\ "LINKDEAD" \notin s.flags
    <3> DEFINE r == [s EXCEPT !.state = "FLUSHING", !.close_callback = FALSE]
    <3>1. Rest(s) = r
      BY <2>1 DEF Rest
    <3>2. r \in Socket
      BY <1>2 DEF Socket
    <3>3. /\ r.flags = s.flags /\ r.state = "FLUSHING" /\ r.id = s.id
          /\ r.fd = s.fd /\ r.release_ob = s.release_ob
      BY <1>2 DEF Socket
    <3>4. ~IsClosed(s) /\ ~IsClosed(r) /\ r # Closed
      BY <1>2, <3>2, <3>3, SlotIs DEF Slot, IsClosed
    <3> HIDE DEF r
    <3> QED
      BY <2>1, <3>1, <3>2, <3>3, <3>4 DEF Polled, Slot, SameSocket
  <2>2. CASE ~("BLOCKED" \in s.flags /\ "LINKDEAD" \notin s.flags)
    <3>1. Rest(s) = Closed
      BY <2>2 DEF Rest
    <3>2. ~IsClosed(s)
      BY <1>2, SlotIs
    <3> QED
      BY <3>1, <3>2 DEF Closed, Polled, Slot, IsClosed
  <2> QED
    BY <2>1, <2>2
<1> QED
  BY <1>1, <1>2 DEF Slot

LEMMA ClosingIsSound ==
  ASSUME NEW old, NEW socks, NEW fds, NEW fr, NEW m, NEW S,
         Sound(old, fds, fr, m), Alike(socks, old), S \subseteq DOMAIN old,
         \A i \in DOMAIN old \ S : Polled(socks[i])
  PROVE  Sound(ClosedTable(S, socks), ClosedFds(S, socks, fds), fr, m)
<1> DEFINE new == ClosedTable(S, socks)
           nfds == ClosedFds(S, socks, fds)
<1>1. /\ DOMAIN new = DOMAIN old
      /\ DOMAIN socks = DOMAIN old
      /\ new = [i \in DOMAIN old |-> new[i]]
  BY DEF Alike, ClosedTable
<1>2. \A i \in DOMAIN old :
        new[i] = IF i \in S THEN Rest(socks[i]) ELSE socks[i]
  BY DEF Alike, ClosedTable
<1>3. \A i \in DOMAIN old : old[i] \in Slot /\ socks[i] \in Slot
  BY TableIs DEF Sound, Alike, SameSocket
<1>4. ASSUME NEW i \in DOMAIN old
      PROVE  /\ new[i] \in Slot
             /\ Polled(new[i])
             /\ new[i] # Closed => SameSocket(new[i], old[i])
             /\ IsClosed(new[i]) <=> new[i] = Closed
             /\ IsClosed(old[i]) => new[i] = Closed
  <2>1. SameSocket(socks[i], old[i]) /\ (IsClosed(socks[i]) => socks[i] = Closed)
    BY <1>3, SlotIs DEF Alike
  <2>2. CASE i \in S
    <3>1. new[i] = Rest(socks[i])
      BY <1>2, <2>2
    <3> QED
      BY <1>3, <2>1, <3>1, RestOf DEF SameSocket
  <2>3. CASE i \notin S
    <3>1. new[i] = socks[i] /\ Polled(socks[i])
      BY <1>2, <2>3
    <3> QED
      BY <1>3, <2>1, <3>1, SlotIs DEF SameSocket
  <2> QED
    BY <2>2, <2>3
<1> HIDE DEF new
<1>5. Table(new)
  BY <1>1, <1>4 DEF Sound, Table
<1>6. IdsApart(new, m)
  <2>1. \A i \in DOMAIN old : ~IsClosed(new[i]) =>
          ~IsClosed(old[i]) /\ new[i].id = old[i].id
    BY <1>4 DEF SameSocket, IsClosed, Closed
  <2> QED
    BY <1>1, <2>1 DEF Sound, IdsApart
<1>7. Match(new, nfds)
  <2>1. \A i \in DOMAIN old : ~IsClosed(new[i]) =>
          ~IsClosed(old[i]) /\ new[i].fd = old[i].fd
    BY <1>4 DEF SameSocket, IsClosed, Closed
  <2>2. \A i \in DOMAIN old : socks[i].fd = old[i].fd
    BY DEF Alike, SameSocket
  <2>3. \A i \in DOMAIN old : ~IsClosed(old[i]) /\ IsClosed(new[i]) => i \in S
    BY <1>2 DEF Alike, SameSocket
  <2>4. \A i \in S : Rest(socks[i]).state = "CLOSED" <=> IsClosed(new[i])
    BY <1>2 DEF IsClosed
  <2>5. \A i \in DOMAIN old : IsClosed(old[i]) => old[i].fd = NoFd
    BY <1>3, SlotIs
  <2>6. \A i \in DOMAIN old : ~IsClosed(old[i]) => old[i].fd # NoFd
    BY <1>3, SlotIs, SocketsAssumption
  <2>7. nfds = {new[i].fd : i \in {j \in DOMAIN new : ~IsClosed(new[j])}}
    <3>1. ASSUME NEW x \in nfds
          PROVE  \E j \in DOMAIN new : ~IsClosed(new[j]) /\ x = new[j].fd
      <4>1. PICK j \in DOMAIN old : ~IsClosed(old[j]) /\ x = old[j].fd
        BY DEF ClosedFds, Sound, Match
      <4>2. ~IsClosed(new[j])
        BY <2>2, <2>3, <2>4, <4>1 DEF ClosedFds
      <4> QED
        BY <1>1, <2>1, <4>1, <4>2
    <3>2. ASSUME NEW j \in DOMAIN new, ~IsClosed(new[j])
          PROVE  new[j].fd \in nfds
      <4>1. new[j].fd = old[j].fd /\ ~IsClosed(old[j]) /\ j \in DOMAIN old
        BY <1>1, <2>1, <3>2
      <4>2. old[j].fd \in fds
        BY <4>1 DEF Sound, Match
      <4>3. ASSUME NEW i \in S, Rest(socks[i]).state = "CLOSED"
            PROVE  socks[i].fd # old[j].fd
        <5>1. socks[i].fd = old[i].fd /\ IsClosed(new[i]) /\ i # j
          BY <2>2, <2>4, <3>2, <4>3
        <5>2. IsClosed(old[i]) \/ old[i].fd # old[j].fd
          BY <4>1, <5>1 DEF Sound, Match
        <5> QED
          BY <2>5, <2>6, <4>1, <5>1, <5>2
      <4> QED
        BY <4>1, <4>2, <4>3 DEF ClosedFds
    <3> HIDE DEF nfds
    <3> QED
      BY <3>1, <3>2
  <2> HIDE DEF nfds
  <2> QED
    BY <1>1, <2>1, <2>7 DEF Sound, Match
<1>8. AllPolled(new)
  BY <1>1, <1>4 DEF AllPolled
<1>9. Stack(fr, new, m)
  BY <1>1 DEF Sound, Stack
<1>10. Offers(new, fr)
  <2> SUFFICES ASSUME NEW i \in DOMAIN old
               PROVE  /\ "RELEASE" \in new[i].flags =>
                           \E k \in DOMAIN fr : Offering(fr[k], i, new[i])
                      /\ \A k \in DOMAIN fr : Offering(fr[k], i, new[i]) =>
                           /\ "RELEASE" \in new[i].flags
                           /\ fr[k].to = new[i].release_ob
                           /\ \A l \in DOMAIN fr :
                                ReleaseFrame(fr[l], i) => l <= k
    BY <1>1 DEF Offers
  <2>1. CASE new[i] = Closed
    <3>1. "RELEASE" \notin new[i].flags /\ new[i].id = 0
      BY <2>1 DEF Closed
    <3>2. \A k \in DOMAIN fr : fr[k] \in Frame
      BY ElementOfSeq, LenProperties DEF Sound, Stack
    <3>3. \A k \in DOMAIN fr : fr[k].what = "release" => fr[k].id # 0
      BY <3>2, SocketsAssumption DEF Frame
    <3> QED
      BY <3>1, <3>3 DEF Offering, ReleaseFrame
  <2>2. CASE new[i] # Closed
    <3>1. SameSocket(new[i], old[i])
      BY <1>4, <2>2
    <3> QED
      BY <3>1 DEF Sound, Offers, Offering, SameSocket
  <2> QED
    BY <2>1, <2>2
<1> QED
  BY <1>5, <1>6, <1>7, <1>8, <1>9, <1>10 DEF Sound, new

(* The table after find_new_socket() has grown it, or not.                 *)
Grown(new, old) ==
  /\ DOMAIN old \subseteq DOMAIN new
  /\ \A i \in DOMAIN new :
       new[i] = IF i \in DOMAIN old THEN old[i] ELSE Closed

LEMMA RoomyIsTable ==
  ASSUME NEW m \in 0 .. MaxSockets, m < MaxSockets, NEW socks, Table(socks),
         IdsApart(socks, m), DOMAIN socks = Slots
  PROVE  /\ Table(Roomy(socks))
         /\ Grown(Roomy(socks), socks)
         /\ FreeSlot(socks) \in DOMAIN Roomy(socks)
         /\ IsClosed(Roomy(socks)[FreeSlot(socks)])
<1> DEFINE new == Roomy(socks)
           C == {i \in DOMAIN new : IsClosed(new[i])}
<1>1. PICK n \in 0 .. MaxSockets : socks \in [0 .. Grow * n - 1 -> Slot]
  BY DEF Table
<1>2. n \in Nat /\ Grow * n \in Nat /\ Grow * (n + 1) = Grow * n + Grow
  BY SocketsAssumption
<1>3. Table(new) /\ Grown(new, socks) /\ C # {}
  <2>1. CASE \E i \in Slots : socks[i].state = "CLOSED"
    <3>1. new = socks
      BY <2>1 DEF Roomy
    <3> QED
      BY <2>1, <3>1 DEF Grown, IsClosed
  <2>2. CASE ~\E i \in Slots : socks[i].state = "CLOSED"
    <3>1. new = [i \in 0 .. Cardinality(Slots) + Grow - 1 |->
                   IF i \in Slots THEN socks[i] ELSE Closed]
      BY <2>2 DEF Roomy
    <3>2. Slots = 0 .. Grow * n - 1
      BY <1>1
    <3>3. Cardinality(Slots) = Grow * n
      BY <1>2, <3>2, FS_Interval
    <3>4. n < MaxSockets
      BY <1>1, <2>2, FullTable DEF IsClosed
    <3>5. DOMAIN new = 0 .. Grow * (n + 1) - 1
      BY <1>2, <3>1, <3>3, SocketsAssumption
    <3>6. new \in [0 .. Grow * (n + 1) - 1 -> Slot]
      BY <1>1, <3>1, <3>2, <3>5 DEF Slot
    <3>7. n + 1 \in 0 .. MaxSockets
      BY <1>2, <3>4, SocketsAssumption
    <3>8. Grow * n \in DOMAIN new /\ Grow * n \notin Slots
      BY <1>2, <3>2, <3>5, SocketsAssumption
    <3>9. \A i \in Slots : i \in DOMAIN new
      BY <1>2, <3>2, <3>5, SocketsAssumption
    <3>10. IsClosed(new[Grow * n])
      BY <3>1, <3>8 DEF IsClosed, Closed
    <3>11. Grown(new, socks)
      BY <3>1, <3>9 DEF Grown
    <3> HIDE DEF new
    <3> QED
      BY <3>6, <3>7, <3>8, <3>10, <3>11 DEF Table
  <2> QED
    BY <2>1, <2>2
<1>4. DOMAIN new \subseteq Nat
  BY <1>3, TableIs
<1>5. PICK i \in C : \A k \in C : i <= k
  <2> HIDE DEF new
  <2>1. C \in SUBSET Nat
    BY <1>4
  <2> HIDE DEF C
  <2> QED
    BY <1>3, <2>1, LeastNumber
<1>6. /\ new[i].state = "CLOSED"
      /\ \A j \in 0 .. i - 1 : new[j].state # "CLOSED"
  <2>1. i \in Nat /\ i \in DOMAIN new /\ new[i].state = "CLOSED"
    BY <1>4 DEF IsClosed
  <2>2. ASSUME NEW j \in 0 .. i - 1 PROVE j \in DOMAIN new
    <3>1. PICK p \in 0 .. MaxSockets : new \in [0 .. Grow * p - 1 -> Slot]
      BY <1>3 DEF Table
    <3>2. Grow * p \in Nat
      BY SocketsAssumption
    <3> HIDE DEF new
    <3> QED
      BY <2>1, <3>1, <3>2
  <2>3. ASSUME NEW j \in 0 .. i - 1 PROVE new[j].state # "CLOSED"
    <3>1. j < i /\ j \in Nat
      BY <2>1
    <3>2. j \notin C
      BY <1>5, <2>1, <3>1
    <3> QED
      BY <2>2, <3>2 DEF IsClosed
  <2> QED
    BY <2>1, <2>3
<1>7. /\ FreeSlot(socks) \in DOMAIN new
      /\ new[FreeSlot(socks)].state = "CLOSED"
  <2> HIDE DEF C
  <2>1. \E k \in DOMAIN Roomy(socks) :
          /\ Roomy(socks)[k].state = "CLOSED"
          /\ \A j \in 0 .. k - 1 : Roomy(socks)[j].state # "CLOSED"
    <3>1. i \in DOMAIN Roomy(socks)
      BY DEF C
    <3> QED
      BY <1>6, <3>1
  <2> QED
    BY <2>1 DEF FreeSlot
<1> QED
  BY <1>3, <1>7 DEF IsClosed

LEMMA GrownIsSound ==
  ASSUME NEW old, NEW new, NEW fds, NEW fr, NEW m,
         Sound(old, fds, fr, m), Table(new), Grown(new, old)
  PROVE  Sound(new, fds, fr, m)
<1>1. \A i \in DOMAIN new : i \notin DOMAIN old => new[i] = Closed
  BY DEF Grown
<1>2. \A i \in DOMAIN old : i \in DOMAIN new /\ new[i] = old[i]
  BY DEF Grown
<1>3. \A i \in DOMAIN new : ~IsClosed(new[i]) => i \in DOMAIN old
  BY <1>1 DEF IsClosed, Closed
<1>4. IdsApart(new, m)
  BY <1>2, <1>3 DEF Sound, IdsApart
<1>5. Match(new, fds)
  BY <1>2, <1>3 DEF Sound, Match
<1>6. AllPolled(new)
  <2>1. Polled(Closed)
    BY DEF Polled, Closed
  <2> QED
    BY <1>1, <1>2, <2>1 DEF Sound, AllPolled
<1>7. Stack(fr, new, m)
  BY <1>2 DEF Sound, Stack
<1>8. Offers(new, fr)
  <2>1. ASSUME NEW i \in DOMAIN new, i \notin DOMAIN old
        PROVE  /\ "RELEASE" \notin new[i].flags
               /\ \A k \in DOMAIN fr : ~Offering(fr[k], i, new[i])
    <3>1. new[i] = Closed
      BY <1>1, <2>1
    <3>2. \A k \in DOMAIN fr : ~ReleaseFrame(fr[k], i)
      BY <2>1 DEF Sound, Stack, ReleaseFrame
    <3> QED
      BY <3>1, <3>2 DEF Closed, Offering
  <2> QED
    BY <1>2, <2>1 DEF Sound, Offers
<1> QED
  BY <1>4, <1>5, <1>6, <1>7, <1>8 DEF Sound

(* A new socket in a closed slot.                                          *)
LEMMA PutIsSound ==
  ASSUME NEW old, NEW fds, NEW fr, NEW m \in Nat,
         Sound(old, fds, fr, m), NEW i \in DOMAIN old, IsClosed(old[i]),
         NEW s \in Socket, s.id = m + 1, s.fd \notin fds,
         "RELEASE" \notin s.flags, Polled(s)
  PROVE  Sound([old EXCEPT ![i] = s], fds \union {s.fd}, fr, m + 1)
<1> DEFINE new == [old EXCEPT ![i] = s]
<1>1. /\ old \in [DOMAIN old -> Slot]
      /\ DOMAIN new = DOMAIN old
      /\ new[i] = s /\ ~IsClosed(s)
      /\ \A j \in DOMAIN old : j # i => new[j] = old[j]
  <2>1. old \in [DOMAIN old -> Slot]
    BY TableIs DEF Sound
  <2>2. ~IsClosed(s)
    BY SlotIs DEF Slot
  <2> QED
    BY <2>1, <2>2
<1>2. Table(new)
  BY DEF Sound, Table, Slot
<1> HIDE DEF new
<1>3. \A j \in DOMAIN old : old[j].id \in Nat
  BY <1>1, SlotIs
<1>4. IdsApart(new, m + 1)
  <2>1. \A j \in DOMAIN old : ~IsClosed(old[j]) =>
          old[j].id <= m + 1 /\ old[j].id # m + 1
    BY <1>3 DEF Sound, IdsApart
  <2> SUFFICES ASSUME NEW j \in DOMAIN old, ~IsClosed(new[j])
               PROVE  /\ new[j].id <= m + 1
                      /\ \A k \in DOMAIN old :
                           ~IsClosed(new[k]) /\ new[j].id = new[k].id => j = k
    BY <1>1 DEF IdsApart
  <2>2. new[j].id <= m + 1
    BY <1>1, <2>1
  <2>3. ASSUME NEW k \in DOMAIN old, ~IsClosed(new[k]), new[j].id = new[k].id
        PROVE  j = k
    BY <1>1, <2>1, <2>3 DEF Sound, IdsApart
  <2> QED
    BY <2>2, <2>3
<1>5. Match(new, fds \union {s.fd})
  <2> DEFINE T(socks) == {j \in DOMAIN socks : ~IsClosed(socks[j])}
  <2>1. T(new) = T(old) \union {i} /\ i \notin T(old)
    BY <1>1
  <2>2. \A j \in T(old) : new[j].fd = old[j].fd /\ old[j].fd # s.fd
    BY <1>1 DEF Sound, Match
  <2>3. fds = {old[j].fd : j \in T(old)}
    BY DEF Sound, Match
  <2>4. {new[j].fd : j \in T(new)} = fds \union {s.fd}
    <3> HIDE DEF T
    <3> QED
      BY <1>1, <2>1, <2>2, <2>3
  <2>5. \A j, k \in T(new) : new[j].fd = new[k].fd => j = k
    <3>1. \A j, k \in T(old) : old[j].fd = old[k].fd => j = k
      BY DEF Sound, Match
    <3> HIDE DEF T
    <3> QED
      BY <1>1, <2>1, <2>2, <3>1
  <2> QED
    BY <2>4, <2>5 DEF Match
<1>6. AllPolled(new)
  BY <1>1 DEF Sound, AllPolled
<1>7. Stack(fr, new, m + 1)
  <2>1. \A k \in DOMAIN fr : fr[k].what # "destruct" => fr[k].id \in Nat
    <3>1. \A k \in DOMAIN fr : fr[k] \in Frame
      BY ElementOfSeq, LenProperties DEF Sound, Stack
    <3> QED
      BY <3>1, SocketsAssumption DEF Frame
  <2> QED
    BY <1>1, <2>1 DEF Sound, Stack
<1>8. Offers(new, fr)
  <2>1. \A k \in DOMAIN fr : ~Offering(fr[k], i, s)
    BY DEF Sound, Stack, Offering, ReleaseFrame
  <2> QED
    BY <1>1, <2>1 DEF Sound, Offers
<1> QED
  BY <1>2, <1>4, <1>5, <1>6, <1>7, <1>8 DEF Sound, new

(* One slot is altered, and goes on holding its socket.                    *)
LEMMA AlteredIsAlike ==
  ASSUME NEW old, Table(old), NEW i \in DOMAIN old, ~IsClosed(old[i]),
         NEW s \in Socket, SameSocket(s, old[i])
  PROVE  Alike([old EXCEPT ![i] = s], old)
<1>1. old \in [DOMAIN old -> Slot]
  BY TableIs
<1>2. ASSUME NEW j \in DOMAIN old PROVE SameSocket(old[j], old[j])
  BY <1>1, <1>2 DEF SameSocket
<1> QED
  BY <1>1, <1>2 DEF Alike

LEMMA AlteredIsSound ==
  ASSUME NEW old, NEW fds, NEW fr, NEW m, Sound(old, fds, fr, m),
         NEW i \in DOMAIN old, ~IsClosed(old[i]),
         NEW s \in Socket, SameSocket(s, old[i]), Polled(s)
  PROVE  Sound([old EXCEPT ![i] = s], fds, fr, m)
<1> DEFINE new == [old EXCEPT ![i] = s]
<1>1. Table(old) /\ old \in [DOMAIN old -> Slot]
  BY TableIs DEF Sound
<1>2. Alike(new, old)
  BY <1>1, AlteredIsAlike
<1>3. AllPolled(new)
  BY <1>1 DEF Sound, AllPolled
<1> HIDE DEF new
<1>4. Sound(new, fds, fr, m)
  BY <1>2, <1>3, AlikeIsSound
<1> QED
  BY <1>4 DEF new

-----------------------------------------------------------------------------
(* What is done to the stack.                                              *)
LEMMA PushIsSound ==
  ASSUME NEW socks, NEW fds, NEW fr, NEW m, Sound(socks, fds, fr, m),
         NEW f \in Frame, f.what # "release",
         f.what # "destruct" => f.slot \in DOMAIN socks /\ f.id <= m
  PROVE  Sound(socks, fds, Append(fr, f), m)
<1> DEFINE new == Append(fr, f)
<1>1. fr \in Seq(Frame) /\ Len(fr) \in Nat
  BY LenProperties DEF Sound, Stack
<1>2. /\ new \in Seq(Frame)
      /\ DOMAIN new = DOMAIN fr \union {Len(fr) + 1}
      /\ DOMAIN fr = 1 .. Len(fr)
      /\ \A k \in DOMAIN fr : new[k] = fr[k]
      /\ new[Len(fr) + 1] = f
  BY <1>1, AppendProperties, LenProperties
<1> HIDE DEF new
<1>3. Stack(new, socks, m)
  BY <1>2 DEF Sound, Stack
<1>4. Offers(socks, new)
  <2>1. \A i \in DOMAIN socks : ~ReleaseFrame(f, i)
    BY DEF ReleaseFrame
  <2> QED
    BY <1>2, <2>1 DEF Sound, Offers, Offering
<1> QED
  BY <1>3, <1>4 DEF Sound, new

LEMMA PopIsSound ==
  ASSUME NEW socks, NEW fds, NEW fr, NEW m, Sound(socks, fds, fr, m),
         fr # <<>>,
         \A i \in DOMAIN socks : ~Offering(fr[Len(fr)], i, socks[i])
  PROVE  Sound(socks, fds, SubSeq(fr, 1, Len(fr) - 1), m)
<1> DEFINE new == SubSeq(fr, 1, Len(fr) - 1)
           n == Len(fr)
<1>1. fr \in Seq(Frame) /\ n \in Nat /\ n # 0 /\ DOMAIN fr = 1 .. n
  BY LenProperties, EmptySeq DEF Sound, Stack
<1>2. new \in Seq(Frame) /\ DOMAIN new = 1 .. n - 1
      /\ \A k \in 1 .. n - 1 : new[k] = fr[k]
  BY <1>1, SubSeqProperties
<1>3. \A k \in DOMAIN new : k \in DOMAIN fr /\ new[k] = fr[k]
  BY <1>1, <1>2
<1>4. \A k \in DOMAIN fr : k \in DOMAIN new \/ k = n
  BY <1>1, <1>2
<1> HIDE DEF new, n
<1>5. Stack(new, socks, m)
  BY <1>2, <1>3 DEF Sound, Stack
<1>6. Offers(socks, new)
  BY <1>3, <1>4 DEF Sound, Offers, n
<1> QED
  BY <1>5, <1>6 DEF Sound, new

(* Only S_RELEASE and release_ob of one slot change.                       *)
SameButRelease(s, t) ==
  /\ s \in Socket /\ ~IsClosed(t)
  /\ s.id = t.id /\ s.fd = t.fd /\ Polled(s)

LEMMA ReleaseTable ==
  ASSUME NEW old, NEW fds, NEW fr, NEW m, Sound(old, fds, fr, m),
         NEW i \in DOMAIN old, NEW s, SameButRelease(s, old[i])
  PROVE  LET new == [old EXCEPT ![i] = s] IN
         /\ DOMAIN new = DOMAIN old
         /\ new[i] = s
         /\ \A j \in DOMAIN old : j # i => new[j] = old[j]
         /\ Table(new) /\ IdsApart(new, m) /\ Match(new, fds)
         /\ AllPolled(new)
<1> DEFINE new == [old EXCEPT ![i] = s]
<1>1. /\ old \in [DOMAIN old -> Slot]
      /\ DOMAIN new = DOMAIN old
      /\ new[i] = s
      /\ \A j \in DOMAIN old : j # i => new[j] = old[j]
  BY TableIs DEF Sound
<1>2. Table(new)
  BY DEF Sound, Table, Slot, SameButRelease
<1>3. ~IsClosed(s) /\ ~IsClosed(old[i]) /\ s.id = old[i].id
      /\ s.fd = old[i].fd /\ Polled(s)
  BY SlotIs DEF SameButRelease, Slot
<1> HIDE DEF new
<1>4. \A j \in DOMAIN old : /\ IsClosed(new[j]) <=> IsClosed(old[j])
                           /\ new[j].id = old[j].id /\ new[j].fd = old[j].fd
  BY <1>1, <1>3
<1>5. IdsApart(new, m)
  BY <1>1, <1>4 DEF Sound, IdsApart
<1>6. Match(new, fds)
  <2>1. {j \in DOMAIN new : ~IsClosed(new[j])}
          = {j \in DOMAIN old : ~IsClosed(old[j])}
    BY <1>1, <1>4
  <2> QED
    BY <1>1, <1>4, <2>1 DEF Sound, Match
<1>7. AllPolled(new)
  BY <1>1, <1>3 DEF Sound, AllPolled
<1> QED
  BY <1>1, <1>2, <1>5, <1>6, <1>7 DEF new

LEMMA ReleasingIsSound ==
  ASSUME NEW old, NEW fds, NEW fr, NEW m, Sound(old, fds, fr, m),
         NEW i \in DOMAIN old, "RELEASE" \notin old[i].flags,
         NEW s, SameButRelease(s, old[i]), "RELEASE" \in s.flags,
         NEW f \in Frame, Offering(f, i, s), f.to = s.release_ob
  PROVE  Sound([old EXCEPT ![i] = s], fds, Append(fr, f), m)
<1> DEFINE new == [old EXCEPT ![i] = s]
           nfr == Append(fr, f)
           n == Len(fr) + 1
<1>1. fr \in Seq(Frame) /\ Len(fr) \in Nat
  BY LenProperties DEF Sound, Stack
<1>2. /\ nfr \in Seq(Frame)
      /\ DOMAIN nfr = DOMAIN fr \union {n}
      /\ DOMAIN fr = 1 .. Len(fr)
      /\ \A k \in DOMAIN fr : nfr[k] = fr[k]
      /\ nfr[n] = f
  BY <1>1, AppendProperties, LenProperties
<1>3. \A k \in DOMAIN nfr : k <= n
  BY <1>1, <1>2
<1>4. /\ DOMAIN new = DOMAIN old
      /\ new[i] = s
      /\ \A j \in DOMAIN old : j # i => new[j] = old[j]
      /\ Table(new) /\ IdsApart(new, m) /\ Match(new, fds)
      /\ AllPolled(new)
  BY ReleaseTable
<1>5. f.slot = i /\ f.id = s.id /\ s.id = old[i].id /\ ~IsClosed(old[i])
  BY DEF Offering, ReleaseFrame, SameButRelease
<1>6. f.id <= m
  BY <1>5 DEF Sound, IdsApart
<1> HIDE DEF new, nfr, n
<1>7. Stack(nfr, new, m)
  BY <1>2, <1>4, <1>5, <1>6 DEF Sound, Stack
<1>8. Offers(new, nfr)
  <2>1. \A k \in DOMAIN fr : ~Offering(fr[k], i, old[i])
    BY DEF Sound, Offers
  <2>2. \A k \in DOMAIN fr : ~Offering(nfr[k], i, s)
    BY <1>2, <1>5, <2>1 DEF Offering
  <2>3. \A j \in DOMAIN old : j # i => ~ReleaseFrame(f, j)
    BY <1>5 DEF ReleaseFrame
  <2> SUFFICES ASSUME NEW j \in DOMAIN old
               PROVE  /\ "RELEASE" \in new[j].flags =>
                           \E k \in DOMAIN nfr : Offering(nfr[k], j, new[j])
                      /\ \A k \in DOMAIN nfr : Offering(nfr[k], j, new[j]) =>
                           /\ "RELEASE" \in new[j].flags
                           /\ nfr[k].to = new[j].release_ob
                           /\ \A l \in DOMAIN nfr :
                                ReleaseFrame(nfr[l], j) => l <= k
    BY <1>4 DEF Offers
  <2>4. CASE j = i
    <3>1. \A k \in DOMAIN nfr : Offering(nfr[k], i, s) => k = n
      BY <1>2, <2>2
    <3> QED
      BY <1>2, <1>3, <1>4, <2>4, <3>1
  <2>5. CASE j # i
    <3>1. new[j] = old[j] /\ ~ReleaseFrame(f, j)
      BY <1>4, <2>3, <2>5
    <3> QED
      BY <1>2, <3>1 DEF Sound, Offers, Offering
  <2> QED
    BY <2>4, <2>5
<1> QED
  BY <1>4, <1>7, <1>8 DEF Sound, new, nfr

(* The callback of a release returns, and takes back what is on offer.     *)
LEMMA WithdrawingIsSound ==
  ASSUME NEW old, NEW fds, NEW fr, NEW m, Sound(old, fds, fr, m),
         NEW i \in DOMAIN old, "RELEASE" \in old[i].flags,
         NEW s, SameButRelease(s, old[i]), "RELEASE" \notin s.flags,
         fr # <<>>, ReleaseFrame(fr[Len(fr)], i)
  PROVE  Sound([old EXCEPT ![i] = s], fds, SubSeq(fr, 1, Len(fr) - 1), m)
<1> DEFINE new == [old EXCEPT ![i] = s]
           nfr == SubSeq(fr, 1, Len(fr) - 1)
           n == Len(fr)
<1>1. fr \in Seq(Frame) /\ n \in Nat /\ n # 0 /\ DOMAIN fr = 1 .. n
  BY LenProperties, EmptySeq DEF Sound, Stack
<1>2. nfr \in Seq(Frame) /\ DOMAIN nfr = 1 .. n - 1
      /\ \A k \in 1 .. n - 1 : nfr[k] = fr[k]
  BY <1>1, SubSeqProperties
<1>3. \A k \in DOMAIN nfr : k \in DOMAIN fr /\ nfr[k] = fr[k] /\ ~(n <= k)
  BY <1>1, <1>2
<1>4. \A k \in DOMAIN fr : k \in DOMAIN nfr \/ k = n
  BY <1>1, <1>2
<1>5. /\ DOMAIN new = DOMAIN old
      /\ new[i] = s
      /\ \A j \in DOMAIN old : j # i => new[j] = old[j]
      /\ Table(new) /\ IdsApart(new, m) /\ Match(new, fds)
      /\ AllPolled(new)
  BY ReleaseTable
<1>6. n \in DOMAIN fr /\ fr[n].slot = i /\ s.id = old[i].id
  BY <1>1 DEF ReleaseFrame, SameButRelease
<1> HIDE DEF new, nfr
<1>7. Stack(nfr, new, m)
  BY <1>2, <1>3, <1>5 DEF Sound, Stack
<1>8. Offers(new, nfr)
  <2>1. \A k \in DOMAIN nfr : ~Offering(fr[k], i, old[i])
    BY <1>3, <1>6 DEF Sound, Offers
  <2>2. \A k \in DOMAIN nfr : ~Offering(nfr[k], i, s)
    BY <1>3, <1>6, <2>1 DEF Offering
  <2>3. \A j \in DOMAIN old : j # i => ~Offering(fr[n], j, old[j])
    BY <1>6 DEF Offering, ReleaseFrame
  <2> HIDE DEF n
  <2> SUFFICES ASSUME NEW j \in DOMAIN old
               PROVE  /\ "RELEASE" \in new[j].flags =>
                           \E k \in DOMAIN nfr : Offering(nfr[k], j, new[j])
                      /\ \A k \in DOMAIN nfr : Offering(nfr[k], j, new[j]) =>
                           /\ "RELEASE" \in new[j].flags
                           /\ nfr[k].to = new[j].release_ob
                           /\ \A l \in DOMAIN nfr :
                                ReleaseFrame(nfr[l], j) => l <= k
    BY <1>5 DEF Offers
  <2>4. CASE j = i
    BY <1>5, <2>2, <2>4
  <2>5. CASE j # i
    <3>1. new[j] = old[j]
      BY <1>5, <2>5
    <3> QED
      BY <1>3, <1>4, <2>3, <2>5, <3>1 DEF Sound, Offers
  <2> QED
    BY <2>4, <2>5
<1> QED
  BY <1>5, <1>7, <1>8 DEF Sound, new, nfr

(* The socket is taken: its frame knows, and it is on offer no more.       *)
TakenBy(f, id) ==
  IF f.what = "release" /\ f.id = id THEN [f EXCEPT !.taken = TRUE] ELSE f

LEMMA TakingIsSound ==
  ASSUME NEW old, NEW fds, NEW fr, NEW m, Sound(old, fds, fr, m),
         NEW i \in DOMAIN old,
         NEW s, SameButRelease(s, old[i]), "RELEASE" \notin s.flags
  PROVE  Sound([old EXCEPT ![i] = s], fds,
               [k \in DOMAIN fr |-> TakenBy(fr[k], old[i].id)], m)
<1> DEFINE new == [old EXCEPT ![i] = s]
           id == old[i].id
           nfr == [k \in DOMAIN fr |-> TakenBy(fr[k], id)]
<1>1. /\ DOMAIN new = DOMAIN old
      /\ new[i] = s
      /\ \A j \in DOMAIN old : j # i => new[j] = old[j]
      /\ Table(new) /\ IdsApart(new, m) /\ Match(new, fds)
      /\ AllPolled(new)
  BY ReleaseTable
<1>2. /\ s.id = id /\ ~IsClosed(old[i])
      /\ \A j \in DOMAIN old : j # i /\ ~IsClosed(old[j]) => old[j].id # id
  BY DEF Sound, IdsApart, SameButRelease
<1>3. ASSUME NEW k \in DOMAIN fr
      PROVE  /\ nfr[k] \in Frame
             /\ nfr[k].what = fr[k].what
             /\ fr[k].what # "destruct" =>
                  nfr[k].slot = fr[k].slot /\ nfr[k].id = fr[k].id
             /\ fr[k].what = "release" =>
                  /\ nfr[k].to = fr[k].to
                  /\ fr[k].id = id => nfr[k].taken
                  /\ fr[k].id # id => nfr[k].taken = fr[k].taken
  <2>1. fr[k] \in Frame
    BY ElementOfSeq, LenProperties DEF Sound, Stack
  <2>2. CASE fr[k].what = "release" /\ fr[k].id = id
    <3>1. fr[k] \in [what : {"release"}, slot : Nat, id : 1 .. MaxSockets,
                     to : Objects, taken : BOOLEAN]
      BY <2>1, <2>2 DEF Frame
    <3>2. nfr[k] = [fr[k] EXCEPT !.taken = TRUE]
      BY <2>2 DEF TakenBy
    <3> HIDE DEF nfr
    <3>3. nfr[k] \in [what : {"release"}, slot : Nat, id : 1 .. MaxSockets,
                      to : Objects, taken : BOOLEAN]
      BY <3>1, <3>2
    <3>4. nfr[k] \in Frame
      BY <3>3 DEF Frame
    <3> QED
      BY <2>2, <3>1, <3>2, <3>4
  <2>3. CASE ~(fr[k].what = "release" /\ fr[k].id = id)
    <3>1. nfr[k] = fr[k]
      BY <2>3 DEF TakenBy
    <3> QED
      BY <2>1, <2>3, <3>1
  <2> QED
    BY <2>2, <2>3
<1>4. fr \in Seq(Frame) /\ Len(fr) \in Nat /\ DOMAIN fr = 1 .. Len(fr)
      /\ DOMAIN nfr = DOMAIN fr
  BY LenProperties DEF Sound, Stack
<1>5. nfr \in Seq(Frame)
  <2>1. nfr \in [1 .. Len(fr) -> Frame]
    <3>1. nfr = [k \in 1 .. Len(fr) |-> nfr[k]]
      BY <1>4
    <3> HIDE DEF nfr
    <3> QED
      BY <1>3, <1>4, <3>1
  <2> HIDE DEF nfr
  <2> QED
    BY <1>4, <2>1, SeqDef
<1> HIDE DEF new, nfr, id
<1>6. Stack(nfr, new, m)
  BY <1>1, <1>3, <1>4, <1>5 DEF Sound, Stack
<1>7. Offers(new, nfr)
  <2> SUFFICES ASSUME NEW j \in DOMAIN old
               PROVE  /\ "RELEASE" \in new[j].flags =>
                           \E k \in DOMAIN nfr : Offering(nfr[k], j, new[j])
                      /\ \A k \in DOMAIN nfr : Offering(nfr[k], j, new[j]) =>
                           /\ "RELEASE" \in new[j].flags
                           /\ nfr[k].to = new[j].release_ob
                           /\ \A l \in DOMAIN nfr :
                                ReleaseFrame(nfr[l], j) => l <= k
    BY <1>1 DEF Offers
  <2>1. \A k \in DOMAIN fr : ReleaseFrame(nfr[k], j) <=> ReleaseFrame(fr[k], j)
    BY <1>3 DEF ReleaseFrame
  <2>2. CASE j = i
    <3>1. \A k \in DOMAIN fr : ~Offering(nfr[k], i, s)
      BY <1>2, <1>3 DEF Offering, ReleaseFrame
    <3> QED
      BY <1>1, <1>4, <2>2, <3>1
  <2>3. CASE j # i
    <3>1. new[j] = old[j]
      BY <1>1, <2>3
    <3>2. CASE IsClosed(old[j])
      <4>1. old[j] \in Slot
        BY TableIs DEF Sound
      <4>2. "RELEASE" \notin old[j].flags /\ old[j].id = 0
        BY <3>2, <4>1, SlotIs
      <4>3. \A k \in DOMAIN fr : nfr[k].what = "release" => nfr[k].id # 0
        BY <1>3, SocketsAssumption DEF Frame
      <4> QED
        BY <1>4, <3>1, <4>2, <4>3 DEF Offering, ReleaseFrame
    <3>3. CASE ~IsClosed(old[j])
      <4>1. old[j].id # id
        BY <1>2, <2>3, <3>3
      <4>2. \A k \in DOMAIN fr :
              /\ Offering(nfr[k], j, old[j]) <=> Offering(fr[k], j, old[j])
              /\ Offering(fr[k], j, old[j]) => nfr[k].to = fr[k].to
        BY <1>3, <4>1 DEF Offering, ReleaseFrame
      <4> QED
        BY <1>4, <2>1, <3>1, <4>2 DEF Sound, Offers
    <3> QED
      BY <3>2, <3>3
  <2> QED
    BY <2>2, <2>3
<1> QED
  BY <1>1, <1>6, <1>7 DEF Sound, new, nfr, id

-----------------------------------------------------------------------------
(* What several steps share.                                               *)
LEMMA OpenSlot ==
  ASSUME IInv, NEW i \in Slots, lpc_socks[i].state # "CLOSED"
  PROVE  /\ lpc_socks[i] \in Socket
         /\ ~IsClosed(lpc_socks[i])
         /\ Polled(lpc_socks[i])
         /\ lpc_socks[i].id <= made
         /\ i \in Nat /\ i \in DOMAIN lpc_socks
<1>1. lpc_socks[i] \in Slot /\ i \in Nat /\ i \in DOMAIN lpc_socks
  BY TableIs DEF IInv, Sound, Slots
<1> QED
  BY <1>1, SlotIs DEF IInv, Sound, AllPolled, IdsApart, IsClosed

LEMMA CloseStep ==
  ASSUME IInv, NEW S, S \subseteq Slots, NEW socks, Alike(socks, lpc_socks),
         \A i \in Slots \ S : Polled(socks[i]), CloseSlots(S, socks)
  PROVE  Sound(lpc_socks', os_fds', frames, made) /\ os_fds' \subseteq Fds
<1>1. DOMAIN socks = Slots
  BY DEF Alike, Slots
<1>2. lpc_socks' = ClosedTable(S, socks)
  BY <1>1 DEF CloseSlots, ClosedTable
<1>3. os_fds' = ClosedFds(S, socks, os_fds)
  BY DEF CloseSlots, ClosedFds
<1>4. Sound(ClosedTable(S, socks), ClosedFds(S, socks, os_fds), frames, made)
  BY ClosingIsSound DEF IInv, Slots
<1> QED
  BY <1>2, <1>3, <1>4 DEF ClosedFds, IInv, Others

LEMMA SocketsAlike ==
  ASSUME IInv
  PROVE  /\ Alike(lpc_socks, lpc_socks)
         /\ \A i \in Slots : Polled(lpc_socks[i])
         /\ Table(lpc_socks)
<1>1. lpc_socks \in [Slots -> Slot]
  BY TableIs DEF IInv, Sound, Slots
<1> QED
  BY <1>1 DEF IInv, Sound, AllPolled, Alike, SameSocket, Slots

LEMMA CloseDeadStep ==
  ASSUME IInv, NEW i \in Slots,
         lpc_socks[i].state \notin {"CLOSED", "FLUSHING"}, CloseDead(i)
  PROVE  Sound(lpc_socks', os_fds', frames', made) /\ os_fds' \subseteq Fds
<1> DEFINE s == [lpc_socks[i] EXCEPT !.flags = @ \union {"LINKDEAD"}]
           dead == [lpc_socks EXCEPT ![i] = s]
<1>1. /\ lpc_socks[i] \in Socket /\ ~IsClosed(lpc_socks[i])
      /\ Polled(lpc_socks[i]) /\ lpc_socks[i].id <= made
      /\ i \in Nat /\ i \in DOMAIN lpc_socks
  BY OpenSlot
<1>2. Raised(i, "LINKDEAD") = dead
  BY DEF Raised
<1>3. s \in Socket /\ SameSocket(s, lpc_socks[i]) /\ Polled(s)
  <2>1. s \in Socket /\ s.state = lpc_socks[i].state
    BY <1>1 DEF Socket
  <2>2. /\ s.id = lpc_socks[i].id /\ s.fd = lpc_socks[i].fd
        /\ s.release_ob = lpc_socks[i].release_ob
        /\ s.w_buf = lpc_socks[i].w_buf
        /\ s.flags = lpc_socks[i].flags \union {"LINKDEAD"}
    BY <1>1 DEF Socket
  <2> HIDE DEF s
  <2> QED
    BY <1>1, <2>1, <2>2 DEF SameSocket, Polled, IsClosed, Slot
<1>4. dead = Raised(i, "LINKDEAD") /\ dead[i].id = lpc_socks[i].id
  BY <1>1, <1>2 DEF Socket
<1> HIDE DEF s
<1>5. Sound(dead, os_fds, frames, made)
  BY <1>1, <1>3, AlteredIsSound DEF IInv
<1>6. Alike(dead, lpc_socks) /\ AllPolled(dead)
  BY <1>1, <1>3, <1>5, AlteredIsAlike, SocketsAlike DEF Sound
<1> HIDE DEF dead
<1>7. CASE lpc_socks[i].close_callback /\ CanCall(lpc_socks[i])
  <2> DEFINE f == [what |-> "close", slot |-> i, id |-> lpc_socks[i].id]
  <2>1. /\ frames' = Append(frames, f) /\ lpc_socks' = dead
        /\ os_fds' = os_fds
    BY <1>2, <1>7 DEF CloseDead, Push, dead
  <2>2. f \in Frame /\ f.what = "close" /\ f.slot = i /\ f.id <= made
    BY <1>1 DEF Frame, Socket
  <2>3. i \in DOMAIN dead
    BY <1>1, <1>6 DEF Alike
  <2> HIDE DEF f
  <2>4. Sound(dead, os_fds, Append(frames, f), made)
    BY <1>5, <2>2, <2>3, PushIsSound
  <2> QED
    BY <2>1, <2>4 DEF IInv, Others
<1>8. CASE ~(lpc_socks[i].close_callback /\ CanCall(lpc_socks[i]))
  <2>1. CloseSlots({i}, dead) /\ frames' = frames
    BY <1>2, <1>8 DEF CloseDead, dead
  <2>2. \A j \in Slots \ {i} : Polled(dead[j])
    BY <1>6 DEF Alike, AllPolled, Slots
  <2>3. Sound(lpc_socks', os_fds', frames, made) /\ os_fds' \subseteq Fds
    BY <1>6, <2>1, <2>2, CloseStep
  <2> QED
    BY <2>1, <2>3
<1> QED
  BY <1>7, <1>8

LEMMA CallStep ==
  ASSUME IInv, NEW i \in Slots, lpc_socks[i].state # "CLOSED",
         NEW what \in {"read", "write"}, Call(i, what),
         NEW socks, Sound(socks, os_fds, frames, made), DOMAIN socks = Slots
  PROVE  Sound(socks, os_fds, frames', made)
<1> DEFINE f == [what |-> what, slot |-> i, id |-> lpc_socks[i].id]
<1>1. lpc_socks[i] \in Socket /\ lpc_socks[i].id <= made /\ i \in Nat
  BY OpenSlot
<1>2. f \in Frame /\ f.what # "release" /\ f.slot = i /\ f.id <= made
  BY <1>1 DEF Frame, Socket
<1>3. frames' = Append(frames, f) \/ frames' = frames
  BY DEF Call, Push
<1> HIDE DEF f
<1>4. Sound(socks, os_fds, Append(frames, f), made)
  BY <1>2, PushIsSound
<1> QED
  BY <1>3, <1>4

LEMMA NewSocketStep ==
  ASSUME IInv, NEW socks, Sound(socks, os_fds, frames, made),
         DOMAIN socks = Slots, NEW s \in Socket, s.id = made + 1,
         "RELEASE" \notin s.flags, Polled(s), NewSocket(socks, s),
         UNCHANGED <<pass, destructed>>
  PROVE  Sound(lpc_socks', os_fds', frames, made') /\ Others'
<1>1. made \in Nat /\ made < MaxSockets /\ made \in 0 .. MaxSockets
      /\ made' \in 0 .. MaxSockets
  BY SocketsAssumption DEF IInv, Others, NewSocket
<1>2. /\ Table(Roomy(socks)) /\ Grown(Roomy(socks), socks)
      /\ FreeSlot(socks) \in DOMAIN Roomy(socks)
      /\ IsClosed(Roomy(socks)[FreeSlot(socks)])
  BY <1>1, RoomyIsTable DEF Sound
<1>3. Sound(Roomy(socks), os_fds, frames, made)
  BY <1>2, GrownIsSound
<1>4. Sound([Roomy(socks) EXCEPT ![FreeSlot(socks)] = s],
            os_fds \union {s.fd}, frames, made + 1)
  BY <1>1, <1>2, <1>3, PutIsSound DEF NewSocket
<1>5. s.fd \in Fds /\ s.owner_ob \in Objects
  BY DEF Socket
<1> QED
  BY <1>1, <1>4, <1>5 DEF NewSocket, IInv, Others

-----------------------------------------------------------------------------
(* Every step keeps the invariant.                                         *)
LEMMA InitHasIInv == Init => IInv
<1> SUFFICES ASSUME Init PROVE IInv
  OBVIOUS
<1>1. DOMAIN lpc_socks = {} /\ DOMAIN frames = {} /\ frames \in Seq(Frame)
  BY EmptySeq, LenProperties DEF Init
<1>2. Table(lpc_socks)
  <2>1. lpc_socks \in [0 .. Grow * 0 - 1 -> Slot] /\ 0 \in 0 .. MaxSockets
    <3>1. Grow * 0 = 0
      BY SocketsAssumption
    <3> QED
      BY <3>1, SocketsAssumption DEF Init
  <2> QED
    BY <2>1 DEF Table
<1>3. Others
  BY SocketsAssumption DEF Others, Init, NoPass, Pass
<1>4. os_fds = {}
  BY DEF Init
<1> QED
  BY <1>1, <1>2, <1>3, <1>4
  DEF IInv, Sound, IdsApart, Match, AllPolled, Stack, Offers

LEMMA CreateKeeps ==
  ASSUME IInv, NEW self \in Objects, NEW mode \in Modes,
         SocketCreate(self, mode)
  PROVE  IInv'
<1>1. frames' = frames /\ destructed' = destructed /\ pass' = pass
  BY DEF SocketCreate
<1>2. ASSUME NEW fd \in Fds, NewSocket(lpc_socks, Fresh(fd, mode, self))
      PROVE  IInv'
  <2> DEFINE s == Fresh(fd, mode, self)
  <2>1. made < MaxSockets /\ made + 1 \in 1 .. MaxSockets
    BY <1>2, SocketsAssumption DEF NewSocket, IInv, Others
  <2>2. /\ s \in Socket /\ s.id = made + 1 /\ s.flags = {}
        /\ Polled(s)
    BY <2>1, SocketsAssumption DEF Fresh, Socket, Polled
  <2> HIDE DEF s
  <2>3. Sound(lpc_socks', os_fds', frames, made') /\ Others'
    BY <1>1, <1>2, <2>2, NewSocketStep DEF IInv, Slots, s
  <2> QED
    BY <1>1, <2>3 DEF IInv
<1>3. CASE /\ made < MaxSockets
           /\ lpc_socks' = Roomy(lpc_socks)
           /\ UNCHANGED <<flagged, os_fds, made>>
  <2>1. Table(Roomy(lpc_socks)) /\ Grown(Roomy(lpc_socks), lpc_socks)
    BY <1>3, RoomyIsTable DEF IInv, Others, Sound, Slots
  <2>2. Sound(Roomy(lpc_socks), os_fds, frames, made)
    BY <2>1, GrownIsSound DEF IInv
  <2> QED
    BY <1>1, <1>3, <2>2 DEF IInv, Others
<1> QED
  BY <1>2, <1>3 DEF SocketCreate

(* One slot is altered, and no stack.                                      *)
LEMMA AlterStep ==
  ASSUME IInv, NEW i \in Slots, lpc_socks[i].state # "CLOSED",
         NEW s \in Socket, SameSocket(s, lpc_socks[i]), Polled(s),
         lpc_socks' = [lpc_socks EXCEPT ![i] = s],
         flagged' \subseteq Objects,
         UNCHANGED <<destructed, frames, pass, os_fds, made>>
  PROVE  IInv'
<1>1. ~IsClosed(lpc_socks[i]) /\ i \in DOMAIN lpc_socks
  BY OpenSlot
<1>2. Sound([lpc_socks EXCEPT ![i] = s], os_fds, frames, made)
  BY <1>1, AlteredIsSound DEF IInv
<1> QED
  BY <1>2 DEF IInv, Others

LEMMA BindKeeps ==
  ASSUME IInv, NEW self \in Objects, NEW i \in Slots, SocketBind(self, i)
  PROVE  IInv'
<1> DEFINE s == [lpc_socks[i] EXCEPT !.state = "BOUND"]
<1>1. lpc_socks[i].state = "UNBOUND" /\ lpc_socks' = [lpc_socks EXCEPT ![i] = s]
  BY DEF SocketBind
<1>2. lpc_socks[i] \in Socket /\ Polled(lpc_socks[i])
  BY <1>1, OpenSlot
<1>3. s \in Socket /\ SameSocket(s, lpc_socks[i]) /\ Polled(s)
  BY <1>1, <1>2 DEF Socket, Slot, SameSocket, Polled, IsClosed
<1> HIDE DEF s
<1> QED
  BY <1>1, <1>3, AlterStep DEF SocketBind, IInv, Others

LEMMA ListenKeeps ==
  ASSUME IInv, NEW self \in Objects, NEW i \in Slots, SocketListen(self, i)
  PROVE  IInv'
<1> DEFINE s == [lpc_socks[i] EXCEPT !.state = "LISTEN"]
<1>1. lpc_socks[i].state = "BOUND" /\ lpc_socks' = [lpc_socks EXCEPT ![i] = s]
  BY DEF SocketListen
<1>2. lpc_socks[i] \in Socket /\ Polled(lpc_socks[i])
  BY <1>1, OpenSlot
<1>3. s \in Socket /\ SameSocket(s, lpc_socks[i]) /\ Polled(s)
  BY <1>1, <1>2 DEF Socket, Slot, SameSocket, Polled, IsClosed
<1> HIDE DEF s
<1>4. flagged' \subseteq Objects
  BY DEF SocketListen, IInv, Others
<1> QED
  BY <1>1, <1>3, <1>4, AlterStep DEF SocketListen

LEMMA AcceptKeeps ==
  ASSUME IInv, NEW self \in Objects, NEW i \in Slots, SocketAccept(self, i)
  PROVE  IInv'
<1> DEFINE s == [lpc_socks[i] EXCEPT !.flags = @ \ {"WACCEPT"}]
           heard == [lpc_socks EXCEPT ![i] = s]
<1>1. /\ lpc_socks[i].state = "LISTEN"
      /\ heard = [lpc_socks EXCEPT ![i].flags = @ \ {"WACCEPT"}]
      /\ UNCHANGED <<destructed, frames, pass>>
  BY DEF SocketAccept
<1>2. lpc_socks[i] \in Socket /\ Polled(lpc_socks[i]) /\ ~IsClosed(lpc_socks[i])
      /\ i \in DOMAIN lpc_socks
  BY <1>1, OpenSlot
<1>3. s \in Socket /\ SameSocket(s, lpc_socks[i]) /\ Polled(s)
  BY <1>1, <1>2 DEF Socket, Slot, SameSocket, Polled, IsClosed
<1>4. DOMAIN heard = Slots
  BY DEF Slots
<1> HIDE DEF s
<1>5. CASE lpc_socks' = heard /\ UNCHANGED <<flagged, os_fds, made>>
  BY <1>1, <1>3, <1>5, AlterStep DEF IInv, Others
<1>6. ASSUME NEW fd \in Fds, NEW blocked \in {{}, {"BLOCKED"}},
             NewSocket(heard,
               [Fresh(fd, lpc_socks[i].mode, self) EXCEPT
                  !.state = "DATA_XFER", !.flags = blocked, !.peer = "up",
                  !.close_callback = lpc_socks[i].close_callback])
      PROVE  IInv'
  <2> DEFINE t == [Fresh(fd, lpc_socks[i].mode, self) EXCEPT
                  !.state = "DATA_XFER", !.flags = blocked, !.peer = "up",
                  !.close_callback = lpc_socks[i].close_callback]
  <2>1. Sound(heard, os_fds, frames, made)
    BY <1>2, <1>3, AlteredIsSound DEF IInv
  <2>2. made < MaxSockets /\ made + 1 \in 1 .. MaxSockets
    BY <1>6, SocketsAssumption DEF NewSocket, IInv, Others
  <2>3. /\ t \in Socket /\ t.id = made + 1 /\ t.flags = blocked
        /\ Polled(t)
    <3>1. lpc_socks[i].mode \in {"STREAM", "DATAGRAM"}
          /\ lpc_socks[i].close_callback \in BOOLEAN
      BY <1>2 DEF Socket
    <3> QED
      BY <2>2, <3>1 DEF Fresh, Socket, Polled
  <2> HIDE DEF t, heard
  <2>4. Sound(lpc_socks', os_fds', frames, made') /\ Others'
    <3>1. NewSocket(heard, t)
      BY <1>6 DEF t
    <3> QED
      BY <1>1, <1>4, <2>1, <2>3, <3>1, NewSocketStep
  <2> QED
    BY <1>1, <2>4 DEF IInv
<1> QED
  BY <1>1, <1>5, <1>6 DEF SocketAccept

LEMMA ConnectKeeps ==
  ASSUME IInv, NEW self \in Objects, NEW i \in Slots, SocketConnect(self, i)
  PROVE  IInv'
<1> DEFINE s == [lpc_socks[i] EXCEPT !.state = "DATA_XFER",
                                     !.flags = @ \union {"BLOCKED"},
                                     !.peer = "connecting"]
<1>1. /\ lpc_socks[i].state \in {"UNBOUND", "BOUND"}
      /\ lpc_socks' = lpc_socks \/ lpc_socks' = [lpc_socks EXCEPT ![i] = s]
      /\ UNCHANGED <<destructed, frames, pass, os_fds, made>>
      /\ flagged' \subseteq Objects
  BY DEF SocketConnect, IInv, Others
<1>2. lpc_socks[i] \in Socket /\ Polled(lpc_socks[i])
  BY <1>1, OpenSlot
<1>3. s \in Socket /\ SameSocket(s, lpc_socks[i]) /\ Polled(s)
  <2>1. s \in Socket
    BY <1>2 DEF Socket
  <2>2. /\ s.id = lpc_socks[i].id /\ s.fd = lpc_socks[i].fd
        /\ s.release_ob = lpc_socks[i].release_ob
        /\ s.state = "DATA_XFER"
        /\ s.flags = lpc_socks[i].flags \union {"BLOCKED"}
    BY <1>2 DEF Socket
  <2> HIDE DEF s
  <2> QED
    BY <1>1, <2>1, <2>2 DEF Slot, SameSocket, Polled, IsClosed
<1> HIDE DEF s
<1>4. CASE lpc_socks' = lpc_socks
  BY <1>1, <1>4 DEF IInv, Others
<1>5. CASE lpc_socks' = [lpc_socks EXCEPT ![i] = s]
  BY <1>1, <1>3, <1>5, AlterStep
<1> QED
  BY <1>1, <1>4, <1>5

LEMMA WriteKeeps ==
  ASSUME IInv, NEW self \in Objects, NEW i \in Slots, SocketWrite(self, i)
  PROVE  IInv'
<1>1. /\ lpc_socks[i].state = "DATA_XFER"
      /\ UNCHANGED <<flagged, destructed, pass, made>>
  BY DEF SocketWrite
<1>2. CASE /\ lpc_socks' = [lpc_socks EXCEPT ![i].flags = @ \union {"BLOCKED"},
                                             ![i].w_buf = TRUE]
           /\ UNCHANGED <<frames, os_fds>>
  <2> DEFINE s == [lpc_socks[i] EXCEPT !.flags = @ \union {"BLOCKED"},
                                       !.w_buf = TRUE]
  <2>1. lpc_socks[i] \in Socket /\ Polled(lpc_socks[i]) /\ i \in DOMAIN lpc_socks
    BY <1>1, OpenSlot
  <2>2. lpc_socks' = [lpc_socks EXCEPT ![i] = s]
    BY <1>2, <2>1
  <2>3. s \in Socket
    BY <2>1 DEF Socket
  <2>4. /\ s.id = lpc_socks[i].id /\ s.fd = lpc_socks[i].fd
        /\ s.release_ob = lpc_socks[i].release_ob
        /\ s.state = "DATA_XFER"
        /\ s.flags = lpc_socks[i].flags \union {"BLOCKED"}
    BY <1>1, <2>1 DEF Socket
  <2> HIDE DEF s
  <2>5. SameSocket(s, lpc_socks[i]) /\ Polled(s)
    BY <1>1, <2>3, <2>4 DEF Slot, SameSocket, Polled, IsClosed
  <2> QED
    BY <1>1, <1>2, <2>2, <2>3, <2>5, AlterStep DEF IInv, Others
<1>3. CASE CloseDead(i)
  <2>1. Sound(lpc_socks', os_fds', frames', made) /\ os_fds' \subseteq Fds
    BY <1>1, <1>3, CloseDeadStep
  <2> QED
    BY <1>1, <2>1 DEF IInv, Others
<1> QED
  BY <1>2, <1>3 DEF SocketWrite

LEMMA CloseKeeps ==
  ASSUME IInv, NEW self \in Objects, NEW i \in Slots, SocketClose(self, i)
  PROVE  IInv'
<1>1. Sound(lpc_socks', os_fds', frames, made) /\ os_fds' \subseteq Fds
  BY CloseStep, SocketsAlike DEF SocketClose
<1> QED
  BY <1>1 DEF SocketClose, IInv, Others

LEMMA ReleaseKeeps ==
  ASSUME IInv, NEW self \in Objects, NEW i \in Slots, NEW ob \in Objects,
         SocketRelease(self, i, ob)
  PROVE  IInv'
<1> DEFINE s == [lpc_socks[i] EXCEPT !.flags = @ \union {"RELEASE"},
                                     !.release_ob = ob]
           f == [what |-> "release", slot |-> i, id |-> lpc_socks[i].id,
                 to |-> ob, taken |-> FALSE]
<1>1. /\ lpc_socks[i].state \notin {"CLOSED", "FLUSHING"}
      /\ "RELEASE" \notin lpc_socks[i].flags
      /\ lpc_socks' = [Raised(i, "RELEASE") EXCEPT ![i].release_ob = ob]
      /\ frames' = Append(frames, f)
      /\ UNCHANGED <<flagged, destructed, pass, os_fds, made>>
  BY DEF SocketRelease, Mine, InUse, Push
<1>2. /\ lpc_socks[i] \in Socket /\ Polled(lpc_socks[i])
      /\ ~IsClosed(lpc_socks[i]) /\ i \in DOMAIN lpc_socks /\ i \in Nat
  BY <1>1, OpenSlot
<1>3. lpc_socks' = [lpc_socks EXCEPT ![i] = s]
  BY <1>1, <1>2 DEF Raised
<1>4. s \in Socket
  BY <1>2 DEF Socket
<1>5. /\ s.id = lpc_socks[i].id /\ s.fd = lpc_socks[i].fd
      /\ s.release_ob = ob /\ s.w_buf = lpc_socks[i].w_buf
      /\ s.state = lpc_socks[i].state
      /\ s.flags = lpc_socks[i].flags \union {"RELEASE"}
  BY <1>2 DEF Socket
<1>6. f \in Frame
  BY <1>2 DEF Frame, Socket
<1>7. f.what = "release" /\ f.slot = i /\ f.id = lpc_socks[i].id /\ f.to = ob
      /\ ~f.taken
  OBVIOUS
<1> HIDE DEF s, f
<1>8. SameButRelease(s, lpc_socks[i]) /\ "RELEASE" \in s.flags
  BY <1>2, <1>4, <1>5 DEF SameButRelease, Polled
<1>9. Offering(f, i, s) /\ f.to = s.release_ob
  BY <1>5, <1>7 DEF Offering, ReleaseFrame
<1>10. Sound([lpc_socks EXCEPT ![i] = s], os_fds, Append(frames, f), made)
  BY <1>1, <1>2, <1>6, <1>8, <1>9, ReleasingIsSound DEF IInv
<1> QED
  BY <1>1, <1>3, <1>10 DEF IInv, Others

LEMMA AcquireKeeps ==
  ASSUME IInv, NEW self \in Objects, NEW i \in Slots, SocketAcquire(self, i)
  PROVE  IInv'
<1> DEFINE s == [lpc_socks[i] EXCEPT !.flags = @ \ {"RELEASE"},
                                     !.owner_ob = self,
                                     !.release_ob = NoObject,
                                     !.close_callback = TRUE]
           fr == [k \in DOMAIN frames |-> TakenBy(frames[k], lpc_socks[i].id)]
<1>1. /\ lpc_socks[i].state \notin {"CLOSED", "FLUSHING"}
      /\ lpc_socks' = [lpc_socks EXCEPT ![i].flags = @ \ {"RELEASE"},
                                        ![i].owner_ob = self,
                                        ![i].release_ob = NoObject,
                                        ![i].close_callback = TRUE]
      /\ frames' = fr
      /\ UNCHANGED <<flagged, destructed, pass, os_fds, made>>
  BY DEF SocketAcquire, InUse, TakenBy
<1>2. /\ lpc_socks[i] \in Socket /\ Polled(lpc_socks[i])
      /\ ~IsClosed(lpc_socks[i]) /\ i \in DOMAIN lpc_socks
  BY <1>1, OpenSlot
<1>3. lpc_socks' = [lpc_socks EXCEPT ![i] = s]
  BY <1>1, <1>2
<1>4. s \in Socket
  BY <1>2 DEF Socket
<1>5. /\ s.id = lpc_socks[i].id /\ s.fd = lpc_socks[i].fd
      /\ s.w_buf = lpc_socks[i].w_buf
      /\ s.state = lpc_socks[i].state
      /\ s.flags = lpc_socks[i].flags \ {"RELEASE"}
  BY <1>2 DEF Socket
<1> HIDE DEF s
<1>6. SameButRelease(s, lpc_socks[i]) /\ "RELEASE" \notin s.flags
  BY <1>2, <1>4, <1>5 DEF SameButRelease, Polled
<1>7. Sound([lpc_socks EXCEPT ![i] = s], os_fds, fr, made)
  BY <1>2, <1>6, TakingIsSound DEF IInv
<1> HIDE DEF fr
<1> QED
  BY <1>1, <1>3, <1>7 DEF IInv, Others

LEMMA OwnedClose ==
  ASSUME IInv, NEW ob \in Objects, CloseOwned(ob)
  PROVE  Sound(lpc_socks', os_fds', frames, made) /\ os_fds' \subseteq Fds
<1> DEFINE S == {i \in Slots : /\ ob \in flagged
                              /\ InUse(lpc_socks[i])
                              /\ lpc_socks[i].owner_ob = ob}
<1>1. S \subseteq Slots /\ CloseSlots(S, lpc_socks)
  BY DEF CloseOwned
<1> HIDE DEF S
<1> QED
  BY <1>1, CloseStep, SocketsAlike

LEMMA DestructKeeps ==
  ASSUME IInv, NEW ob \in Objects, Destruct(ob)
  PROVE  IInv'
<1>1. Sound(lpc_socks', os_fds', frames, made) /\ os_fds' \subseteq Fds
  BY OwnedClose DEF Destruct
<1>2. UNCHANGED <<flagged, pass, made>>
  BY DEF Destruct
<1>3. CASE destructed' = destructed \union {ob} /\ UNCHANGED frames
  BY <1>1, <1>2, <1>3 DEF IInv, Others
<1>4. CASE Push([what |-> "destruct", ob |-> ob]) /\ UNCHANGED destructed
  <2> DEFINE f == [what |-> "destruct", ob |-> ob]
  <2>1. f \in Frame /\ f.what = "destruct"
    BY DEF Frame
  <2>2. frames' = Append(frames, f)
    BY <1>4 DEF Push
  <2> HIDE DEF f
  <2>3. Sound(lpc_socks', os_fds', Append(frames, f), made)
    BY <1>1, <2>1, PushIsSound
  <2> QED
    BY <1>1, <1>2, <1>4, <2>2, <2>3 DEF IInv, Others
<1> QED
  BY <1>3, <1>4 DEF Destruct

LEMMA ReloadKeeps ==
  ASSUME IInv, NEW ob \in Objects, ReloadObject(ob)
  PROVE  IInv'
<1>1. Sound(lpc_socks', os_fds', frames, made) /\ os_fds' \subseteq Fds
  BY OwnedClose DEF ReloadObject
<1> QED
  BY <1>1 DEF ReloadObject, IInv, Others

(* A frame that offers nothing is popped, whatever was done to the table.  *)
LEMMA PopStep ==
  ASSUME NEW socks, NEW fds, NEW m, Sound(socks, fds, frames, m),
         NEW what \in {"read", "write", "close", "destruct"}, TopIs(what), Pop
  PROVE  Sound(socks, fds, frames', m)
<1>1. \A i \in DOMAIN socks : ~Offering(frames[Len(frames)], i, socks[i])
  BY DEF TopIs, Top, Offering, ReleaseFrame
<1> QED
  BY <1>1, PopIsSound DEF TopIs, Pop

LEMMA TopFrame ==
  ASSUME IInv, NEW what, TopIs(what)
  PROVE  /\ Top \in Frame
         /\ what # "destruct" => Top.slot \in Slots
<1>1. frames \in Seq(Frame) /\ Len(frames) \in DOMAIN frames
  BY LenProperties, EmptySeq DEF IInv, Sound, Stack, TopIs
<1>2. Top \in Frame
  BY <1>1, ElementOfSeq, LenProperties DEF Top
<1> QED
  BY <1>1, <1>2 DEF IInv, Sound, Stack, TopIs, Top, Slots

LEMMA DestructEndsKeeps ==
  ASSUME IInv, DestructEnds
  PROVE  IInv'
<1>1. Sound(lpc_socks, os_fds, frames', made)
  BY PopStep DEF DestructEnds, IInv
<1>2. Top.ob \in Objects
  BY TopFrame DEF DestructEnds, TopIs, Frame
<1> QED
  BY <1>1, <1>2 DEF DestructEnds, IInv, Others

LEMMA CallbackKeeps ==
  ASSUME IInv, CallbackReturns
  PROVE  IInv'
<1>1. Sound(lpc_socks, os_fds, frames', made)
  BY PopStep DEF CallbackReturns, IInv
<1> QED
  BY <1>1 DEF CallbackReturns, IInv, Others

LEMMA CloseGoesOnKeeps ==
  ASSUME IInv, CloseGoesOn
  PROVE  IInv'
<1>1. {Top.slot} \subseteq Slots
  BY TopFrame DEF CloseGoesOn
<1>2. Sound(lpc_socks', os_fds', frames, made) /\ os_fds' \subseteq Fds
  BY <1>1, CloseStep, SocketsAlike DEF CloseGoesOn
<1>3. Sound(lpc_socks', os_fds', frames', made)
  BY <1>2, PopStep DEF CloseGoesOn
<1> QED
  BY <1>2, <1>3 DEF CloseGoesOn, IInv, Others

LEMMA ReleaseGoesOnKeeps ==
  ASSUME IInv, ReleaseGoesOn
  PROVE  IInv'
<1> DEFINE i == Top.slot
           n == Len(frames)
           s == [lpc_socks[i] EXCEPT !.flags = @ \ {"RELEASE"},
                                     !.release_ob = NoObject]
<1>1. /\ frames # <<>> /\ frames' = SubSeq(frames, 1, n - 1)
      /\ i \in Slots /\ ReleaseFrame(frames[n], i)
      /\ UNCHANGED <<flagged, destructed, pass, os_fds, made>>
  BY TopFrame DEF ReleaseGoesOn, TopIs, Top, Pop, ReleaseFrame
<1>2. n \in DOMAIN frames /\ DOMAIN frames = 1 .. n /\ n \in Nat
  BY <1>1, LenProperties, EmptySeq DEF IInv, Sound, Stack
<1>3. CASE "RELEASE" \notin lpc_socks[i].flags
  <2>1. lpc_socks' = lpc_socks
    BY <1>3 DEF ReleaseGoesOn, Released
  <2>2. \A j \in DOMAIN lpc_socks : ~Offering(frames[n], j, lpc_socks[j])
    BY <1>1, <1>2, <1>3 DEF IInv, Sound, Offers, Offering, ReleaseFrame
  <2>3. Sound(lpc_socks, os_fds, SubSeq(frames, 1, n - 1), made)
    BY <1>1, <2>2, PopIsSound DEF IInv
  <2> QED
    BY <1>1, <2>1, <2>3 DEF IInv, Others
<1>4. CASE "RELEASE" \in lpc_socks[i].flags
  <2>1. lpc_socks' = [lpc_socks EXCEPT ![i].flags = @ \ {"RELEASE"},
                                       ![i].release_ob = NoObject]
    BY <1>4 DEF ReleaseGoesOn, Released
  <2>2. lpc_socks[i] \in Slot /\ i \in DOMAIN lpc_socks
    BY <1>1, TableIs DEF IInv, Sound, Slots
  <2>3. ~IsClosed(lpc_socks[i]) /\ lpc_socks[i] \in Socket
    BY <1>4, <2>2, SlotIs
  <2>4. lpc_socks' = [lpc_socks EXCEPT ![i] = s]
    BY <2>1, <2>2
  <2>5. s \in Socket
    BY <2>3 DEF Socket
  <2>6. /\ s.id = lpc_socks[i].id /\ s.fd = lpc_socks[i].fd
        /\ s.w_buf = lpc_socks[i].w_buf
        /\ s.state = lpc_socks[i].state
        /\ s.flags = lpc_socks[i].flags \ {"RELEASE"}
    BY <2>3 DEF Socket
  <2> HIDE DEF s, i, n
  <2>7. SameButRelease(s, lpc_socks[i]) /\ "RELEASE" \notin s.flags
    <3>1. Polled(lpc_socks[i])
      BY <2>2 DEF IInv, Sound, AllPolled
    <3> QED
      BY <2>3, <2>5, <2>6, <3>1 DEF SameButRelease, Polled
  <2>8. Sound([lpc_socks EXCEPT ![i] = s], os_fds, SubSeq(frames, 1, n - 1), made)
    BY <1>1, <1>4, <2>2, <2>7, WithdrawingIsSound DEF IInv, n
  <2> QED
    BY <1>1, <2>4, <2>8 DEF IInv, Others
<1> QED
  BY <1>3, <1>4

-----------------------------------------------------------------------------
(* The pass over the table. *)
LEMMA ReadyFds ==
  ASSUME IInv, NEW S, S \subseteq Slots,
         \A i \in S : lpc_socks[i].state # "CLOSED", NEW r \in Ready(S)
  PROVE  r \subseteq Fds
<1>1. \A i \in S : lpc_socks[i].fd \in Fds
  BY OpenSlot DEF Socket
<1> QED
  BY <1>1 DEF Ready

LEMMA StartPassKeeps ==
  ASSUME IInv, StartPass
  PROVE  IInv'
<1>1. PICK r \in Ready(WantsRead), w \in Ready(WantsWrite) :
        pass' = [at |-> 0, readmask |-> r, writemask |-> w]
  BY DEF StartPass
<1>2. r \subseteq Fds
  <2>1. WantsRead \subseteq Slots
        /\ \A i \in WantsRead : lpc_socks[i].state # "CLOSED"
    BY DEF WantsRead, InUse
  <2> QED
    BY <2>1, ReadyFds
<1>3. w \subseteq Fds
  <2>1. ASSUME NEW i \in WantsWrite
        PROVE  i \in Slots /\ lpc_socks[i].state # "CLOSED"
    <3>1. i \in Slots /\ "BLOCKED" \in lpc_socks[i].flags
      BY DEF WantsWrite
    <3>2. lpc_socks[i] \in Slot
      BY <3>1, TableIs DEF IInv, Sound, Slots
    <3> QED
      BY <3>1, <3>2, SlotIs DEF IsClosed
  <2>2. WantsWrite \subseteq Slots
    BY <2>1
  <2> QED
    BY <2>1, <2>2, ReadyFds
<1>4. pass' \in Pass
  BY <1>1, <1>2, <1>3 DEF Pass
<1> QED
  BY <1>4 DEF StartPass, IInv, Others

LEMMA PassMoves ==
  ASSUME IInv, NextHandler
  PROVE  pass' \in Pass
BY DEF IInv, Others, Pass, NextHandler

LEMMA PassOverKeeps ==
  ASSUME IInv, PassOver
  PROVE  IInv'
<1>1. NoPass \in Pass
  BY DEF NoPass, Pass
<1>2. pass' \in Pass
  BY <1>1, PassMoves DEF PassOver
<1> QED
  BY <1>2 DEF PassOver, IInv, Others

LEMMA ReadHandlerKeeps ==
  ASSUME IInv, ReadHandler
  PROVE  IInv'
<1> DEFINE i == At
<1>1. /\ i \in Slots /\ lpc_socks[i].state # "CLOSED"
      /\ pass' \in Pass
      /\ UNCHANGED <<flagged, destructed, made>>
  BY PassMoves DEF ReadHandler, Serving
<1> SUFFICES Sound(lpc_socks', os_fds', frames', made) /\ os_fds' \subseteq Fds
  BY <1>1 DEF IInv, Others
<1>2. /\ Sound(lpc_socks, os_fds, frames, made) /\ os_fds \subseteq Fds
      /\ DOMAIN lpc_socks = Slots
  BY DEF IInv, Others, Slots
<1> HIDE DEF i
<1>3. CASE /\ lpc_socks[i].state = "LISTEN"
           /\ lpc_socks' = Raised(i, "WACCEPT")
           /\ Call(i, "read")
           /\ UNCHANGED os_fds
  <2> DEFINE s == [lpc_socks[i] EXCEPT !.flags = @ \union {"WACCEPT"}]
             new == [lpc_socks EXCEPT ![i] = s]
  <2>1. lpc_socks' = new /\ DOMAIN new = Slots
    BY <1>2, <1>3 DEF Raised
  <2>2. lpc_socks[i] \in Socket /\ Polled(lpc_socks[i])
        /\ ~IsClosed(lpc_socks[i])
    BY <1>1, OpenSlot
  <2>3. s \in Socket /\ SameSocket(s, lpc_socks[i]) /\ Polled(s)
    BY <1>3, <2>2 DEF Socket, Slot, SameSocket, Polled, IsClosed
  <2> HIDE DEF s
  <2>4. Sound(new, os_fds, frames, made)
    BY <1>1, <1>2, <2>2, <2>3, AlteredIsSound
  <2> HIDE DEF new
  <2>5. Sound(new, os_fds, frames', made)
    BY <1>1, <1>3, <2>1, <2>4, CallStep
  <2> QED
    BY <1>2, <1>3, <2>1, <2>5
<1>4. CASE Call(i, "read") /\ UNCHANGED <<lpc_socks, os_fds>>
  <2>1. Sound(lpc_socks, os_fds, frames', made)
    BY <1>1, <1>2, <1>4, CallStep
  <2> QED
    BY <1>2, <1>4, <2>1
<1>5. CASE UNCHANGED <<lpc_socks, frames, os_fds>>
  BY <1>2, <1>5
<1>6. CASE /\ lpc_socks[i].state \in {"UNBOUND", "BOUND", "DATA_XFER"}
           /\ CloseDead(i)
  BY <1>1, <1>6, CloseDeadStep
<1> QED
  BY <1>3, <1>4, <1>5, <1>6 DEF ReadHandler, i

LEMMA WriteHandlerKeeps ==
  ASSUME IInv, WriteHandler
  PROVE  IInv'
<1> DEFINE i == At
           s == [lpc_socks[i] EXCEPT !.w_buf = FALSE, !.flags = @ \ {"BLOCKED"}]
           sent == [lpc_socks EXCEPT ![i] = s]
<1>1. /\ i \in Slots /\ lpc_socks[i].state # "CLOSED"
      /\ pass' \in Pass
      /\ UNCHANGED <<flagged, destructed, made>>
  BY PassMoves DEF WriteHandler, Serving
<1> SUFFICES Sound(lpc_socks', os_fds', frames', made) /\ os_fds' \subseteq Fds
  BY <1>1 DEF IInv, Others
<1>2. /\ Sound(lpc_socks, os_fds, frames, made) /\ os_fds \subseteq Fds
      /\ DOMAIN lpc_socks = Slots /\ i \in DOMAIN lpc_socks
  BY <1>1 DEF IInv, Others, Slots
<1>3. sent = [lpc_socks EXCEPT ![i].w_buf = FALSE, ![i].flags = @ \ {"BLOCKED"}]
  BY <1>2
<1>4. lpc_socks[i] \in Socket /\ Polled(lpc_socks[i])
      /\ ~IsClosed(lpc_socks[i])
  BY <1>1, OpenSlot
<1>5. s \in Socket
  BY <1>4 DEF Socket
<1>6. /\ s.id = lpc_socks[i].id /\ s.fd = lpc_socks[i].fd
      /\ s.release_ob = lpc_socks[i].release_ob
      /\ s.state = lpc_socks[i].state /\ ~s.w_buf
      /\ s.flags = lpc_socks[i].flags \ {"BLOCKED"}
  BY <1>4 DEF Socket
<1> HIDE DEF s
<1>7. SameSocket(s, lpc_socks[i])
  BY <1>4, <1>5, <1>6 DEF Slot, SameSocket, IsClosed
<1>8. Alike(sent, lpc_socks)
  BY <1>2, <1>4, <1>5, <1>7, AlteredIsAlike, SocketsAlike
<1>9. DOMAIN sent = Slots /\ \A j \in Slots \ {i} : Polled(sent[j])
  BY <1>2, SocketsAlike
<1>10. CASE UNCHANGED <<lpc_socks, frames, os_fds>>
  BY <1>2, <1>10
<1>11. CASE /\ lpc_socks[i].state = "FLUSHING"
            /\ CloseSlots({i}, sent) /\ UNCHANGED frames
  <2> HIDE DEF sent, i
  <2>1. Sound(lpc_socks', os_fds', frames, made) /\ os_fds' \subseteq Fds
    BY <1>1, <1>8, <1>9, <1>11, CloseStep
  <2> QED
    BY <1>11, <2>1
<1>12. CASE lpc_socks[i].state # "FLUSHING" /\ CloseDead(i)
  <2> HIDE DEF sent, i
  <2> QED
    BY <1>1, <1>12, CloseDeadStep
<1>13. CASE /\ lpc_socks[i].state # "FLUSHING"
            /\ Call(i, "write") /\ lpc_socks' = sent /\ UNCHANGED os_fds
  <2>1. Polled(s)
    BY <1>6, <1>13 DEF Polled
  <2>2. Sound(sent, os_fds, frames, made)
    BY <1>2, <1>4, <1>5, <1>7, <2>1, AlteredIsSound
  <2> HIDE DEF sent, i
  <2>3. Sound(sent, os_fds, frames', made)
    BY <1>1, <1>9, <1>13, <2>2, CallStep
  <2> QED
    BY <1>2, <1>13, <2>3
<1> HIDE DEF sent
<1> QED
  BY <1>3, <1>10, <1>11, <1>12, <1>13 DEF WriteHandler

LEMMA NetworkKeeps ==
  ASSUME IInv, Network
  PROVE  IInv'
<1>1. PICK i \in Slots, p \in {"up", "gone"} :
        /\ lpc_socks[i].peer \in {"connecting", "up"}
        /\ lpc_socks' = [lpc_socks EXCEPT ![i].peer = p]
        /\ UNCHANGED <<flagged, destructed, frames, pass, os_fds, made>>
  BY DEF Network
<1> DEFINE s == [lpc_socks[i] EXCEPT !.peer = p]
<1>2. lpc_socks[i] \in Slot
  BY TableIs DEF IInv, Sound, Slots
<1>3. lpc_socks[i].state # "CLOSED"
  <2>1. lpc_socks[i] # Closed
    BY <1>1 DEF Closed
  <2> QED
    BY <1>2, <2>1, SlotIs DEF IsClosed
<1>4. lpc_socks[i] \in Socket /\ Polled(lpc_socks[i])
  BY <1>3, OpenSlot
<1>5. s \in Socket /\ SameSocket(s, lpc_socks[i]) /\ Polled(s)
  BY <1>4 DEF Socket, Slot, SameSocket, Polled, IsClosed
<1>6. lpc_socks' = [lpc_socks EXCEPT ![i] = s]
  BY <1>1
<1> HIDE DEF s
<1> QED
  BY <1>1, <1>3, <1>5, <1>6, AlterStep DEF IInv, Others

LEMMA NextKeeps == IInv /\ [Next]_vars => IInv'
<1> SUFFICES ASSUME IInv, [Next]_vars PROVE IInv'
  OBVIOUS
<1>1. CASE Lpc
  BY <1>1, CreateKeeps, DestructKeeps, ReloadKeeps, BindKeeps, ListenKeeps,
     AcceptKeeps, ConnectKeeps, WriteKeeps, CloseKeeps, ReleaseKeeps,
     AcquireKeeps
  DEF Lpc
<1>2. CASE Returns
  BY <1>2, CallbackKeeps, CloseGoesOnKeeps, ReleaseGoesOnKeeps,
     DestructEndsKeeps
  DEF Returns
<1>3. CASE StartPass
  BY <1>3, StartPassKeeps
<1>4. CASE ProcessIo
  BY <1>4, PassOverKeeps, ReadHandlerKeeps, WriteHandlerKeeps DEF ProcessIo
<1>5. CASE Network
  BY <1>5, NetworkKeeps
<1>6. CASE UNCHANGED vars
  BY <1>6 DEF vars, IInv, Others, Sound, Table, IdsApart, Match, AllPolled,
     Stack, Offers
<1> QED
  BY <1>1, <1>2, <1>3, <1>4, <1>5, <1>6 DEF Next, SelectTimesOut

-----------------------------------------------------------------------------
(* The theorems *)

THEOREM Invariance == Spec => []IInv
BY InitHasIInv, NextKeeps, PTL DEF Spec

(* Slots hold sockets or nothing, frames name slots that exist, and the    *)
(* table grows no more often than sockets are made: it grows only when     *)
(* every slot holds a socket of its own (find_new_socket()).               *)
THEOREM TypeOKHolds == Spec => []TypeOK
BY Invariance, IInvIsTyped, PTL

(* Through closes nested in callbacks, slots reused under frames that      *)
(* still name them, and closes at the end of an owner, descriptors of the  *)
(* system and slots match one to one.                                      *)
THEOREM FdsMatchSlotsHolds == Spec => []FdsMatchSlots
BY Invariance, IInvMatches, PTL

(* A socket that is being flushed or has data to send is polled for        *)
(* writing, and the write handler does not turn it away.                   *)
THEOREM WritesArePolledHolds == Spec => []WritesArePolled
BY Invariance, IInvPolls, PTL

(* A socket is on offer only while the callback of its socket_release()    *)
(* runs, and the answer of socket_release() is whether it was taken.       *)
THEOREM ReleasesAreHandshakesHolds == Spec => []ReleasesAreHandshakes
BY Invariance, IInvReleases, PTL
=============================================================================
