------------------------------- MODULE Sockets --------------------------------
(***************************************************************************)
(* LPC sockets (fluffos/socket_efuns.c, and the parts of comm.c,           *)
(* simulate.c and object.c that serve them).                               *)
(*                                                                         *)
(* lpc_socks is a table of slots; LPC code names a socket by its slot      *)
(* alone, and a slot that is closed is reused at once.  Each round of the  *)
(* backend loop selects on the descriptors of all slots and then calls,    *)
(* slot by slot, the read and the write handler of those that were ready.  *)
(* The handlers call LPC callbacks, which may use any socket efun on any   *)
(* slot while the C frames below them still hold a slot number:            *)
(* socket_close() runs the close callback before it closes, and            *)
(* socket_release() runs the callback of the object the socket is for.     *)
(* frames is the stack of those C frames.                                  *)
(*                                                                         *)
(* One step is a stretch of C code between two points where LPC code can   *)
(* run.  MUD mode is STREAM here: its framing only adds reads that call    *)
(* nothing.  A callback is a function name, called in the socket's owner.  *)
(***************************************************************************)
EXTENDS Integers, Sequences, FiniteSets

CONSTANTS
  Objects,     \* LPC objects
  Modes,       \* of the sockets created: a subset of "STREAM", "DATAGRAM"
  Fds,         \* the operating system's file descriptors
  Grow,        \* slots added to a full table: 10 in the build
  MaxSockets,  \* bound: sockets made in one behaviour
  MaxDepth,    \* bound: nested C frames
  NoObject,    \* the null object pointer
  NoFd         \* INVALID_SOCKET

ASSUME SocketsAssumption ==
  /\ Modes \subseteq {"STREAM", "DATAGRAM"}
  /\ Grow \in Nat \ {0}
  /\ MaxSockets \in Nat /\ MaxDepth \in Nat
  /\ NoObject \notin Objects /\ NoFd \notin Fds

VARIABLES
  lpc_socks,   \* a function on 0 .. max_lpc_socks - 1
  flagged,     \* objects with O_EFUN_SOCKET set
  destructed,  \* objects with O_DESTRUCTED set
  frames,      \* C frames below the running LPC code, the innermost last
  pass,        \* process_io(): the handler it is at, and what select() said
  os_fds,      \* descriptors open in the operating system
  made         \* history: sockets made so far, their identities 1 .. made

vars == <<lpc_socks, flagged, destructed, frames, pass, os_fds, made>>

(* peer is the network's side: it belongs to no field of the C struct.     *)
Socket ==
  [id : 1 .. MaxSockets,
   fd : Fds,
   mode : {"STREAM", "DATAGRAM"},
   state : {"FLUSHING", "UNBOUND", "BOUND", "LISTEN", "DATA_XFER"},
   flags : SUBSET {"RELEASE", "BLOCKED", "WACCEPT", "LINKDEAD"},
   owner_ob : Objects,
   release_ob : Objects \union {NoObject},
   close_callback : BOOLEAN,
   w_buf : BOOLEAN,
   peer : {"none", "connecting", "up", "gone"}]

(* A slot after clear_socket(). *)
Closed ==
  [id |-> 0, fd |-> NoFd, mode |-> "STREAM", state |-> "CLOSED", flags |-> {},
   owner_ob |-> NoObject, release_ob |-> NoObject, close_callback |-> FALSE,
   w_buf |-> FALSE, peer |-> "none"]

Frame ==
  [what : {"read", "write", "close"}, slot : Nat, id : 1 .. MaxSockets]
  \union [what : {"release"}, slot : Nat, id : 1 .. MaxSockets, to : Objects,
          taken : BOOLEAN]
  \union [what : {"destruct"}, ob : Objects]

(* at counts the handlers: 2 * slot for reading, 2 * slot + 1 for writing. *)
NoPass == [at |-> 0, readmask |-> {}, writemask |-> {}]
Pass == [at : Nat, readmask : SUBSET Fds, writemask : SUBSET Fds]

Slots == DOMAIN lpc_socks
InUse(s) == s.state \notin {"CLOSED", "FLUSHING"}

TypeOK ==
  /\ \E n \in 0 .. MaxSockets :
       lpc_socks \in [0 .. Grow * n - 1 -> Socket \union {Closed}]
  /\ flagged \subseteq Objects
  /\ destructed \subseteq Objects
  /\ frames \in Seq(Frame)
  /\ pass \in Pass
  /\ os_fds \subseteq Fds
  /\ made \in 0 .. MaxSockets

Init ==
  /\ lpc_socks = [i \in 0 .. -1 |-> Closed]
  /\ flagged = {}
  /\ destructed = {}
  /\ frames = <<>>
  /\ pass = NoPass
  /\ os_fds = {}
  /\ made = 0

-----------------------------------------------------------------------------
(* The table *)

Raised(i, flag) == [lpc_socks EXCEPT ![i].flags = @ \union {flag}]

(* find_new_socket(): the lowest closed slot, in a larger table if need be *)
Roomy(socks) ==
  IF \E i \in Slots : socks[i].state = "CLOSED" THEN socks
  ELSE [i \in 0 .. Cardinality(Slots) + Grow - 1 |->
          IF i \in Slots THEN socks[i] ELSE Closed]

FreeSlot(socks) ==
  CHOOSE i \in DOMAIN Roomy(socks) :
    /\ Roomy(socks)[i].state = "CLOSED"
    /\ \A j \in 0 .. i - 1 : Roomy(socks)[j].state # "CLOSED"

Fresh(fd, mode, owner) ==
  [id |-> made + 1, fd |-> fd, mode |-> mode, state |-> "UNBOUND",
   flags |-> {}, owner_ob |-> owner, release_ob |-> NoObject,
   close_callback |-> mode = "STREAM", w_buf |-> FALSE, peer |-> "none"]

(* A fresh socket, on a descriptor the operating system gives.             *)
NewSocket(socks, s) ==
  /\ made < MaxSockets
  /\ s.fd \notin os_fds
  /\ made' = made + 1
  /\ os_fds' = os_fds \union {s.fd}
  /\ flagged' = flagged \union {s.owner_ob}
  /\ lpc_socks' = [Roomy(socks) EXCEPT ![FreeSlot(socks)] = s]

(* A fault: the descriptor is closed, and the slot is not cleared.         *)
RestUncleared(s) == [s EXCEPT !.state = "CLOSED"]

(* A fault: also a dead socket is left to be flushed.                      *)
RestFlushesDead(s) ==
  IF "BLOCKED" \in s.flags THEN [s EXCEPT !.state = "FLUSHING"] ELSE Closed

(* The rest of socket_close(), after the close callback: a socket that is  *)
(* blocked stays for the write handler to flush.                           *)
Rest(s) ==
  IF "BLOCKED" \in s.flags /\ "LINKDEAD" \notin s.flags
  THEN [s EXCEPT !.state = "FLUSHING", !.close_callback = FALSE]
  ELSE Closed

(* A fault: the descriptor is closed before the data is flushed.           *)
CloseAtOnce(slots, socks) ==
  /\ lpc_socks' = [i \in Slots |-> IF i \in slots THEN Rest(socks[i])
                                                  ELSE socks[i]]
  /\ os_fds' = os_fds \ {socks[i].fd : i \in slots}

(* That rest, for some slots at once; the descriptors are closed by number *)
(* even where the slot was closed before.                                  *)
CloseSlots(slots, socks) ==
  /\ lpc_socks' = [i \in Slots |-> IF i \in slots THEN Rest(socks[i])
                                                  ELSE socks[i]]
  /\ os_fds' = os_fds \ {socks[i].fd : i \in {j \in slots :
                                        Rest(socks[j]).state = "CLOSED"}}

-----------------------------------------------------------------------------
(* call_callback() *)

Push(f) == frames' = Append(frames, f)
Pop == frames' = SubSeq(frames, 1, Len(frames) - 1)
Top == frames[Len(frames)]
TopIs(what) == frames # <<>> /\ Top.what = what

(* Nothing is called in an object that is no more.  A callback's name that *)
(* only the compiler may give, for which call_callback() raises an error   *)
(* of its own, is left out.                                                *)
CanCall(s) == s.owner_ob \notin destructed

Call(i, what) ==
  IF CanCall(lpc_socks[i])
  THEN Push([what |-> what, slot |-> i, id |-> lpc_socks[i].id])
  ELSE UNCHANGED frames

(* socket_close(i, SC_FORCE | SC_DO_CALLBACK | SC_FINAL_CLOSE) on a socket *)
(* found dead: the close callback runs first, with the socket still open.  *)
CloseDead(i) ==
  LET dead == Raised(i, "LINKDEAD") IN
  IF lpc_socks[i].close_callback /\ CanCall(lpc_socks[i])
  THEN /\ Push([what |-> "close", slot |-> i, id |-> lpc_socks[i].id])
       /\ lpc_socks' = dead
       /\ UNCHANGED os_fds
  ELSE CloseSlots({i}, dead) /\ UNCHANGED frames

-----------------------------------------------------------------------------
(* The socket efuns.  LPC code runs in a command, a delayed call or a heart *)
(* beat (no pass), or in a callback; self is the object that calls.  What  *)
(* process_io() runs for users between select() and the first handler      *)
(* (comm.c:1753-1778) is taken to have run before select().                *)

LpcRuns == frames # <<>> \/ pass = NoPass
Mine(self, i) == InUse(lpc_socks[i]) /\ lpc_socks[i].owner_ob = self
Nestable == Len(frames) < MaxDepth

(* The operating system may refuse, with the table grown already. *)
SocketCreate(self, mode) ==
  /\ LpcRuns
  /\ \/ \E fd \in Fds : NewSocket(lpc_socks, Fresh(fd, mode, self))
     \/ /\ made < MaxSockets
        /\ lpc_socks' = Roomy(lpc_socks)
        /\ UNCHANGED <<flagged, os_fds, made>>
  /\ UNCHANGED <<destructed, frames, pass>>

SocketBind(self, i) ==
  /\ LpcRuns
  /\ Mine(self, i)
  /\ lpc_socks[i].state = "UNBOUND"
  /\ lpc_socks' = [lpc_socks EXCEPT ![i].state = "BOUND"]
  /\ UNCHANGED <<flagged, destructed, frames, pass, os_fds, made>>

SocketListen(self, i) ==
  /\ LpcRuns
  /\ Mine(self, i)
  /\ lpc_socks[i].mode = "STREAM"
  /\ lpc_socks[i].state = "BOUND"
  /\ lpc_socks' = [lpc_socks EXCEPT ![i].state = "LISTEN"]
  /\ flagged' = flagged \union {self}
  /\ UNCHANGED <<destructed, frames, pass, os_fds, made>>

(* With nobody at the door only S_WACCEPT goes.  The new socket has the    *)
(* close callback of the listening one, and is blocked unless the kernel   *)
(* lets it write at once.                                                  *)
SocketAccept(self, i) ==
  LET heard == [lpc_socks EXCEPT ![i].flags = @ \ {"WACCEPT"}] IN
  /\ LpcRuns
  /\ Mine(self, i)
  /\ lpc_socks[i].state = "LISTEN"
  /\ \/ lpc_socks' = heard /\ UNCHANGED <<flagged, os_fds, made>>
     \/ \E fd \in Fds, blocked \in {{}, {"BLOCKED"}} :
          NewSocket(heard,
            [Fresh(fd, lpc_socks[i].mode, self) EXCEPT
               !.state = "DATA_XFER", !.flags = blocked, !.peer = "up",
               !.close_callback = lpc_socks[i].close_callback])
  /\ UNCHANGED <<destructed, frames, pass>>

(* The connection is refused, or under way: the socket is blocked until    *)
(* select() says that it can be written.                                   *)
SocketConnect(self, i) ==
  /\ LpcRuns
  /\ Mine(self, i)
  /\ lpc_socks[i].mode = "STREAM"
  /\ lpc_socks[i].state \in {"UNBOUND", "BOUND"}
  /\ flagged' = flagged \union {self}
  /\ \/ UNCHANGED lpc_socks
     \/ lpc_socks' = [lpc_socks EXCEPT ![i].state = "DATA_XFER",
                                       ![i].flags = @ \union {"BLOCKED"},
                                       ![i].peer = "connecting"]
  /\ UNCHANGED <<destructed, frames, pass, os_fds, made>>

(* A write that goes out whole, or not at all, changes nothing here.  One  *)
(* that goes out in part leaves the rest to the write handler; one that    *)
(* fails closes the socket.                                                *)
SocketWrite(self, i) ==
  /\ LpcRuns
  /\ Mine(self, i)
  /\ lpc_socks[i].state = "DATA_XFER"
  /\ "BLOCKED" \notin lpc_socks[i].flags
  /\ \/ /\ lpc_socks[i].peer = "up"
        /\ lpc_socks' = [lpc_socks EXCEPT ![i].flags = @ \union {"BLOCKED"},
                                          ![i].w_buf = TRUE]
        /\ UNCHANGED <<frames, os_fds>>
     \/ /\ lpc_socks[i].peer # "up"
        /\ Nestable
        /\ CloseDead(i)
  /\ UNCHANGED <<flagged, destructed, pass, made>>

SocketClose(self, i) ==
  /\ LpcRuns
  /\ Mine(self, i)
  /\ CloseSlots({i}, lpc_socks)
  /\ UNCHANGED <<flagged, destructed, frames, pass, made>>

(* socket_release(i, ob, callback): the callback runs in ob.               *)
SocketRelease(self, i, ob) ==
  /\ LpcRuns
  /\ Mine(self, i)
  /\ "RELEASE" \notin lpc_socks[i].flags
  /\ ob \notin destructed
  /\ Nestable
  /\ lpc_socks' = [Raised(i, "RELEASE") EXCEPT ![i].release_ob = ob]
  /\ Push([what |-> "release", slot |-> i, id |-> lpc_socks[i].id, to |-> ob,
           taken |-> FALSE])
  /\ UNCHANGED <<flagged, destructed, pass, os_fds, made>>

(* O_EFUN_SOCKET is not set. *)
SocketAcquire(self, i) ==
  /\ LpcRuns
  /\ InUse(lpc_socks[i])
  /\ "RELEASE" \in lpc_socks[i].flags
  /\ lpc_socks[i].release_ob = self
  /\ lpc_socks' = [lpc_socks EXCEPT ![i].flags = @ \ {"RELEASE"},
                                    ![i].owner_ob = self,
                                    ![i].release_ob = NoObject,
                                    ![i].close_callback = TRUE]
  /\ frames' = [k \in DOMAIN frames |->
                  IF frames[k].what = "release" /\ frames[k].id = lpc_socks[i].id
                  THEN [frames[k] EXCEPT !.taken = TRUE] ELSE frames[k]]
  /\ UNCHANGED <<flagged, destructed, pass, os_fds, made>>

-----------------------------------------------------------------------------
(* The end of an owner *)

(* close_referencing_sockets(ob), if O_EFUN_SOCKET is set. *)
CloseOwned(ob) ==
  CloseSlots({i \in Slots : /\ ob \in flagged
                            /\ InUse(lpc_socks[i])
                            /\ lpc_socks[i].owner_ob = ob}, lpc_socks)

(* destruct_object(ob): its sockets go first.  If it contains objects LPC  *)
(* code moves them out, before ob is marked as destructed.                 *)
Destruct(ob) ==
  /\ LpcRuns
  /\ ob \notin destructed
  /\ CloseOwned(ob)
  /\ \/ destructed' = destructed \union {ob} /\ UNCHANGED frames
     \/ Nestable /\ Push([what |-> "destruct", ob |-> ob]) /\ UNCHANGED destructed
  /\ UNCHANGED <<flagged, pass, made>>

(* The contents are out, or an error in there has undone the call. *)
DestructEnds ==
  /\ TopIs("destruct")
  /\ Pop
  /\ destructed' \in {destructed, destructed \union {Top.ob}}
  /\ UNCHANGED <<lpc_socks, flagged, pass, os_fds, made>>

ReloadObject(ob) ==
  /\ LpcRuns
  /\ ob \notin destructed
  /\ CloseOwned(ob)
  /\ UNCHANGED <<flagged, destructed, frames, pass, made>>

-----------------------------------------------------------------------------
(* Callbacks return, or fail with an error that is caught below them.      *)

CallbackReturns ==
  /\ TopIs("read") \/ TopIs("write")
  /\ Pop
  /\ UNCHANGED <<lpc_socks, flagged, destructed, pass, os_fds, made>>

(* socket_close() goes on with its slot, whatever is in it now. *)
CloseGoesOn ==
  /\ TopIs("close")
  /\ Pop
  /\ CloseSlots({Top.slot}, lpc_socks)
  /\ UNCHANGED <<flagged, destructed, pass, made>>

(* A fault: the answer depends on who owns the slot by now.                *)
ReleasedByOwner(f) ==
  IF lpc_socks[f.slot].owner_ob = f.to THEN "EESUCCESS" ELSE "EESOCKNOTRLSD"

(* What socket_release() returns to its caller. *)
Released(f) ==
  IF "RELEASE" \in lpc_socks[f.slot].flags THEN "EESOCKNOTRLSD"
                                           ELSE "EESUCCESS"

ReleaseGoesOn ==
  /\ TopIs("release")
  /\ Pop
  /\ lpc_socks' =
       IF Released(Top) = "EESUCCESS" THEN lpc_socks
       ELSE [lpc_socks EXCEPT ![Top.slot].flags = @ \ {"RELEASE"},
                              ![Top.slot].release_ob = NoObject]
  /\ UNCHANGED <<flagged, destructed, pass, os_fds, made>>

-----------------------------------------------------------------------------
(* make_selectmasks(), select() and process_io() *)

WantsRead == {i \in Slots : /\ InUse(lpc_socks[i])
                            /\ "WACCEPT" \notin lpc_socks[i].flags}
WantsWrite == {i \in Slots : "BLOCKED" \in lpc_socks[i].flags}

(* Any of the descriptors asked for may be ready, but one that is still    *)
(* connecting.                                                             *)
Ready(slots) ==
  SUBSET {lpc_socks[i].fd : i \in {j \in slots :
                                     lpc_socks[j].peer # "connecting"}}

StartPass ==
  /\ frames = <<>>
  /\ pass = NoPass
  /\ \E r \in Ready(WantsRead), w \in Ready(WantsWrite) :
       /\ r \union w # {}
       /\ pass' = [at |-> 0, readmask |-> r, writemask |-> w]
  /\ UNCHANGED <<lpc_socks, flagged, destructed, frames, os_fds, made>>

SelectTimesOut == frames = <<>> /\ pass = NoPass /\ UNCHANGED vars

At == pass.at \div 2
Serving(mask, part) ==
  /\ frames = <<>>
  /\ pass # NoPass
  /\ pass.at % 2 = part
  /\ At \in Slots
  /\ lpc_socks[At].state # "CLOSED"
  /\ lpc_socks[At].fd \in mask

NextHandler == pass' = [pass EXCEPT !.at = @ + 1]

(* Neither the slot's fd nor its state calls for this handler; behind the  *)
(* last slot the pass ends.                                                *)
PassOver ==
  /\ frames = <<>>
  /\ pass # NoPass
  /\ ~Serving(pass.readmask, 0)
  /\ ~Serving(pass.writemask, 1)
  /\ IF At \in Slots THEN NextHandler ELSE pass' = NoPass
  /\ UNCHANGED <<lpc_socks, flagged, destructed, frames, os_fds, made>>

(* socket_read_select_handler() *)
ReadHandler ==
  LET s == lpc_socks[At]
      gets == \/ s.state = "BOUND" /\ s.mode = "DATAGRAM"
              \/ s.state = "DATA_XFER" /\ s.peer # "connecting"
  IN
  /\ Serving(pass.readmask, 0)
  /\ NextHandler
  /\ \/ /\ s.state = "LISTEN"                   \* somebody at the door
        /\ lpc_socks' = Raised(At, "WACCEPT")
        /\ Call(At, "read")
        /\ UNCHANGED os_fds
     \/ /\ gets                                  \* data
        /\ Call(At, "read")
        /\ UNCHANGED <<lpc_socks, os_fds>>
     \/ /\ s.state \in {"FLUSHING", "DATA_XFER"} \/ gets   \* not enough, yet
        /\ UNCHANGED <<lpc_socks, frames, os_fds>>
     \/ /\ gets \/ s.state \in {"UNBOUND", "BOUND"}        \* the end
        /\ CloseDead(At)
  /\ UNCHANGED <<flagged, destructed, made>>

(* socket_write_select_handler() *)
WriteHandler ==
  LET s == lpc_socks[At]
      rest == "BLOCKED" \in s.flags /\ "LINKDEAD" \notin s.flags
      sent == [lpc_socks EXCEPT ![At].w_buf = FALSE,
                                ![At].flags = @ \ {"BLOCKED"}]
  IN
  /\ Serving(pass.writemask, 1)
  /\ NextHandler
  /\ \/ /\ ~rest \/ s.w_buf                      \* nothing, or not all sent
        /\ UNCHANGED <<lpc_socks, frames, os_fds>>
     \/ /\ rest /\ s.w_buf /\ s.peer # "up"       \* the write fails
        /\ IF s.state = "FLUSHING"
           THEN CloseSlots({At}, sent) /\ UNCHANGED frames
           ELSE CloseDead(At)
     \/ /\ rest                                  \* all is sent
        /\ IF s.state = "FLUSHING"
           THEN CloseSlots({At}, sent) /\ UNCHANGED frames
           ELSE Call(At, "write") /\ lpc_socks' = sent /\ UNCHANGED os_fds
  /\ UNCHANGED <<flagged, destructed, made>>

-----------------------------------------------------------------------------
(* Outside the driver: the network answers. *)
Network ==
  \E i \in Slots :
    /\ \/ /\ lpc_socks[i].peer = "connecting"
          /\ lpc_socks' = [lpc_socks EXCEPT ![i].peer = "up"]
       \/ /\ lpc_socks[i].peer \in {"connecting", "up"}
          /\ lpc_socks' = [lpc_socks EXCEPT ![i].peer = "gone"]
    /\ UNCHANGED <<flagged, destructed, frames, pass, os_fds, made>>

-----------------------------------------------------------------------------
Lpc ==
  \E self \in Objects :
    \/ \E mode \in Modes : SocketCreate(self, mode)
    \/ Destruct(self)
    \/ ReloadObject(self)
    \/ \E i \in Slots :
         \/ SocketBind(self, i)
         \/ SocketListen(self, i)
         \/ SocketAccept(self, i)
         \/ SocketConnect(self, i)
         \/ SocketWrite(self, i)
         \/ SocketClose(self, i)
         \/ \E ob \in Objects : SocketRelease(self, i, ob)
         \/ SocketAcquire(self, i)

Returns == CallbackReturns \/ CloseGoesOn \/ ReleaseGoesOn \/ DestructEnds
ProcessIo == PassOver \/ ReadHandler \/ WriteHandler

Next == Lpc \/ Returns \/ StartPass \/ SelectTimesOut \/ ProcessIo \/ Network

Spec == Init /\ [][Next]_vars

-----------------------------------------------------------------------------
(* Properties *)

(* Through nested closes, reused slots and stale frames the table and the  *)
(* operating system agree: each open descriptor belongs to exactly one     *)
(* slot, and each slot in use has one.  Were it not so, descriptors would  *)
(* leak, or one that by now is a user's or a file's would be closed.       *)
FdsMatchSlots ==
  LET taken == {i \in Slots : lpc_socks[i].state # "CLOSED"} IN
  /\ os_fds = {lpc_socks[i].fd : i \in taken}
  /\ \A i, j \in taken : lpc_socks[i].fd = lpc_socks[j].fd => i = j

(* A socket that is being flushed, and one with data to send, is polled    *)
(* for writing, and the write handler will not turn it away: no slot is    *)
(* left in FLUSHING, no data in w_buf, that nothing ever looks at again.   *)
WritesArePolled ==
  \A i \in Slots :
    LET s == lpc_socks[i] IN
    /\ s.state = "FLUSHING" \/ s.w_buf => i \in WantsWrite
    /\ s.state = "FLUSHING" => "LINKDEAD" \notin s.flags

(* Whatever happens to the slot while the callback of socket_release()     *)
(* runs, a socket is on offer only to the object it was released to and    *)
(* only while that callback runs: the offer does not outlive it, nor pass  *)
(* to another socket in its slot (lib/doc/efun/all/socket_acquire:26).  A  *)
(* handshake that was completed is reported as EESUCCESS, and one that was *)
(* not as EESOCKNOTRLSD unless the callback has closed the socket.         *)
StillThere(f) == lpc_socks[f.slot].id = f.id /\ InUse(lpc_socks[f.slot])
ReleasesAreHandshakes ==
  /\ \A i \in Slots :
       LET s == lpc_socks[i] IN
       InUse(s) /\ "RELEASE" \in s.flags =>
         \E k \in DOMAIN frames :
           /\ frames[k].what = "release"
           /\ frames[k].slot = i /\ frames[k].id = s.id
           /\ frames[k].to = s.release_ob /\ ~frames[k].taken
  /\ TopIs("release") =>
       /\ Top.taken => Released(Top) = "EESUCCESS"
       /\ ~Top.taken /\ StillThere(Top) => Released(Top) = "EESOCKNOTRLSD"
=============================================================================
