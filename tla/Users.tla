--------------------------------- MODULE Users ---------------------------------
(***************************************************************************)
(* Connections and the objects they belong to (fluffos/comm.c, simulate.c, *)
(* packages/contrib.c): how a connection is made, handed from object to    *)
(* object, snooped and closed.                                             *)
(*                                                                         *)
(* An object that controls a connection points to it (ob->interactive),    *)
(* and the connection, which sits in all_users, points back (ip->ob).      *)
(* While connect() runs in the master object the new connection belongs to *)
(* the master.  exec() moves a connection; destruct(), a read error and    *)
(* the efun remove_interactive() close one, the last two with a call of    *)
(* net_dead() in between, which may do anything LPC code can do, to other  *)
(* connections too.  A snooper is an object; what it snoops is a           *)
(* connection, whichever object controls that.                             *)
(*                                                                         *)
(* frames is the stack of the C functions that wait for LPC code, and of   *)
(* new_set_snoop() when it does not return.  One step is a stretch of C    *)
(* code between two points where LPC code can run.                         *)
(* The editor's buffer, saved when its user goes, is left out.             *)
(***************************************************************************)
EXTENDS Integers, Sequences, FiniteSets

CONSTANTS
  Objects,    \* LPC objects other than the master object
  Ips,        \* interactive structures: connections
  Master,     \* the master object
  None,       \* a null pointer
  ExecDying,  \* LPC code may exec() a connection that is being closed
  MaxDepth    \* bound: nested C frames

ASSUME UsersAssumption ==
  /\ Master \notin Objects
  /\ None \notin Objects \union Ips \union {Master}
  /\ IsFiniteSet(Objects) /\ IsFiniteSet(Ips)
  /\ ExecDying \in BOOLEAN
  /\ MaxDepth \in Nat \ {0}

VARIABLES
  interactive,  \* ob->interactive
  all_users,    \* connections in the table
  ip,           \* the fields of a connection
  O_SNOOP,      \* objects with the flag
  destructed,   \* objects with O_DESTRUCTED set
  num_user,     \* the driver's count of connections
  frames,       \* C frames below the running LPC code, the innermost last
  hung_up       \* connections whose client is gone

vars == <<interactive, all_users, ip, O_SNOOP, destructed, num_user, frames,
          hung_up>>

All == Objects \union {Master}

Interactive ==
  [ob : All, closing : BOOLEAN, snooped_by : All \union {None}]

Frame ==
  [what : {"connect", "snoop"}] \union [what : {"net_dead"}, ob : All, ip : Ips]

TypeOK ==
  /\ interactive \in [All -> Ips \union {None}]
  /\ all_users \subseteq Ips
  /\ ip \in [Ips -> Interactive]
  /\ O_SNOOP \subseteq All
  /\ destructed \subseteq Objects
  /\ num_user \in 0 .. Cardinality(Ips)
  /\ frames \in Seq(Frame) /\ Len(frames) <= MaxDepth
  /\ hung_up \subseteq all_users

Fresh == [ob |-> Master, closing |-> FALSE, snooped_by |-> None]

Init ==
  /\ interactive = [o \in All |-> None]
  /\ all_users = {}
  /\ ip = [i \in Ips |-> Fresh]
  /\ O_SNOOP = {}
  /\ destructed = Objects
  /\ num_user = 0
  /\ frames = <<>>
  /\ hung_up = {}

-----------------------------------------------------------------------------
Idle == frames = <<>>
Top == frames[Len(frames)]
Waiting(what) == frames # <<>> /\ Top.what = what
Popped == SubSeq(frames, 1, Len(frames) - 1)
Existing == All \ destructed

(* The driver hangs in new_set_snoop().                                    *)
Stuck == Waiting("snoop")

(* No connection of the table is snooped by ob.                            *)
Unsnooped(f, ob) ==
  [i \in Ips |-> IF i \in all_users /\ f[i].snooped_by = ob
                 THEN [f[i] EXCEPT !.snooped_by = None] ELSE f[i]]

(* A fault: the snooper keeps its flag when what it snoops is closed.      *)
FinishFlagged(f, flags, ob, i) ==
  /\ O_SNOOP' = flags
  /\ ip' = [f EXCEPT ![i] = Fresh]
  /\ interactive' = [interactive EXCEPT ![ob] = None]
  /\ all_users' = all_users \ {i}
  /\ num_user' = num_user - 1
  /\ hung_up' = hung_up \ {i}

(* remove_interactive() from the end of net_dead() on: what it was called  *)
(* with is what it clears.                                                 *)
Finish(f, flags, ob, i) ==
  /\ O_SNOOP' = flags \ {f[i].snooped_by}
  /\ ip' = [f EXCEPT ![i] = Fresh]
  /\ interactive' = [interactive EXCEPT ![ob] = None]
  /\ all_users' = all_users \ {i}
  /\ num_user' = num_user - 1
  /\ hung_up' = hung_up \ {i}

(* A fault: a connection that is being closed is closed again.             *)
RemoveAgain(ob, base) ==
  LET i == interactive[ob]
  IN  IF i = None
      THEN /\ frames' = base
           /\ UNCHANGED <<interactive, all_users, ip, O_SNOOP, num_user,
                          hung_up>>
      ELSE /\ Len(base) < MaxDepth
           /\ ip' = [ip EXCEPT ![i].closing = TRUE]
           /\ frames' = Append(base, [what |-> "net_dead", ob |-> ob, ip |-> i])
           /\ UNCHANGED <<interactive, all_users, O_SNOOP, num_user, hung_up>>

(* remove_interactive(ob, 0), up to the call of net_dead(). *)
Remove(ob, base) ==
  LET i == interactive[ob]
  IN  IF i = None \/ (i \in Ips /\ ip[i].closing)
      THEN /\ frames' = base
           /\ UNCHANGED <<interactive, all_users, ip, O_SNOOP, num_user,
                          hung_up>>
      ELSE /\ Len(base) < MaxDepth
           /\ ip' = [ip EXCEPT ![i].closing = TRUE]
           /\ frames' = Append(base, [what |-> "net_dead", ob |-> ob, ip |-> i])
           /\ UNCHANGED <<interactive, all_users, O_SNOOP, num_user, hung_up>>

NetDeadReturns ==
  /\ Waiting("net_dead")
  /\ frames' = Popped
  /\ Finish(ip, O_SNOOP, Top.ob, Top.ip)
  /\ UNCHANGED destructed

-----------------------------------------------------------------------------
(* new_user_handler() *)

(* Up to the call of connect() in the master object, which gets the        *)
(* connection for that time whatever it has now.                           *)
NewUser ==
  /\ Idle
  /\ \E i \in Ips \ all_users :
       /\ all_users' = all_users \union {i}
       /\ ip' = [ip EXCEPT ![i] = Fresh]
       /\ interactive' = [interactive EXCEPT ![Master] = i]
  /\ num_user' = num_user + 1
  /\ frames' = <<[what |-> "connect"]>>
  /\ UNCHANGED <<O_SNOOP, destructed, hung_up>>

(* connect() returns an object, which becomes the user.  Nothing there     *)
(* looks whether it has a connection: the mudlib's connect() returns one   *)
(* that it has just cloned, which has none.                                *)
ConnectReturns ==
  /\ Waiting("connect")
  /\ interactive[Master] # None
  /\ \E ob \in Existing \ {Master} :
       /\ interactive[ob] = None
       /\ interactive' = [interactive EXCEPT ![ob] = interactive[Master],
                                             ![Master] = None]
       /\ ip' = [ip EXCEPT ![interactive[Master]].ob = ob]
  /\ frames' = Popped
  /\ UNCHANGED <<all_users, O_SNOOP, destructed, num_user, hung_up>>

(* connect() returns no object, or the master has lost the connection,     *)
(* having moved it or destructed itself.                                   *)
ConnectAborts ==
  /\ Waiting("connect")
  /\ Remove(Master, Popped)
  /\ UNCHANGED destructed

(* An error in connect() jumps out of new_user_handler() to the backend    *)
(* loop.  The master's own connect() has one: it destructs the object that *)
(* it could not make.                                                      *)
ConnectFails ==
  /\ Waiting("connect")
  /\ frames' = <<>>
  /\ UNCHANGED <<interactive, all_users, ip, O_SNOOP, destructed, num_user,
                 hung_up>>

-----------------------------------------------------------------------------
(* What LPC code can do at any time: in a command or another call of the   *)
(* backend loop, or in what the innermost frame called                     *)

(* A fresh object in the place of one that nothing points to any more.     *)
NewObject(ob) ==
  /\ ~Stuck
  /\ ob \in destructed
  /\ \A i \in all_users : ip[i].ob # ob /\ ip[i].snooped_by # ob
  /\ \A k \in DOMAIN frames :
       frames[k].what = "net_dead" => frames[k].ob # ob
  /\ destructed' = destructed \ {ob}
  /\ UNCHANGED <<interactive, all_users, ip, O_SNOOP, num_user, frames,
                 hung_up>>

(* A fault: an object that has a connection loses it to the new one.       *)
ExecOnto(to, from) ==
  /\ ~Stuck
  /\ to \in Existing /\ from \in Existing
  /\ to # from
  /\ interactive[from] # None
  /\ ExecDying \/ ~ip[interactive[from]].closing
  /\ interactive' = [interactive EXCEPT ![to] = interactive[from],
                                        ![from] = None]
  /\ ip' = [ip EXCEPT ![interactive[from]].ob = to]
  /\ UNCHANGED <<all_users, O_SNOOP, destructed, num_user, frames, hung_up>>


(* exec(to, from): replace_interactive() *)
Exec(to, from) ==
  /\ ~Stuck
  /\ to \in Existing /\ from \in Existing
  /\ interactive[to] = None
  /\ interactive[from] # None
  /\ ExecDying \/ ~ip[interactive[from]].closing
  /\ interactive' = [interactive EXCEPT ![to] = interactive[from],
                                        ![from] = None]
  /\ ip' = [ip EXCEPT ![interactive[from]].ob = to]
  /\ UNCHANGED <<all_users, O_SNOOP, destructed, num_user, frames, hung_up>>

(* The objects met from by on, each the snooper of the one before, and     *)
(* None if this comes to an end.                                           *)
Above(by) ==
  LET up[n \in 0 .. Cardinality(All)] ==
        IF n = 0 THEN {by}
        ELSE up[n - 1] \union
               {IF interactive[o] = None THEN None
                ELSE ip[interactive[o]].snooped_by : o \in up[n - 1] \ {None}}
  IN  up[Cardinality(All)]

(* snoop(by, victim): new_set_snoop() *)
Snoop(by, victim) ==
  /\ ~Stuck
  /\ by \in Existing /\ victim \in Existing
  /\ interactive[victim] # None
  /\ victim \notin Above(by) /\ None \in Above(by)
  /\ LET i == interactive[victim]
         f == IF by \in O_SNOOP THEN Unsnooped(ip, by) ELSE ip
     IN  /\ O_SNOOP' = (O_SNOOP \ {f[i].snooped_by}) \union {by}
         /\ ip' = [f EXCEPT ![i].snooped_by = by]
  /\ UNCHANGED <<interactive, all_users, destructed, num_user, frames,
                 hung_up>>

(* The test for snooping loops knows the victim only: among snoopers that  *)
(* exec() has closed into a loop without it, the walk never ends, and C    *)
(* code has no evaluation limit.                                           *)
SnoopHangs(by, victim) ==
  /\ ~Stuck
  /\ by \in Existing /\ victim \in Existing
  /\ interactive[victim] # None
  /\ victim \notin Above(by) /\ None \notin Above(by)
  /\ Len(frames) < MaxDepth
  /\ frames' = Append(frames, [what |-> "snoop"])
  /\ UNCHANGED <<interactive, all_users, ip, O_SNOOP, destructed, num_user,
                 hung_up>>

(* snoop(by) *)
StopSnoop(by) ==
  /\ ~Stuck
  /\ by \in Existing \intersect O_SNOOP
  /\ ip' = Unsnooped(ip, by)
  /\ O_SNOOP' = O_SNOOP \ {by}
  /\ UNCHANGED <<interactive, all_users, destructed, num_user, frames,
                 hung_up>>

(* The efun remove_interactive(ob) *)
Disconnect(ob) ==
  /\ ~Stuck
  /\ ob \in Existing
  /\ interactive[ob] # None
  /\ Remove(ob, frames)
  /\ UNCHANGED destructed

(* destruct(ob): it stops snooping, then it is destructed, then its        *)
(* connection goes without a net_dead().  A connection that is being       *)
(* closed is left to the frame that closes it.  The master is replaced by  *)
(* a fresh copy.                                                           *)
Destruct(ob) ==
  /\ ~Stuck
  /\ ob \in Existing
  /\ destructed' = destructed \union ({ob} \ {Master})
  /\ LET f == IF ob \in O_SNOOP THEN Unsnooped(ip, ob) ELSE ip
         i == interactive[ob]
     IN  IF i = None \/ (i \in Ips /\ ip[i].closing)
         THEN /\ ip' = f
              /\ O_SNOOP' = O_SNOOP \ {ob}
              /\ UNCHANGED <<interactive, all_users, num_user, hung_up>>
         ELSE Finish(f, O_SNOOP \ {ob}, ob, i)
  /\ UNCHANGED frames

Lpc ==
  \/ \E ob \in Objects : NewObject(ob)
  \/ \E to, from \in All : Exec(to, from)
  \/ \E by, victim \in All : Snoop(by, victim)
  \/ \E by, victim \in All : SnoopHangs(by, victim)
  \/ \E by \in All : StopSnoop(by)
  \/ \E ob \in All : Disconnect(ob)
  \/ \E ob \in All : Destruct(ob)

-----------------------------------------------------------------------------
(* The client goes away. *)
ClientHangsUp ==
  /\ \E i \in all_users \ hung_up : hung_up' = hung_up \union {i}
  /\ UNCHANGED <<interactive, all_users, ip, O_SNOOP, destructed, num_user,
                 frames>>

(* process_io() and get_user_data(): a read that ends or fails, or a link  *)
(* that was found dead, removes the connection of the object that the      *)
(* connection points to.                                                   *)
ReadFails(i) ==
  /\ Idle
  /\ i \in hung_up /\ ~ip[i].closing
  /\ Remove(ip[i].ob, frames)
  /\ UNCHANGED destructed

-----------------------------------------------------------------------------
Next ==
  \/ NewUser \/ ConnectReturns \/ ConnectAborts \/ ConnectFails
  \/ Lpc \/ NetDeadReturns
  \/ ClientHangsUp \/ \E i \in Ips : ReadFails(i)
  \/ Stuck /\ UNCHANGED vars

(* LPC code ends, for it has an evaluation limit, and the backend loop     *)
(* comes back to every connection, unless the driver hangs.                *)
Fairness ==
  /\ SF_vars(NetDeadReturns)
  /\ SF_vars(ConnectReturns \/ ConnectAborts \/ ConnectFails)
  /\ \A i \in Ips : SF_vars(ReadFails(i))

Spec == Init /\ [][Next]_vars
FairSpec == Spec /\ Fairness

-----------------------------------------------------------------------------
(* Properties *)

(* A connection that connect() failed to give to a user. *)
Lost(i) == ip[i].ob = Master /\ interactive[Master] # i

(* The links agree: what an object points to is a connection of the table  *)
(* that points back to it, also while connections are moved and objects    *)
(* destructed in the middle of a removal; and a connection of the table is *)
(* pointed to by its object unless connect() failed.  users() fills an     *)
(* array of num_user places from the table: the count is right too         *)
(* (comm.c:1965-2013, 2347-2424, 3022-3050, array.c:495).                  *)
LinksAgree ==
  /\ \A o \in All : interactive[o] # None =>
       /\ interactive[o] \in all_users
       /\ ip[interactive[o]].ob = o
       /\ o \in destructed => ip[interactive[o]].closing
  /\ \A i \in all_users : ~Lost(i) => interactive[ip[i].ob] = i
  /\ num_user = Cardinality(all_users)

(* query_snooping() ends the driver when an object with O_SNOOP snoops     *)
(* nobody: an object has the flag just when it snoops one connection, and  *)
(* no connection keeps a destructed snooper (comm.c:3001-3012).            *)
SnoopersSnoop ==
  /\ \A o \in All :
       Cardinality({i \in all_users : ip[i].snooped_by = o})
         = IF o \in O_SNOOP THEN 1 ELSE 0
  /\ \A i \in all_users : ip[i].snooped_by \notin destructed

(* A connection is closed by one frame at a time, which calls net_dead()   *)
(* once, though the object may be disconnected or destructed again by what *)
(* it calls (comm.c:2349-2354).                                            *)
ClosedByOneFrame ==
  \A i \in all_users :
    Cardinality({k \in DOMAIN frames :
                   frames[k].what = "net_dead" /\ frames[k].ip = i})
      = IF ip[i].closing THEN 1 ELSE 0


(* A connection points to the object that it belongs to (comm.h:72).       *)
ConnectionsBelong == \A i \in all_users : interactive[ip[i].ob] = i
=============================================================================
