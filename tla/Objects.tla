------------------------------- MODULE Objects --------------------------------
(***************************************************************************)
(* Where objects are, who shadows whom, which actions they give each       *)
(* other, and how they are destructed (fluffos/simulate.c, add_action.c,   *)
(* and the shadow efuns).                                                  *)
(*                                                                         *)
(* move_object() and destruct_object() call LPC code in the middle of      *)
(* their work: init() in everything a moved object meets, and              *)
(* move_or_destruct() in everything a destructed object holds.  That code  *)
(* may move, shadow and destruct what it likes, while the C frames below   *)
(* hold pointers read before the call.  frames is the stack of those C     *)
(* frames; one step is a stretch of C code between two of those calls.     *)
(* Left out is what the mudlib's error handler may do, and the master's    *)
(* get_save_file_name(), asked for an editor's text (simulate.c:841).      *)
(***************************************************************************)
EXTENDS Integers, Sequences, FiniteSets, SequencesExt

CONSTANTS
  Objects,      \* LPC objects
  Users,        \* those that give commands, and may call enable_commands()
  AddsActions,  \* those whose code calls add_action()
  Shadows,      \* those valid_shadow() lets shadow: the files of DIR_SHADOWS
  MaxEfuns,     \* bound: efuns LPC code calls in one behaviour
  MaxDepth,     \* CFG_MAX_CALL_DEPTH, counted in calls of LPC code from C code
  NoObject      \* the null object pointer

ASSUME ObjectsAssumption ==
  /\ Users \subseteq Objects
  /\ AddsActions \subseteq Objects
  /\ Shadows \subseteq Objects
  /\ MaxEfuns \in Nat /\ MaxDepth \in Nat
  /\ NoObject \notin Objects

VARIABLES
  super,              \* an object's environment
  inv,                \* its contains / next_inv list
  shadowing,          \* the object it shadows
  shadowed,           \* the object that shadows it
  living,             \* objects with O_ENABLE_COMMANDS set
  sent,               \* the actions an object has as a user, by who defined them
  destructed,         \* objects with O_DESTRUCTED set
  restrict_destruct,  \* the one object that may be destructed, if any
  command_giver,
  frames,             \* C frames below the running LPC code, the innermost last
  caught,             \* history: an error was caught in a call a frame waits for
  efuns               \* efuns called so far, for the bound

vars == <<super, inv, shadowing, shadowed, living, sent, destructed,
          restrict_destruct, command_giver, frames, caught, efuns>>

places == <<super, inv>>
chains == <<shadowing, shadowed>>

Pointer == Objects \union {NoObject}

(* loose marks an action that was added to a user who was not living, or   *)
(* who had no environment in common with the object that defined it.       *)
Sentence == [ob : Objects, loose : BOOLEAN]

(* LPC code runs in a call made from a frame of these kinds; in the other  *)
(* kinds C code goes on at once.                                           *)
InitCalls == {"room", "item", "bystander", "carrier"}
LpcCalls == InitCalls \union {"moved"}
MoveKinds == InitCalls \union {"arriving", "meeting"}

Frame ==
  [in : MoveKinds, item : Objects, dest : Objects,
   ob : Pointer, next : Pointer, giver : Pointer]
  \union [in : {"destruct"}, ob : Objects]
  \union [in : {"chain"}, ob2 : Pointer]
  \union [in : {"contents", "moved"}, ob : Objects, otmp : Pointer,
          save : Pointer]

TypeOK ==
  /\ super \in [Objects -> Pointer]
  /\ inv \in [Objects -> Seq(Objects)]
  /\ shadowing \in [Objects -> Pointer]
  /\ shadowed \in [Objects -> Pointer]
  /\ living \subseteq Users
  /\ sent \in [Objects -> SUBSET Sentence]
  /\ destructed \subseteq Objects
  /\ restrict_destruct \in Pointer
  /\ command_giver \in Pointer
  /\ frames \in Seq(Frame)
  /\ caught \in BOOLEAN
  /\ efuns \in 0 .. MaxEfuns

Init ==
  /\ super = [o \in Objects |-> NoObject]
  /\ inv = [o \in Objects |-> <<>>]
  /\ shadowing = [o \in Objects |-> NoObject]
  /\ shadowed = [o \in Objects |-> NoObject]
  /\ living = {}
  /\ sent = [o \in Objects |-> {}]
  /\ destructed = {}
  /\ restrict_destruct = NoObject
  /\ command_giver = NoObject
  /\ frames = <<>>
  /\ caught = FALSE
  /\ efuns = 0

-----------------------------------------------------------------------------
(* Pointers *)

(* o and what following the pointers link from it leads to                 *)
Reached(link, o) ==
  {p \in Objects :
     \A S \in SUBSET Objects :
       o \in S /\ (\A q \in S : link[q] \in S \union {NoObject}) => p \in S}

End(link, o) == CHOOSE p \in Reached(link, o) : link[p] = NoObject

Acyclic(link) ==
  \A S \in SUBSET Objects : S # {} => \E o \in S : link[o] \notin S

(* ob->contains and ob->next_inv                                           *)
First(list) == IF list = <<>> THEN NoObject ELSE Head(list)

NextInv(o) ==
  IF super[o] = NoObject THEN NoObject
  ELSE LET rest == {p \in 1 .. Len(inv[super[o]]) - 1 : inv[super[o]][p] = o}
       IN  IF rest = {} THEN NoObject
           ELSE inv[super[o]][(CHOOSE p \in rest : TRUE) + 1]

(* The environment of an object and all it holds, the object among them    *)
Around(o) ==
  IF super[o] = NoObject THEN {} ELSE {super[o]} \union ToSet(inv[super[o]])

(* A fault: those around keep the actions of the one that leaves.          *)
PartedFromHalf(o, all) ==
  [u \in Objects |->
     IF u = o /\ u \in living THEN {s \in sent[u] : s.ob \notin all}
     ELSE sent[u]]

(* remove_sent(), both ways, between o and all others, those around it:    *)
(* only a user who is living loses actions.                                *)
PartedFrom(o, all) ==
  [u \in Objects |->
     IF u \notin living THEN sent[u]
     ELSE IF u = o THEN {s \in sent[u] : s.ob \notin all}
     ELSE IF u \in all THEN {s \in sent[u] : s.ob # o}
     ELSE sent[u]]

(* An object is in the list of its environment, and once.                  *)
Place(o) == CHOOSE p \in DOMAIN inv[super[o]] : inv[super[o]][p] = o

Without(o) ==
  IF super[o] = NoObject THEN inv
  ELSE [inv EXCEPT ![super[o]] = RemoveAt(@, Place(o))]

-----------------------------------------------------------------------------
(* The stack *)

Top == Last(frames)
Below == Front(frames)
Goes(f) == Append(Below, f)

CRuns == frames # <<>> /\ Top.in \notin LpcCalls
LpcRuns == ~CRuns

(* Calls nested too deep are an error, "Too deep recursion".               *)
MayNest == Cardinality({i \in DOMAIN frames : frames[i].in \in LpcCalls}) < MaxDepth

(* The frames change to f; a caught error is forgotten with the last.      *)
Stack(f) ==
  /\ frames' = f
  /\ caught' = (caught /\ f # <<>>)

(* command_giver after the frames above the first k are given up           *)
GiverAt(k) ==
  LET cut == {i \in k + 1 .. Len(frames) :
                frames[i].in \in MoveKinds}
  IN  IF cut = {} THEN command_giver
      ELSE frames[CHOOSE i \in cut : \A j \in cut : i <= j].giver

(* error(): the frames are given up, down to the LPC code that catches the *)
(* error, or all of them and the task with them.                           *)
Error ==
  /\ restrict_destruct' = NoObject
  /\ UNCHANGED <<places, chains, living, sent, destructed>>
  /\ \/ /\ frames' = <<>> /\ caught' = FALSE
        /\ command_giver' = NoObject
     \/ \E k \in 0 .. Len(frames) :
          /\ k > 0 => frames[k].in \in LpcCalls
          /\ frames' = SubSeq(frames, 1, k)
          /\ caught' = (k > 0)
          /\ command_giver' = GiverAt(k)

-----------------------------------------------------------------------------
(* move_object() and setup_new_commands() *)

(* A fault: only a move into the object itself is refused.                 *)
MayEnterOthers(item, dest) == item # dest /\ shadowing[item] = NoObject

(* Nothing moves inside itself, and a shadow does not move at all.         *)
MayEnter(item, dest) ==
  item \notin Reached(super, dest) /\ shadowing[item] = NoObject

(* Code in item moves it to dest. *)
MoveObject(item, dest) ==
  /\ item \notin destructed /\ dest \notin destructed
  /\ MayEnter(item, dest)
  /\ sent' = PartedFrom(item, Around(item) \ {item})
  /\ super' = [super EXCEPT ![item] = dest]
  /\ inv' = [Without(item) EXCEPT ![dest] = <<item>> \o @]
  /\ Stack(Append(frames,
       [in |-> "arriving", item |-> item, dest |-> dest, ob |-> NoObject,
        next |-> NoObject, giver |-> command_giver]))
  /\ UNCHANGED <<chains, living, destructed, restrict_destruct, command_giver>>

MoveFails(item, dest) ==
  /\ item \notin destructed /\ dest \notin destructed
  /\ ~MayEnter(item, dest)
  /\ Error

(* init() is called in one object, with another as the command giver.      *)
CallInit(kind, giver, next) ==
  \/ ~MayNest /\ Error
  \/ /\ MayNest
     /\ Stack(Goes([Top EXCEPT !.in = kind, !.next = next]))
     /\ command_giver' = giver
     /\ UNCHANGED <<places, chains, living, sent, destructed, restrict_destruct>>

(* The walk goes on at another object, after a call or without one.        *)
MeetNext(next) ==
  /\ Stack(Goes([Top EXCEPT !.in = "meeting", !.ob = next,
                          !.next = NoObject]))
  /\ command_giver' = Top.giver
  /\ UNCHANGED <<places, chains, living, sent, destructed, restrict_destruct>>

MoveReturns ==
  /\ Stack(Below)
  /\ command_giver' = Top.giver
  /\ UNCHANGED <<places, chains, living, sent, destructed, restrict_destruct>>

Arrive ==
  /\ CRuns /\ Top.in = "arriving"
  /\ IF Top.item \in living THEN CallInit("room", Top.item, NoObject)
     ELSE MeetNext(First(inv[Top.dest]))

Meet ==
  /\ CRuns /\ Top.in = "meeting"
  /\ LET item == Top.item
         dest == Top.dest
         ob == Top.ob
     IN  \/ ob = NoObject /\ item \notin destructed /\ dest \notin destructed
            /\ IF dest \in living THEN CallInit("carrier", dest, NoObject)
               ELSE MoveReturns
         \/ ob = NoObject /\ (item \in destructed \/ dest \in destructed)
            /\ Error
         \/ ob = item /\ MeetNext(NextInv(ob))
         \/ ob \notin {item, NoObject} /\ ob \in destructed /\ Error
         \/ /\ ob \notin {item, NoObject} /\ ob \notin destructed
            /\ IF ob \in living THEN CallInit("item", ob, NextInv(ob))
               ELSE IF item \in living
               THEN CallInit("bystander", item, NextInv(ob))
               ELSE MeetNext(NextInv(ob))

(* init() returns.  An item that is no longer in dest ends the walk.       *)
InitReturns ==
  /\ frames # <<>> /\ Top.in \in InitCalls
  /\ LET item == Top.item
         stays == super[item] = Top.dest
     IN  \/ Top.in = "carrier" /\ MoveReturns
         \/ Top.in # "carrier" /\ ~stays /\ MoveReturns
         \/ Top.in = "room" /\ stays /\ MeetNext(First(inv[Top.dest]))
         \/ /\ Top.in = "item" /\ stays
            /\ item \in destructed \/ Top.ob \in destructed
            /\ Error
         \/ /\ Top.in = "item" /\ stays
            /\ item \notin destructed /\ Top.ob \notin destructed
            /\ IF item \in living THEN CallInit("bystander", item, Top.next)
               ELSE MeetNext(Top.next)
         \/ Top.in = "bystander" /\ stays /\ MeetNext(Top.next)

-----------------------------------------------------------------------------
(* destruct_object() *)

Starts(ob) ==
  /\ Stack(Append(frames, [in |-> "destruct", ob |-> ob]))
  /\ UNCHANGED <<places, chains, living, sent, destructed, restrict_destruct,
                 command_giver>>

(* The efun, in any LPC code. *)
Destruct(ob) == ob \notin destructed /\ Starts(ob)

(* A fault: the neighbours in the chain are left as they are.              *)
UnlinkedHalf(o) ==
  /\ shadowing' = [shadowing EXCEPT ![o] = NoObject]
  /\ shadowed' = [p \in Objects |->
       IF p = o THEN NoObject
       ELSE IF p = shadowing[o] THEN shadowed[o] ELSE shadowed[p]]

(* A shadow is taken out of its chain. *)
Unlinked(o) ==
  /\ shadowing' = [p \in Objects |->
       IF p = o THEN NoObject
       ELSE IF p = shadowed[o] THEN shadowing[o] ELSE shadowing[p]]
  /\ shadowed' = [p \in Objects |->
       IF p = o THEN NoObject
       ELSE IF p = shadowing[o] THEN shadowed[o] ELSE shadowed[p]]

DestructStarts ==
  /\ CRuns /\ Top.in = "destruct"
  /\ LET ob == Top.ob
     IN  \/ restrict_destruct \notin {ob, NoObject} /\ Error
         \/ /\ restrict_destruct \in {ob, NoObject}
            /\ UNCHANGED <<places, living, sent, destructed, restrict_destruct,
                           command_giver>>
            /\ \/ ob \in destructed /\ Stack(Below) /\ UNCHANGED chains
               \/ /\ ob \notin destructed
                  /\ shadowed[ob] # NoObject /\ shadowing[ob] = NoObject
                  /\ Stack(Goes([in |-> "chain", ob2 |-> End(shadowed, ob)]))
                  /\ UNCHANGED chains
               \/ /\ ob \notin destructed
                  /\ shadowed[ob] = NoObject \/ shadowing[ob] # NoObject
                  /\ Stack(Goes([in |-> "contents", ob |-> ob,
                                 otmp |-> NoObject, save |-> restrict_destruct]))
                  /\ Unlinked(ob)

(* A fault: the loop moves on before it destructs.                         *)
ChainFramesAhead(otmp) ==
  Goes([Top EXCEPT !.ob2 = shadowing[otmp]])
    \o <<[in |-> "destruct", ob |-> shadowing[otmp]]>>

(* One object of the chain is to be destructed, and then the next.         *)
ChainFrames(otmp) ==
  Goes([Top EXCEPT !.ob2 = shadowing[otmp]])
    \o <<[in |-> "destruct", ob |-> otmp]>>

(* The chain of shadows goes first, the last shadow before the others, and *)
(* the object itself last.                                                 *)
DestructChain ==
  /\ CRuns /\ Top.in = "chain"
  /\ LET otmp == Top.ob2
     IN  IF otmp = NoObject THEN Stack(Below) /\ UNCHANGED chains
         ELSE /\ Stack(ChainFrames(otmp))
              /\ shadowed' = [p \in Objects |->
                   IF p = shadowing[otmp] THEN NoObject ELSE shadowed[p]]
              /\ shadowing' = [shadowing EXCEPT ![otmp] = NoObject]
  /\ UNCHANGED <<places, living, sent, destructed, restrict_destruct, command_giver>>

(* move_or_destruct() is called in the first of the contents, which may    *)
(* destruct nothing but itself.                                            *)
AskToMove ==
  /\ CRuns /\ Top.in = "contents" /\ inv[Top.ob] # <<>>
  /\ \/ ~MayNest /\ Error
     \/ /\ MayNest
        /\ restrict_destruct' = Head(inv[Top.ob])
        /\ Stack(Goes([Top EXCEPT !.in = "moved", !.otmp = Head(inv[Top.ob])]))
        /\ UNCHANGED <<places, chains, living, sent, destructed, command_giver>>

(* A fault: the restriction is lifted only from what has not moved.        *)
RestrictAfterHalf ==
  IF First(inv[Top.ob]) = Top.otmp THEN Top.save ELSE restrict_destruct

(* restrict_destruct after move_or_destruct() has returned                 *)
RestrictAfter == Top.save

(* move_or_destruct() returns: what is still there is destructed.          *)
MoveOrDestructReturns ==
  /\ frames # <<>> /\ Top.in = "moved"
  /\ restrict_destruct' = RestrictAfter
  /\ LET goesOn == Goes([Top EXCEPT !.in = "contents", !.otmp = NoObject])
     IN  Stack(IF Top.ob \in destructed THEN Below
               ELSE IF First(inv[Top.ob]) = Top.otmp
               THEN Append(goesOn, [in |-> "destruct", ob |-> Top.otmp])
               ELSE goesOn)
  /\ UNCHANGED <<places, chains, living, sent, destructed, command_giver>>

(* Nothing is left in it: it leaves its environment, and goes.             *)
DestructEnds ==
  /\ CRuns /\ Top.in = "contents" /\ inv[Top.ob] = <<>>
  /\ Top.ob \notin destructed
  /\ LET ob == Top.ob
     IN  /\ sent' = PartedFrom(ob, Around(ob))
         /\ living' = living \ {ob}
         /\ inv' = Without(ob)
         /\ super' = [super EXCEPT ![ob] = NoObject]
         /\ destructed' = destructed \union {ob}
  /\ Stack(Below)
  /\ UNCHANGED <<chains, restrict_destruct, command_giver>>

(* remove_object_hash() does not find it a second time: the driver stops.  *)
Fatal ==
  /\ CRuns /\ Top.in = "contents" /\ inv[Top.ob] = <<>>
  /\ Top.ob \in destructed
  /\ UNCHANGED <<places, chains, living, sent, destructed, restrict_destruct,
                 command_giver, frames, caught>>

-----------------------------------------------------------------------------
(* Efuns that only write *)

EfunChanges == UNCHANGED <<places, destructed, restrict_destruct, frames, caught>>

(* shadow(ob): o enters the chain of ob in front of the others.            *)
Shadow(o, ob) ==
  /\ o \in Shadows /\ o # ob
  /\ {o, ob} \intersect destructed = {}
  /\ shadowing[o] = NoObject /\ shadowed[o] = NoObject
  /\ super[o] = NoObject
  /\ shadowing[ob] = NoObject
  /\ LET end == End(shadowed, ob)
     IN  /\ shadowing' = [shadowing EXCEPT ![o] = end]
         /\ shadowed' = [shadowed EXCEPT ![end] = o]
  /\ UNCHANGED <<living, sent, command_giver>> /\ EfunChanges

RemoveShadow(o) ==
  /\ o \notin destructed
  /\ shadowing[o] # NoObject \/ shadowed[o] # NoObject
  /\ Unlinked(o)
  /\ UNCHANGED <<living, sent, command_giver>> /\ EfunChanges

EnableCommands(o) ==
  /\ o \in Users \ destructed
  /\ living' = living \union {o}
  /\ command_giver' = o
  /\ UNCHANGED <<chains, sent>> /\ EfunChanges

DisableCommands(o) ==
  /\ o \in living \ destructed
  /\ sent' = [sent EXCEPT ![o] =
                {s \in @ : s.ob \notin Around(o) \union ToSet(inv[o])}]
  /\ living' = living \ {o}
  /\ command_giver' = IF o = command_giver THEN NoObject ELSE command_giver
  /\ UNCHANGED chains /\ EfunChanges

(* u and o are in each other, or in the same environment.                  *)
Near(u, o) ==
  \/ u = o \/ super[o] = u \/ super[u] = o
  \/ super[u] # NoObject /\ super[u] = super[o]

(* add_action() in o: the action is that of the object o shadows, if any.  *)
(* Two objects without an environment count as near each other.            *)
AddAction(o) ==
  /\ o \in AddsActions \ destructed
  /\ command_giver \notin destructed \union {NoObject}
  /\ LET ob == End(shadowing, o)
         u == command_giver
     IN  /\ Near(u, ob) \/ super[u] = super[ob]
         /\ sent' = [sent EXCEPT ![u] = @ \union
              {[ob |-> ob, loose |-> u \notin living \/ ~Near(u, ob)]}]
  /\ UNCHANGED <<chains, living, command_giver>> /\ EfunChanges

(* remove_action(): sent forgets one that may not be the last of its kind. *)
RemoveAction(o) ==
  /\ o \notin destructed
  /\ LET u == IF command_giver = NoObject THEN o ELSE command_giver
     IN  \E s \in sent[u] :
           s.ob = o /\ sent' = [sent EXCEPT ![u] = @ \ {s}]
  /\ UNCHANGED <<chains, living, command_giver>> /\ EfunChanges

(* The backend begins something else: a command, a call, a heart beat.     *)
NewTask ==
  /\ frames = <<>>
  /\ command_giver' \in (Users \ destructed) \union {NoObject}
  /\ command_giver' # command_giver
  /\ UNCHANGED <<chains, living, sent>> /\ EfunChanges

(* LPC code calls one of the efuns that write what is modelled here:       *)
(* move_object(), shadow(), destruct(), remove_shadow(), enable_commands(),*)
(* disable_commands(), add_action() and remove_action().                   *)
Efun ==
  /\ efuns < MaxEfuns
  /\ efuns' = efuns + 1
  /\ \/ \E o, p \in Objects : MoveObject(o, p) \/ MoveFails(o, p) \/ Shadow(o, p)
     \/ \E o \in Objects :
          \/ Destruct(o) \/ RemoveShadow(o)
          \/ EnableCommands(o) \/ DisableCommands(o)
          \/ AddAction(o) \/ RemoveAction(o)

Next ==
  \/ LpcRuns /\ Efun
  \/ /\ \/ NewTask
        \/ LpcRuns /\ Error
        \/ Arrive \/ Meet \/ InitReturns
        \/ DestructStarts \/ DestructChain
        \/ AskToMove \/ MoveOrDestructReturns
        \/ DestructEnds \/ Fatal
     /\ UNCHANGED efuns

Spec == Init /\ [][Next]_vars

-----------------------------------------------------------------------------
(* Properties *)

(* The inventory lists and the environments say the same, nothing is       *)
(* inside itself, and what is destructed is nowhere: although init() and   *)
(* move_or_destruct() may undo, repeat or cross the very move or destruct  *)
(* that called them.                                                       *)
InventoryMatches ==
  /\ \A o \in Objects :
       /\ super[o] # NoObject => o \in ToSet(inv[super[o]])
       /\ \A p \in ToSet(inv[o]) : super[p] = o
       /\ Cardinality(ToSet(inv[o])) = Len(inv[o])
       /\ o \in destructed => super[o] = NoObject /\ inv[o] = <<>>
  /\ Acyclic(super)

(* Chains of shadows are linked both ways and end, and a shadow is in no   *)
(* environment, also when one of a chain is destructed while the chain is. *)
ShadowsMatch ==
  /\ \A o, p \in Objects : shadowing[o] = p <=> shadowed[p] = o
  /\ Acyclic(shadowing)
  /\ \A o \in Objects : shadowing[o] # NoObject => super[o] = NoObject

(* An action given to a living user by an object near it goes when they    *)
(* part, however they do: add_action() relies on it that the sentence is   *)
(* removed when the command giver leaves.                                  *)
ActionsAreNear ==
  \A u \in Objects \ destructed : \A s \in sent[u] :
    ~s.loose => s.ob \notin destructed /\ Near(u, s.ob)

(* While a move_or_destruct() that has caught no error runs, its object    *)
(* and no other may be destructed, whatever destructs and moves are in     *)
(* progress in it, and when it is over the restriction is what it was.     *)
RestrictMatches ==
  LET asked == {i \in DOMAIN frames : frames[i].in = "moved"}
  IN  ~caught =>
        restrict_destruct =
          IF asked = {} THEN NoObject
          ELSE frames[CHOOSE i \in asked : \A j \in asked : j <= i].otmp

(* simulate.c:826 says of move_or_destruct() "we could be dested by this", *)
(* and returns if so; the rest of destruct_object() is not run for an      *)
(* object that was destructed while its contents were.                     *)
DestructedOnce ==
  CRuns /\ Top.in = "contents" /\ inv[Top.ob] = <<>> => Top.ob \notin destructed
=============================================================================
