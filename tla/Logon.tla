-------------------------------- MODULE Logon ---------------------------------
(***************************************************************************)
(* From a connection to a body (lib/secure/lib/connect.c, with the apply   *)
(* functions of lib/lib/interactive.c and player_object() of the master).  *)
(* A client talks to a logon object, which asks for a name, finds or makes *)
(* the one body of that name, hands the client over with exec() and goes   *)
(* away by one of three delayed calls.  Clients, logon objects and bodies  *)
(* have lives of their own: a client may hang up at any prompt, a body may *)
(* quit or be cleaned up while somebody is at the password prompt, and two *)
(* clients may ask for one name.                                           *)
(*                                                                         *)
(* The questions that create a character are one prompt, an answer that is *)
(* turned down may be asked again or end the logon (the code counts three  *)
(* wrong passwords and two empty names), and the pages of text, the rescue *)
(* suffix, the terminal settings and the guest are left out.               *)
(***************************************************************************)
EXTENDS Integers

CONSTANTS
  Logons,          \* slots for a client and the logon object it is given
  Names,           \* names of characters
  LOGON_TIMEOUT,   \* 360 (include/config.h)
  CheckDelay,      \* 3: eventCheckPending() and eventCre()
  DestructDelay    \* 10: the logon object after eventEnterGame()

ASSUME LogonAssumption ==
  /\ "none" \notin Names /\ "logon" \notin Names
  /\ CheckDelay \in Nat \ {0}
  /\ DestructDelay \in Nat /\ DestructDelay > CheckDelay
  /\ LOGON_TIMEOUT \in Nat /\ LOGON_TIMEOUT >= DestructDelay

NoName == "none"
Off == -1

VARIABLES
  stage,     \* what the logon object waits for, "none" if there is none
  Name,      \* the name it was given
  NetDead,   \* somebody played under that name when it was given
  Player,    \* its body, by name; NoName is 0
  clock,     \* its delayed calls: seconds left, or Off
  idle,      \* seconds since its client's last input
  conn,      \* where the client's connection is: "logon", a body, "none"
  body,      \* per name: "none", "new" (loaded), "set" (Setup() was run)
  saved,     \* per name: the save file exists
  elder      \* history: names played when the client connected, same body

logon == <<stage, Name, NetDead, Player, clock, idle>>
vars == <<logon, conn, body, saved, elder>>

Calls == {"eventTimeout", "check", "destruct"}
NoCalls == [c \in Calls |-> Off]

TypeOK ==
  /\ stage \in [Logons -> {"none", "name", "create", "details", "password",
                           "confirm", "over"}]
  /\ Name \in [Logons -> Names \cup {NoName}]
  /\ NetDead \in [Logons -> BOOLEAN]
  /\ Player \in [Logons -> Names \cup {NoName}]
  /\ clock \in [Logons -> [Calls -> Off .. LOGON_TIMEOUT]]
  /\ idle \in [Logons -> 0 .. LOGON_TIMEOUT + 1]
  /\ conn \in [Logons -> Names \cup {"logon", "none"}]
  /\ body \in [Names -> {"none", "new", "set"}]
  /\ saved \in [Names -> BOOLEAN]
  /\ elder \in [Logons -> SUBSET Names]
  /\ \A l \in Logons :
       /\ Player[l] # NoName => body[Player[l]] # "none"
       /\ conn[l] \in Names => body[conn[l]] # "none"
       /\ stage[l] = "none" => conn[l] # "logon" /\ clock[l] = NoCalls

Init ==
  /\ stage = [l \in Logons |-> "none"]
  /\ Name = [l \in Logons |-> NoName]
  /\ NetDead = [l \in Logons |-> FALSE]
  /\ Player = [l \in Logons |-> NoName]
  /\ clock = [l \in Logons |-> NoCalls]
  /\ idle = [l \in Logons |-> 0]
  /\ conn = [l \in Logons |-> "none"]
  /\ body = [n \in Names |-> "none"]
  /\ saved \in [Names -> BOOLEAN]
  /\ elder = [l \in Logons |-> {}]

-----------------------------------------------------------------------------
interactive(n) == \E l \in Logons : conn[l] = n

(* The efun: a body whose Setup() gave it its living name.                 *)
find_player(n) == body[n] = "set"

(* What is left of the connections c when the bodies in dies are gone.     *)
Without(c, dies) ==
  [k \in Logons |-> IF c[k] \in dies THEN "none" ELSE c[k]]

(* destruct() of bodies: the driver clears every pointer to them.          *)
BodiesDie(dies) ==
  /\ body' = [n \in Names |-> IF n \in dies THEN "none" ELSE body[n]]
  /\ elder' = [k \in Logons |-> elder[k] \ dies]

(* destruct(this_object()), after an exec() left the connections as c:     *)
(* a client still on the logon object loses its connection.                *)
End(l, dies, c) ==
  /\ stage' = [stage EXCEPT ![l] = "none"]
  /\ Name' = [Name EXCEPT ![l] = NoName]
  /\ NetDead' = [NetDead EXCEPT ![l] = FALSE]
  /\ Player' = [k \in Logons |->
                  IF k = l \/ Player[k] \in dies THEN NoName ELSE Player[k]]
  /\ clock' = [clock EXCEPT ![l] = NoCalls]
  /\ idle' = [idle EXCEPT ![l] = 0]
  /\ conn' = Without([c EXCEPT ![l] = IF @ = "logon" THEN "none" ELSE @], dies)
  /\ body' = [n \in Names |-> IF n \in dies THEN "none" ELSE body[n]]
  /\ elder' = [k \in Logons |-> IF k = l THEN {} ELSE elder[k] \ dies]
  /\ UNCHANGED saved

(* Destruct(): the body goes too, unless it was there before the logon.    *)
Destruct(l) ==
  End(l, IF Player[l] # NoName /\ ~NetDead[l] THEN {Player[l]} ELSE {}, conn)

-----------------------------------------------------------------------------
(* The prompts.  Each takes a line from a client that is still there.      *)

(* connect() of the master, then logon(). *)
Connect(l) ==
  /\ stage[l] = "none" /\ conn[l] = "none"
  /\ stage' = [stage EXCEPT ![l] = "name"]
  /\ clock' = [clock EXCEPT ![l]["eventTimeout"] = LOGON_TIMEOUT]
  /\ conn' = [conn EXCEPT ![l] = "logon"]
  /\ elder' = [elder EXCEPT ![l] = {n \in Names : body[n] = "set"}]
  /\ UNCHANGED <<Name, NetDead, Player, idle, body, saved>>

Line(l, s) == stage[l] = s /\ conn[l] = "logon"
Typed(l) == idle' = [idle EXCEPT ![l] = 0]

(* A fault: whoever plays under that name is not looked for.               *)
InputNameAlone(l, n) ==
  /\ Line(l, "name") /\ Typed(l)
  /\ Name' = [Name EXCEPT ![l] = n]
  /\ stage' = [stage EXCEPT ![l] = IF saved[n] THEN "password" ELSE "create"]
  /\ UNCHANGED <<NetDead, Player, clock, conn, body, saved, elder>>

(* An unknown name goes to eventCreatePlayer(), a known one is looked up   *)
(* among those who play and asked for its password.                        *)
InputName(l, n) ==
  /\ Line(l, "name") /\ Typed(l)
  /\ Name' = [Name EXCEPT ![l] = n]
  /\ stage' = [stage EXCEPT ![l] = IF saved[n] THEN "password" ELSE "create"]
  /\ NetDead' = [NetDead EXCEPT ![l] = saved[n] /\ find_player(n)]
  /\ UNCHANGED <<Player, clock, conn, body, saved, elder>>

(* An answer that will not do: asked again, or another name is asked for.  *)
AskAgain(l) ==
  /\ \E s \in {"name", "create", "details", "password"} : Line(l, s)
  /\ Typed(l)
  /\ stage' = IF stage[l] = "create"
              THEN [stage EXCEPT ![l] = "name"] ELSE stage
  /\ UNCHANGED <<Name, NetDead, Player, clock, conn, body, saved, elder>>

(* ... or the logon ends: locked out, banished, too young, "no" to taking  *)
(* over a body, too many passwords.                                        *)
Refuse(l) ==
  /\ \E s \in {"name", "create", "password", "confirm"} : Line(l, s)
  /\ Destruct(l)

(* player_object(): the body of that name, loaded if it is not there.      *)
Load(l) ==
  /\ Player' = [Player EXCEPT ![l] = Name[l]]
  /\ body' = [body EXCEPT ![Name[l]] = IF @ = "none" THEN "new" ELSE @]

(* ConfirmPassword() of a new character. *)
ConfirmPassword(l) ==
  /\ Line(l, "create") /\ Typed(l)
  /\ Load(l)
  /\ stage' = [stage EXCEPT ![l] = "details"]
  /\ UNCHANGED <<Name, NetDead, clock, conn, saved, elder>>

(* eventEnterGame(), with the call that checks for a pending promotion     *)
(* made before it.  exec() is an error when somebody has the body already: *)
(* nothing is asked of the client after that.                              *)
EnterGame(l, n) ==
  /\ stage' = [stage EXCEPT ![l] = "over"]
  /\ IF interactive(n)
     THEN /\ clock' = [clock EXCEPT ![l]["check"] = CheckDelay]
          /\ UNCHANGED conn
     ELSE /\ clock' = [clock EXCEPT ![l]["check"] = CheckDelay,
                                    ![l]["destruct"] = DestructDelay]
          /\ conn' = [conn EXCEPT ![l] = n]

(* A fault: a new character is saved only by autosave, later.              *)
CompleteUnsaved(l) ==
  /\ Line(l, "details") /\ Typed(l)
  /\ IF Player[l] = NoName
     THEN /\ stage' = [stage EXCEPT ![l] = "over"]
          /\ UNCHANGED <<clock, conn, body, saved>>
     ELSE /\ EnterGame(l, Player[l])
          /\ body' = [body EXCEPT ![Player[l]] =
                        IF interactive(Player[l]) THEN @ ELSE "set"]
          /\ UNCHANGED saved
  /\ UNCHANGED <<Name, NetDead, Player, elder>>

(* eventCompleteChar(): a body that is gone is an error at the first call; *)
(* SetPassword() saves the character.                                      *)
CompleteChar(l) ==
  /\ Line(l, "details") /\ Typed(l)
  /\ IF Player[l] = NoName
     THEN /\ stage' = [stage EXCEPT ![l] = "over"]
          /\ UNCHANGED <<clock, conn, body, saved>>
     ELSE /\ EnterGame(l, Player[l])
          /\ body' = [body EXCEPT ![Player[l]] =
                        IF interactive(Player[l]) THEN @ ELSE "set"]
          /\ saved' = [saved EXCEPT ![Player[l]] = TRUE]
  /\ UNCHANGED <<Name, NetDead, Player, elder>>

(* InputPassword(), nobody having played under the name at the prompt.     *)
InputPassword(l) ==
  /\ Line(l, "password") /\ ~NetDead[l] /\ Typed(l)
  /\ Player' = [Player EXCEPT ![l] = Name[l]]
  /\ EnterGame(l, Name[l])
  /\ body' = [body EXCEPT ![Name[l]] =
                IF interactive(Name[l]) THEN @ ELSE "set"]
  /\ UNCHANGED <<Name, NetDead, saved, elder>>

(* eventReEnterGame(): somebody still has the body. *)
AskToTakeOver(l) ==
  /\ Line(l, "password") /\ NetDead[l] /\ interactive(Name[l]) /\ Typed(l)
  /\ Load(l)
  /\ stage' = [stage EXCEPT ![l] = "confirm"]
  /\ UNCHANGED <<Name, NetDead, clock, conn, saved, elder>>

(* eventReEnterGame(): nobody has.  A body in the game is handed over and  *)
(* the logon ends; one that had to be loaded again has no environment for  *)
(* eventReconnect() to speak to, an error that leaves the logon object.    *)
ReEnterGame(l) ==
  /\ Line(l, "password") /\ NetDead[l] /\ ~interactive(Name[l])
  /\ LET c == [conn EXCEPT ![l] = Name[l]]
     IN  \/ find_player(Name[l]) /\ End(l, {}, c)
         \/ /\ ~find_player(Name[l])
            /\ Load(l) /\ Typed(l)
            /\ stage' = [stage EXCEPT ![l] = "over"]
            /\ conn' = c
            /\ UNCHANGED <<Name, NetDead, clock, saved, elder>>

(* ConfirmReconnect(): the other client goes with a body made for the      *)
(* purpose.  When that client or the body is gone, exec() is an error.     *)
ConfirmReconnect(l) ==
  /\ Line(l, "confirm")
  /\ LET n == Player[l]
     IN  \/ /\ n # NoName /\ interactive(n)
            /\ End(l, {}, [Without(conn, {n}) EXCEPT ![l] = n])
         \/ /\ n = NoName \/ ~interactive(n)
            /\ Typed(l)
            /\ stage' = [stage EXCEPT ![l] = "over"]
            /\ UNCHANGED <<Name, NetDead, Player, clock, conn, body, saved,
                           elder>>

(* A line nothing was waiting for. *)
Idle(l) ==
  /\ Line(l, "over") /\ Typed(l) /\ idle[l] # 0
  /\ UNCHANGED <<stage, Name, NetDead, Player, clock, conn, body, saved, elder>>

-----------------------------------------------------------------------------
(* The delayed calls *)

Due(l, c) == clock[l][c] = 0

(* A fault: nobody looks how long the client has been idle.                *)
TimeoutWhenGone(l) ==
  /\ Due(l, "eventTimeout")
  /\ IF conn[l] # "logon"
     THEN Destruct(l)
     ELSE /\ clock' = [clock EXCEPT ![l]["eventTimeout"] = LOGON_TIMEOUT]
          /\ UNCHANGED <<stage, Name, NetDead, Player, idle, conn, body, saved,
                         elder>>

eventTimeout(l) ==
  /\ Due(l, "eventTimeout")
  /\ IF conn[l] # "logon" \/ idle[l] > LOGON_TIMEOUT
     THEN Destruct(l)
     ELSE /\ clock' = [clock EXCEPT ![l]["eventTimeout"] = LOGON_TIMEOUT]
          /\ UNCHANGED <<stage, Name, NetDead, Player, idle, conn, body, saved,
                         elder>>

(* eventCheckPending(), eventCre(): the promotion may fail with an error,  *)
(* which leaves the logon object to its other calls.                       *)
eventCheckPending(l) ==
  /\ Due(l, "check")
  /\ \/ End(l, {}, conn)
     \/ /\ clock' = [clock EXCEPT ![l]["check"] = Off]
        /\ UNCHANGED <<stage, Name, NetDead, Player, idle, conn, body, saved,
                       elder>>

DestructCall(l) == Due(l, "destruct") /\ End(l, {}, conn)

Tick ==
  /\ \A l \in Logons, c \in Calls : ~Due(l, c)
  /\ \E l \in Logons : stage[l] # "none"
  /\ clock' = [l \in Logons |-> [c \in Calls |->
                 IF clock[l][c] = Off THEN Off ELSE clock[l][c] - 1]]
  /\ idle' = [l \in Logons |->
                IF conn[l] = "logon" /\ idle[l] <= LOGON_TIMEOUT
                THEN idle[l] + 1 ELSE idle[l]]
  /\ UNCHANGED <<stage, Name, NetDead, Player, conn, body, saved, elder>>

-----------------------------------------------------------------------------
(* Clients and bodies *)

(* A logon object has no net_dead(); a body's saves it and waits.          *)
HangUp(l) ==
  /\ conn[l] # "none"
  /\ conn' = [conn EXCEPT ![l] = "none"]
  /\ idle' = [idle EXCEPT ![l] = 0]
  /\ saved' = [n \in Names |-> saved[n] \/ conn[l] = n]
  /\ UNCHANGED <<stage, Name, NetDead, Player, clock, body, elder>>

(* A fault: the name of a destructed body is kept.                         *)
LeaveKept(n) ==
  /\ body' = [body EXCEPT ![n] = "none"]
  /\ elder' = [l \in Logons |-> elder[l] \ {n}]
  /\ saved' = [saved EXCEPT ![n] = TRUE]
  /\ conn' = Without(conn, {n})
  /\ UNCHANGED logon

(* eventDestruct() of a body, which was saved when it quit or died.        *)
Leave(n) ==
  /\ BodiesDie({n})
  /\ Player' = [l \in Logons |-> IF Player[l] = n THEN NoName ELSE Player[l]]
  /\ saved' = [saved EXCEPT ![n] = TRUE]
  /\ conn' = Without(conn, {n})
  /\ UNCHANGED <<stage, Name, NetDead, clock, idle>>

(* cmdQuit(), by command or after IDLE_TIMEOUT. *)
Quit(n) == body[n] = "set" /\ interactive(n) /\ Leave(n)

(* clean_room() of the freezer: the living there are destructed.  A body   *)
(* that was set up and that nobody controls has lost its client in         *)
(* HangUp(), whose net_dead() moved it there (lib/lib/interactive.c:184);  *)
(* eventReconnect() takes it out again when somebody has it.               *)
CleanFreezer(n) == body[n] = "set" /\ ~interactive(n) /\ Leave(n)

-----------------------------------------------------------------------------
Prompt(l) ==
  \/ Connect(l) \/ AskAgain(l) \/ Refuse(l)
  \/ \E n \in Names : InputName(l, n)
  \/ ConfirmPassword(l) \/ CompleteChar(l)
  \/ InputPassword(l) \/ AskToTakeOver(l) \/ ReEnterGame(l)
  \/ ConfirmReconnect(l) \/ Idle(l) \/ HangUp(l)

CallOuts(l) == eventTimeout(l) \/ eventCheckPending(l) \/ DestructCall(l)

Next ==
  \/ \E l \in Logons : Prompt(l) \/ CallOuts(l)
  \/ \E n \in Names : Quit(n) \/ CleanFreezer(n)
  \/ Tick

(* Time passes and delayed calls are made (module CallOut). *)
Fairness == WF_vars(Tick) /\ \A l \in Logons : WF_vars(CallOuts(l))

Spec == Init /\ [][Next]_vars /\ Fairness

-----------------------------------------------------------------------------
(* Properties *)

(* Whoever played before a client connected is safe from it: whatever the  *)
(* client answers, wherever it hangs up or times out, the end of its logon *)
(* object does not take that body with it (Destruct(), connect.c:905;      *)
(* NetDead, :245; the save in eventCompleteChar(), :868).                  *)
SparesElders ==
  \A l \in Logons :
    stage[l] # "none" /\ stage'[l] = "none" =>
      \A n \in elder[l] : body'[n] = "set"

EldersSpared == [][SparesElders]_vars

(* A logon object goes away unless its client goes on typing: when the     *)
(* client has a body, has hung up, or is there and silent, be it at a      *)
(* prompt or where an error left it without one, a delayed call finds it   *)
(* in the end (connect.c:887-896).                                         *)
LogonsEnd ==
  \A l \in Logons :
    stage[l] # "none" ~>
      stage[l] = "none" \/ (conn[l] = "logon" /\ idle[l] = 0)
=============================================================================
