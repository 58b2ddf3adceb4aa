----------------------------- MODULE LogonProofs ------------------------------
(***************************************************************************)
(* For any number of clients and names, and any delays, the types of Logon *)
(* are kept and a logon object spares whoever played before its client     *)
(* came.                                                                   *)
(***************************************************************************)
EXTENDS Logon, TLAPS

(* Why a logon object has no claim to the body of an elder.  Who plays has *)
(* a save file, so an elder's name leads to the password prompt and not to *)
(* a new character; the look-up there finds the elder, which sets NetDead; *)
(* and a body is taken only after that.                                    *)
PlayersAreSaved == \A n \in Names : body[n] = "set" => saved[n]

EldersPlay == \A l \in Logons : \A n \in elder[l] : body[n] = "set"

NamesAreKnown ==
  \A l \in Logons :
    /\ stage[l] = "create" => Name[l] \notin elder[l]
    /\ stage[l] = "password" =>
         /\ Name[l] \in Names /\ saved[Name[l]]
         /\ Name[l] \in elder[l] => NetDead[l]

BodiesAreTakenLate ==
  \A l \in Logons :
    /\ stage[l] \in {"none", "name", "create", "password"} =>
         Player[l] = NoName
    /\ Player[l] \in elder[l] => NetDead[l]

-----------------------------------------------------------------------------
(* The type invariant in four parts, each with steps of its own below.     *)
Types ==
  /\ stage \in [Logons -> {"none", "name", "create", "details", "password",
                           "confirm", "over"}]
  /\ Name \in [Logons -> Names \cup {NoName}]
  /\ NetDead \in [Logons -> BOOLEAN]
  /\ Player \in [Logons -> Names \cup {NoName}]
  /\ idle \in [Logons -> 0 .. LOGON_TIMEOUT + 1]
  /\ conn \in [Logons -> Names \cup {"logon", "none"}]
  /\ body \in [Names -> {"none", "new", "set"}]
  /\ saved \in [Names -> BOOLEAN]
  /\ elder \in [Logons -> SUBSET Names]

ClockTypes == clock \in [Logons -> [Calls -> Off .. LOGON_TIMEOUT]]

BodiesExist ==
  \A l \in Logons :
    /\ Player[l] # NoName => body[Player[l]] # "none"
    /\ conn[l] \in Names => body[conn[l]] # "none"

NobodyIsLeft ==
  \A l \in Logons : stage[l] = "none" => conn[l] # "logon" /\ clock[l] = NoCalls

IInv ==
  /\ Types /\ ClockTypes /\ BodiesExist /\ NobodyIsLeft
  /\ PlayersAreSaved /\ EldersPlay /\ NamesAreKnown /\ BodiesAreTakenLate

LEMMA IInvIsTyped == IInv => TypeOK
BY DEF IInv, TypeOK, Types, ClockTypes, BodiesExist, NobodyIsLeft

(* A logon object ends with the bodies in dies: if none is an elder's, and *)
(* the connections left are to bodies, everything is kept.                 *)
LEMMA EndKeeps ==
  ASSUME IInv, NEW l \in Logons, NEW dies \in SUBSET Names,
         NEW c \in [Logons -> Names \cup {"logon", "none"}],
         \A n \in elder[l] : n \notin dies,
         \A k \in Logons : c[k] \in Names => body[c[k]] # "none",
         \A k \in Logons : stage[k] = "none" => c[k] # "logon",
         End(l, dies, c)
  PROVE  IInv' /\ SparesElders
<1> DEFINE d == [c EXCEPT ![l] = IF @ = "logon" THEN "none" ELSE @]
<1>0. /\ Types /\ ClockTypes /\ BodiesExist /\ NobodyIsLeft
      /\ PlayersAreSaved /\ EldersPlay /\ NamesAreKnown /\ BodiesAreTakenLate
  BY DEF IInv
<1>1. Types'
  <2>1. d \in [Logons -> Names \cup {"logon", "none"}]
    OBVIOUS
  <2>2. conn' \in [Logons -> Names \cup {"logon", "none"}]
    BY <2>1 DEF End, Without
  <2> HIDE DEF d
  <2> QED
    <3>1. /\ stage' \in [Logons -> {"none", "name", "create", "details",
                                    "password", "confirm", "over"}]
          /\ NetDead' \in [Logons -> BOOLEAN]
          /\ idle' \in [Logons -> 0 .. LOGON_TIMEOUT + 1]
      BY <1>0, LogonAssumption DEF End, Types
    <3>2. /\ Name' \in [Logons -> Names \cup {NoName}]
          /\ Player' \in [Logons -> Names \cup {NoName}]
      BY <1>0 DEF End, Types
    <3>3. /\ body' \in [Names -> {"none", "new", "set"}]
          /\ saved' \in [Names -> BOOLEAN]
      BY <1>0 DEF End, Types
    <3>4. elder' \in [Logons -> SUBSET Names]
      BY <1>0 DEF End, Types
    <3> QED
      BY <2>2, <3>1, <3>2, <3>3, <3>4 DEF Types
<1>2. ClockTypes'
  BY <1>0, LogonAssumption DEF End, ClockTypes, NoCalls, Off, Calls
<1>3. BodiesExist'
  <2>1. ASSUME NEW k \in Logons, Player'[k] # NoName
        PROVE  body'[Player'[k]] # "none"
    BY <1>0, <2>1 DEF End, BodiesExist, Types
  <2>2. ASSUME NEW k \in Logons, conn'[k] \in Names
        PROVE  body'[conn'[k]] # "none"
    <3>1. conn'[k] = d[k] /\ d[k] \notin dies
      BY <2>2, LogonAssumption DEF End, Without
    <3>2. d[k] = c[k]
      BY <2>2, <3>1, LogonAssumption
    <3> QED
      BY <2>2, <3>1, <3>2 DEF End
  <2> QED
    BY <2>1, <2>2 DEF BodiesExist
<1>4. NobodyIsLeft'
  <2>1. ASSUME NEW k \in Logons, stage'[k] = "none"
        PROVE  conn'[k] # "logon" /\ clock'[k] = NoCalls
    <3>1. CASE k = l
      BY <1>0, <3>1 DEF End, Without, Types, ClockTypes
    <3>2. CASE k # l
      BY <1>0, <2>1, <3>2 DEF End, Without, Types, ClockTypes, NobodyIsLeft
    <3> QED
      BY <3>1, <3>2
  <2> QED
    BY <2>1 DEF NobodyIsLeft
<1>5. PlayersAreSaved' /\ EldersPlay'
  BY <1>0 DEF PlayersAreSaved, EldersPlay, End, Types
<1>6. NamesAreKnown'
  BY <1>0 DEF NamesAreKnown, End, Types
<1>7. BodiesAreTakenLate'
  BY <1>0, LogonAssumption DEF BodiesAreTakenLate, End, Types, NoName
<1>8. SparesElders
  BY <1>0 DEF SparesElders, EldersPlay, End, Types
<1> QED
  BY <1>1, <1>2, <1>3, <1>4, <1>5, <1>6, <1>7, <1>8 DEF IInv

(* Destruct() spares elders: a body in hand whose owner played before is   *)
(* in hand because NetDead is set.                                         *)
LEMMA DestructKeeps ==
  ASSUME IInv, NEW l \in Logons, Destruct(l)
  PROVE  IInv' /\ SparesElders
<1> DEFINE dies == IF Player[l] # NoName /\ ~NetDead[l] THEN {Player[l]} ELSE {}
<1>0. Types /\ BodiesExist /\ NobodyIsLeft /\ BodiesAreTakenLate
  BY DEF IInv
<1>1. dies \in SUBSET Names
  BY <1>0 DEF Types
<1>2. \A n \in elder[l] : n \notin dies
  BY <1>0 DEF BodiesAreTakenLate
<1>3. End(l, dies, conn)
  BY DEF Destruct
<1>4. conn \in [Logons -> Names \cup {"logon", "none"}]
  BY <1>0 DEF Types
<1> HIDE DEF dies
<1> QED
  BY <1>0, <1>1, <1>2, <1>3, <1>4, EndKeeps DEF BodiesExist, NobodyIsLeft

(* So do the calls that destruct nothing but the logon object.             *)
LEMMA EndAloneKeeps ==
  ASSUME IInv, NEW l \in Logons, End(l, {}, conn)
  PROVE  IInv' /\ SparesElders
<1>0. Types /\ BodiesExist /\ NobodyIsLeft
  BY DEF IInv
<1>1. conn \in [Logons -> Names \cup {"logon", "none"}] /\ {} \in SUBSET Names
  BY <1>0 DEF Types
<1> QED
  BY <1>0, <1>1, EndKeeps DEF BodiesExist, NobodyIsLeft

-----------------------------------------------------------------------------
(* The prompts *)

LEMMA ConnectKeeps ==
  ASSUME IInv, NEW l \in Logons, Connect(l)
  PROVE  IInv' /\ SparesElders
<1>0. /\ Types /\ ClockTypes /\ BodiesExist /\ NobodyIsLeft
      /\ PlayersAreSaved /\ EldersPlay /\ NamesAreKnown /\ BodiesAreTakenLate
  BY DEF IInv
<1>1. Types'
  BY <1>0 DEF Connect, Types
<1>2. ClockTypes'
  BY <1>0, LogonAssumption DEF Connect, ClockTypes, Calls, Off
<1>3. BodiesExist'
  BY <1>0, LogonAssumption DEF Connect, BodiesExist, Types
<1>4. NobodyIsLeft'
  BY <1>0 DEF Connect, NobodyIsLeft, Types, ClockTypes
<1>5. PlayersAreSaved' /\ EldersPlay'
  BY <1>0 DEF Connect, PlayersAreSaved, EldersPlay, Types
<1>6. NamesAreKnown'
  BY <1>0 DEF Connect, NamesAreKnown, Types
<1>7. BodiesAreTakenLate'
  BY <1>0, LogonAssumption DEF Connect, BodiesAreTakenLate, Types, NoName
<1>8. SparesElders
  BY <1>0 DEF Connect, SparesElders, Types
<1> QED
  BY <1>1, <1>2, <1>3, <1>4, <1>5, <1>6, <1>7, <1>8 DEF IInv

(* An elder's name is known, and the look-up finds the elder.              *)
LEMMA InputNameKeeps ==
  ASSUME IInv, NEW l \in Logons, NEW n \in Names, InputName(l, n)
  PROVE  IInv' /\ SparesElders
<1>0. /\ Types /\ ClockTypes /\ BodiesExist /\ NobodyIsLeft
      /\ PlayersAreSaved /\ EldersPlay /\ NamesAreKnown /\ BodiesAreTakenLate
  BY DEF IInv
<1>e. n \in elder[l] => saved[n] /\ find_player(n)
  BY <1>0 DEF PlayersAreSaved, EldersPlay, find_player
<1>1. Types'
  BY <1>0, LogonAssumption DEF InputName, Line, Typed, Types, find_player
<1>2. ClockTypes' /\ BodiesExist'
  BY <1>0 DEF InputName, ClockTypes, BodiesExist
<1>3. NobodyIsLeft'
  BY <1>0 DEF InputName, Line, NobodyIsLeft, Types
<1>4. PlayersAreSaved' /\ EldersPlay'
  BY <1>0 DEF InputName, PlayersAreSaved, EldersPlay
<1>5. NamesAreKnown'
  BY <1>0, <1>e DEF InputName, NamesAreKnown, Types
<1>6. BodiesAreTakenLate'
  BY <1>0, LogonAssumption
  DEF InputName, Line, BodiesAreTakenLate, Types, NoName
<1>7. SparesElders
  BY <1>0 DEF InputName, SparesElders, Types
<1> QED
  BY <1>1, <1>2, <1>3, <1>4, <1>5, <1>6, <1>7 DEF IInv

LEMMA AskAgainKeeps ==
  ASSUME IInv, NEW l \in Logons, AskAgain(l)
  PROVE  IInv' /\ SparesElders
<1>0. /\ Types /\ ClockTypes /\ BodiesExist /\ NobodyIsLeft
      /\ PlayersAreSaved /\ EldersPlay /\ NamesAreKnown /\ BodiesAreTakenLate
  BY DEF IInv
<1>1. Types'
  BY <1>0, LogonAssumption DEF AskAgain, Typed, Types
<1>2. ClockTypes' /\ BodiesExist' /\ PlayersAreSaved' /\ EldersPlay'
  BY <1>0
  DEF AskAgain, ClockTypes, BodiesExist, PlayersAreSaved, EldersPlay
<1>3. NobodyIsLeft'
  BY <1>0 DEF AskAgain, Line, NobodyIsLeft, Types
<1>4. NamesAreKnown'
  BY <1>0 DEF AskAgain, NamesAreKnown, Types
<1>5. BodiesAreTakenLate'
  BY <1>0 DEF AskAgain, BodiesAreTakenLate, Types
<1>6. SparesElders
  BY <1>0 DEF AskAgain, SparesElders, Types
<1> QED
  BY <1>1, <1>2, <1>3, <1>4, <1>5, <1>6 DEF IInv

(* Loading a body makes none that is there go.                             *)
LEMMA LoadKeeps ==
  ASSUME IInv, NEW l \in Logons, Load(l)
  PROVE  /\ Player' \in [Logons -> Names \cup {NoName}]
         /\ body' \in [Names -> {"none", "new", "set"}]
         /\ Player'[l] = Name[l]
         /\ \A k \in Logons : k # l => Player'[k] = Player[k]
         /\ \A n \in Names : body'[n] = "set" <=> body[n] = "set"
         /\ \A n \in Names : body[n] # "none" => body'[n] = body[n]
         /\ Name[l] \in Names => body'[Name[l]] # "none"
<1>0. Types
  BY DEF IInv
<1> QED
  BY <1>0 DEF Load, Types

LEMMA ConfirmPasswordKeeps ==
  ASSUME IInv, NEW l \in Logons, ConfirmPassword(l)
  PROVE  IInv' /\ SparesElders
<1>0. /\ Types /\ ClockTypes /\ BodiesExist /\ NobodyIsLeft
      /\ PlayersAreSaved /\ EldersPlay /\ NamesAreKnown /\ BodiesAreTakenLate
  BY DEF IInv
<1>l. /\ Player' \in [Logons -> Names \cup {NoName}]
      /\ body' \in [Names -> {"none", "new", "set"}]
      /\ Player'[l] = Name[l]
      /\ \A k \in Logons : k # l => Player'[k] = Player[k]
      /\ \A n \in Names : body'[n] = "set" <=> body[n] = "set"
      /\ \A n \in Names : body[n] # "none" => body'[n] = body[n]
      /\ Name[l] \in Names => body'[Name[l]] # "none"
  BY LoadKeeps DEF ConfirmPassword
<1>1. Types'
  BY <1>0, <1>l, LogonAssumption DEF ConfirmPassword, Typed, Types
<1>2. ClockTypes'
  BY <1>0 DEF ConfirmPassword, ClockTypes
<1>3. BodiesExist'
  BY <1>0, <1>l DEF ConfirmPassword, BodiesExist, Types
<1>4. NobodyIsLeft'
  BY <1>0 DEF ConfirmPassword, NobodyIsLeft, Types
<1>5. PlayersAreSaved' /\ EldersPlay'
  BY <1>0, <1>l DEF ConfirmPassword, PlayersAreSaved, EldersPlay, Types
<1>6. NamesAreKnown'
  BY <1>0 DEF ConfirmPassword, NamesAreKnown, Types
<1>7. BodiesAreTakenLate'
  BY <1>0, <1>l
  DEF ConfirmPassword, Line, BodiesAreTakenLate, NamesAreKnown, Types
<1>8. SparesElders
  BY <1>0 DEF ConfirmPassword, SparesElders, Types
<1> QED
  BY <1>1, <1>2, <1>3, <1>4, <1>5, <1>6, <1>7, <1>8 DEF IInv

(* Entering the game or failing to leaves types, and a body that is there, *)
(* to whoever gets it.                                                     *)
LEMMA EnterKeeps ==
  ASSUME IInv, NEW l \in Logons, stage[l] # "none",
         NEW n \in Names, body'[n] # "none", EnterGame(l, n)
  PROVE  /\ stage' = [stage EXCEPT ![l] = "over"]
         /\ ClockTypes'
         /\ conn' \in [Logons -> Names \cup {"logon", "none"}]
         /\ \A k \in Logons : conn'[k] = conn[k] \/ (k = l /\ conn'[k] = n)
         /\ NobodyIsLeft'
<1>0. /\ Types /\ ClockTypes /\ BodiesExist /\ NobodyIsLeft
      /\ PlayersAreSaved /\ EldersPlay /\ NamesAreKnown /\ BodiesAreTakenLate
  BY DEF IInv
<1>1. stage' = [stage EXCEPT ![l] = "over"]
  BY DEF EnterGame
<1>2. CheckDelay \in Off .. LOGON_TIMEOUT /\ DestructDelay \in Off .. LOGON_TIMEOUT
  BY LogonAssumption DEF Off
<1>3. ClockTypes' /\ \A k \in Logons : k # l => clock'[k] = clock[k]
  <2>1. CASE interactive(n)
    BY <1>0, <1>2, <2>1 DEF EnterGame, ClockTypes, Calls
  <2>2. CASE ~interactive(n)
    BY <1>0, <1>2, <2>2 DEF EnterGame, ClockTypes, Calls
  <2> QED
    BY <2>1, <2>2
<1>4. /\ conn' \in [Logons -> Names \cup {"logon", "none"}]
      /\ \A k \in Logons : conn'[k] = conn[k] \/ (k = l /\ conn'[k] = n)
  BY <1>0 DEF EnterGame, Types
<1>5. NobodyIsLeft'
  BY <1>0, <1>1, <1>3, <1>4, LogonAssumption DEF NobodyIsLeft, Types
<1> QED
  BY <1>1, <1>3, <1>4, <1>5

LEMMA CompleteCharKeeps ==
  ASSUME IInv, NEW l \in Logons, CompleteChar(l)
  PROVE  IInv' /\ SparesElders
<1>0. /\ Types /\ ClockTypes /\ BodiesExist /\ NobodyIsLeft
      /\ PlayersAreSaved /\ EldersPlay /\ NamesAreKnown /\ BodiesAreTakenLate
  BY DEF IInv
<1>n. stage[l] = "details"
  BY DEF CompleteChar, Line
<1>o. /\ stage' = [stage EXCEPT ![l] = "over"]
      /\ ClockTypes' /\ NobodyIsLeft'
      /\ conn' \in [Logons -> Names \cup {"logon", "none"}]
      /\ \A k \in Logons :
           conn'[k] = conn[k] \/ (k = l /\ conn'[k] = Player[l])
      /\ body' \in [Names -> {"none", "new", "set"}]
      /\ saved' \in [Names -> BOOLEAN]
      /\ \A m \in Names : body[m] # "none" => body'[m] # "none"
      /\ \A m \in Names : body[m] = "set" => body'[m] = "set"
      /\ \A m \in Names : saved[m] => saved'[m]
      /\ \A m \in Names : body'[m] = "set" => body[m] = "set" \/ saved'[m]
      /\ conn'[l] \in Names => body'[conn'[l]] # "none"
  <2>1. CASE Player[l] = NoName
    BY <1>0, <1>n, <2>1
    DEF CompleteChar, Types, ClockTypes, NobodyIsLeft, BodiesExist
  <2>2. CASE Player[l] # NoName
    <3>1. Player[l] \in Names /\ body[Player[l]] # "none"
      BY <1>0, <2>2 DEF Types, BodiesExist
    <3>2. /\ EnterGame(l, Player[l])
          /\ body' = [body EXCEPT ![Player[l]] =
                        IF interactive(Player[l]) THEN @ ELSE "set"]
          /\ saved' = [saved EXCEPT ![Player[l]] = TRUE]
      BY <2>2 DEF CompleteChar
    <3>3. /\ body' \in [Names -> {"none", "new", "set"}]
          /\ saved' \in [Names -> BOOLEAN]
          /\ \A m \in Names : body[m] # "none" => body'[m] # "none"
          /\ \A m \in Names : body[m] = "set" => body'[m] = "set"
          /\ \A m \in Names : saved[m] => saved'[m]
          /\ \A m \in Names : body'[m] = "set" => body[m] = "set" \/ saved'[m]
      BY <1>0, <3>1, <3>2 DEF Types
    <3>4. /\ stage' = [stage EXCEPT ![l] = "over"]
          /\ ClockTypes' /\ NobodyIsLeft'
          /\ conn' \in [Logons -> Names \cup {"logon", "none"}]
          /\ \A k \in Logons :
               conn'[k] = conn[k] \/ (k = l /\ conn'[k] = Player[l])
      BY <1>n, <3>1, <3>2, <3>3, EnterKeeps
    <3> QED
      BY <1>0, <3>1, <3>3, <3>4 DEF BodiesExist
  <2> QED
    BY <2>1, <2>2
<1>1. Types'
  BY <1>0, <1>o, LogonAssumption DEF CompleteChar, Typed, Types
<1>2. Player' = Player /\ Name' = Name /\ NetDead' = NetDead /\ elder' = elder
  BY DEF CompleteChar
<1>3. BodiesExist'
  BY <1>0, <1>o, <1>2 DEF BodiesExist, Types
<1>4. PlayersAreSaved' /\ EldersPlay'
  BY <1>0, <1>o, <1>2 DEF PlayersAreSaved, EldersPlay, Types
<1>5. NamesAreKnown'
  BY <1>0, <1>o, <1>2 DEF NamesAreKnown, Types
<1>6. BodiesAreTakenLate'
  BY <1>0, <1>o, <1>2 DEF BodiesAreTakenLate, Types
<1>7. SparesElders
  BY <1>0, <1>o DEF SparesElders, Types
<1> QED
  BY <1>o, <1>1, <1>3, <1>4, <1>5, <1>6, <1>7 DEF IInv

(* Whose NetDead is not set is no elder's.                                 *)
LEMMA InputPasswordKeeps ==
  ASSUME IInv, NEW l \in Logons, InputPassword(l)
  PROVE  IInv' /\ SparesElders
<1>0. /\ Types /\ ClockTypes /\ BodiesExist /\ NobodyIsLeft
      /\ PlayersAreSaved /\ EldersPlay /\ NamesAreKnown /\ BodiesAreTakenLate
  BY DEF IInv
<1>n. /\ stage[l] = "password" /\ Name[l] \in Names /\ saved[Name[l]]
      /\ ~NetDead[l] /\ Name[l] \notin elder[l]
  BY <1>0 DEF InputPassword, Line, NamesAreKnown
<1>p. Name' = Name /\ NetDead' = NetDead /\ saved' = saved /\ elder' = elder
  BY DEF InputPassword
<1>b. /\ Player' = [Player EXCEPT ![l] = Name[l]]
      /\ body' \in [Names -> {"none", "new", "set"}]
      /\ \A m \in Names : body[m] # "none" => body'[m] # "none"
      /\ \A m \in Names : body[m] = "set" => body'[m] = "set"
      /\ \A m \in Names : body'[m] = "set" => body[m] = "set" \/ m = Name[l]
  BY <1>0, <1>n DEF InputPassword, Types
<1>c. body'[Name[l]] # "none"
  <2>1. CASE interactive(Name[l])
    BY <1>0, <1>n, <1>b, <2>1 DEF interactive, BodiesExist
  <2>2. CASE ~interactive(Name[l])
    BY <1>0, <1>n, <2>2 DEF InputPassword, Types
  <2> QED
    BY <2>1, <2>2
<1>e. /\ stage' = [stage EXCEPT ![l] = "over"]
      /\ ClockTypes' /\ NobodyIsLeft'
      /\ conn' \in [Logons -> Names \cup {"logon", "none"}]
      /\ \A k \in Logons : conn'[k] = conn[k] \/ (k = l /\ conn'[k] = Name[l])
  BY <1>n, <1>c, EnterKeeps DEF InputPassword
<1>1. Types'
  BY <1>0, <1>n, <1>p, <1>b, <1>e, LogonAssumption
  DEF InputPassword, Typed, Types
<1>3. BodiesExist'
  BY <1>0, <1>n, <1>b, <1>c, <1>e DEF BodiesExist, Types
<1>4. PlayersAreSaved' /\ EldersPlay'
  BY <1>0, <1>n, <1>p, <1>b DEF PlayersAreSaved, EldersPlay, Types
<1>5. NamesAreKnown'
  BY <1>0, <1>p, <1>e DEF NamesAreKnown, Types
<1>6. BodiesAreTakenLate'
  BY <1>0, <1>n, <1>p, <1>b, <1>e DEF BodiesAreTakenLate, Types
<1>7. SparesElders
  BY <1>0, <1>e DEF SparesElders, Types
<1> QED
  BY <1>e, <1>1, <1>3, <1>4, <1>5, <1>6, <1>7 DEF IInv

LEMMA AskToTakeOverKeeps ==
  ASSUME IInv, NEW l \in Logons, AskToTakeOver(l)
  PROVE  IInv' /\ SparesElders
<1>0. /\ Types /\ ClockTypes /\ BodiesExist /\ NobodyIsLeft
      /\ PlayersAreSaved /\ EldersPlay /\ NamesAreKnown /\ BodiesAreTakenLate
  BY DEF IInv
<1>l. /\ Player' \in [Logons -> Names \cup {NoName}]
      /\ body' \in [Names -> {"none", "new", "set"}]
      /\ Player'[l] = Name[l]
      /\ \A k \in Logons : k # l => Player'[k] = Player[k]
      /\ \A n \in Names : body'[n] = "set" <=> body[n] = "set"
      /\ \A n \in Names : body[n] # "none" => body'[n] = body[n]
      /\ Name[l] \in Names => body'[Name[l]] # "none"
  BY LoadKeeps DEF AskToTakeOver
<1>1. Types'
  BY <1>0, <1>l, LogonAssumption DEF AskToTakeOver, Typed, Types
<1>2. ClockTypes'
  BY <1>0 DEF AskToTakeOver, ClockTypes
<1>3. BodiesExist'
  BY <1>0, <1>l DEF AskToTakeOver, BodiesExist, Types
<1>4. NobodyIsLeft'
  BY <1>0 DEF AskToTakeOver, NobodyIsLeft, Types
<1>5. PlayersAreSaved' /\ EldersPlay'
  BY <1>0, <1>l DEF AskToTakeOver, PlayersAreSaved, EldersPlay, Types
<1>6. NamesAreKnown'
  BY <1>0 DEF AskToTakeOver, NamesAreKnown, Types
<1>7. BodiesAreTakenLate'
  BY <1>0, <1>l
  DEF AskToTakeOver, Line, BodiesAreTakenLate, NamesAreKnown, Types
<1>8. SparesElders
  BY <1>0 DEF AskToTakeOver, SparesElders, Types
<1> QED
  BY <1>1, <1>2, <1>3, <1>4, <1>5, <1>6, <1>7, <1>8 DEF IInv

LEMMA ReEnterGameKeeps ==
  ASSUME IInv, NEW l \in Logons, ReEnterGame(l)
  PROVE  IInv' /\ SparesElders
<1> DEFINE c == [conn EXCEPT ![l] = Name[l]]
<1>0. /\ Types /\ ClockTypes /\ BodiesExist /\ NobodyIsLeft
      /\ PlayersAreSaved /\ EldersPlay /\ NamesAreKnown /\ BodiesAreTakenLate
  BY DEF IInv
<1>n. /\ stage[l] = "password" /\ NetDead[l]
      /\ Name[l] \in Names /\ Name[l] # "logon"
  BY <1>0, LogonAssumption DEF ReEnterGame, Line, NamesAreKnown
<1>c. /\ c \in [Logons -> Names \cup {"logon", "none"}]
      /\ \A k \in Logons : c[k] = conn[k] \/ (k = l /\ c[k] = Name[l])
  BY <1>0, <1>n DEF Types
<1>l. /\ c[l] = Name[l]
      /\ \A k \in Logons : stage[k] = "none" => c[k] # "logon"
  BY <1>0, <1>n, <1>c DEF NobodyIsLeft, Types
<1>a. CASE find_player(Name[l]) /\ End(l, {}, c)
  <2>1. \A k \in Logons : c[k] \in Names => body[c[k]] # "none"
    BY <1>0, <1>c, <1>a DEF BodiesExist, find_player
  <2>2. {} \in SUBSET Names /\ \A n \in elder[l] : n \notin {}
    OBVIOUS
  <2> HIDE DEF c
  <2> QED
    BY <1>a, <1>c, <1>l, <2>1, <2>2, EndKeeps
<1>b. CASE /\ Load(l) /\ Typed(l)
           /\ stage' = [stage EXCEPT ![l] = "over"]
           /\ conn' = c
           /\ UNCHANGED <<Name, NetDead, clock, saved, elder>>
  <2> HIDE DEF c
  <2>l. /\ Player' \in [Logons -> Names \cup {NoName}]
        /\ body' \in [Names -> {"none", "new", "set"}]
        /\ Player'[l] = Name[l]
        /\ \A k \in Logons : k # l => Player'[k] = Player[k]
        /\ \A n \in Names : body'[n] = "set" <=> body[n] = "set"
        /\ \A n \in Names : body[n] # "none" => body'[n] = body[n]
        /\ Name[l] \in Names => body'[Name[l]] # "none"
    BY <1>b, LoadKeeps
  <2>1. Types'
    <3>1. /\ stage' \in [Logons -> {"none", "name", "create", "details",
                                    "password", "confirm", "over"}]
          /\ idle' \in [Logons -> 0 .. LOGON_TIMEOUT + 1]
      BY <1>0, <1>b, LogonAssumption DEF Typed, Types
    <3>2. conn' \in [Logons -> Names \cup {"logon", "none"}]
      BY <1>b, <1>c
    <3> QED
      BY <1>0, <1>b, <2>l, <3>1, <3>2 DEF Types
  <2>2. ClockTypes'
    BY <1>0, <1>b DEF ClockTypes
  <2>3. BodiesExist'
    BY <1>0, <1>b, <1>c, <1>n, <2>l DEF BodiesExist, Types
  <2>4. NobodyIsLeft'
    BY <1>0, <1>b, <1>l DEF NobodyIsLeft, Types
  <2>5. PlayersAreSaved' /\ EldersPlay'
    BY <1>0, <1>b, <2>l DEF PlayersAreSaved, EldersPlay, Types
  <2>6. NamesAreKnown'
    BY <1>0, <1>b DEF NamesAreKnown, Types
  <2>7. BodiesAreTakenLate'
    BY <1>0, <1>b, <1>n, <2>l DEF BodiesAreTakenLate, Types
  <2>8. SparesElders
    BY <1>0, <1>b DEF SparesElders, Types
  <2> QED
    BY <2>1, <2>2, <2>3, <2>4, <2>5, <2>6, <2>7, <2>8 DEF IInv
<1> QED
  BY <1>a, <1>b DEF ReEnterGame

LEMMA ConfirmReconnectKeeps ==
  ASSUME IInv, NEW l \in Logons, ConfirmReconnect(l)
  PROVE  IInv' /\ SparesElders
<1>0. /\ Types /\ ClockTypes /\ BodiesExist /\ NobodyIsLeft
      /\ PlayersAreSaved /\ EldersPlay /\ NamesAreKnown /\ BodiesAreTakenLate
  BY DEF IInv
<1>n. stage[l] = "confirm"
  BY DEF ConfirmReconnect, Line
<1>a. CASE /\ Player[l] # NoName /\ interactive(Player[l])
           /\ End(l, {}, [Without(conn, {Player[l]}) EXCEPT ![l] = Player[l]])
  <2> DEFINE c == [Without(conn, {Player[l]}) EXCEPT ![l] = Player[l]]
  <2>1. /\ Player[l] \in Names /\ Player[l] # "logon"
        /\ body[Player[l]] # "none"
    BY <1>0, <1>a, LogonAssumption DEF Types, BodiesExist
  <2>2. /\ c \in [Logons -> Names \cup {"logon", "none"}]
        /\ \A k \in Logons : c[k] = conn[k] \/ c[k] = "none" \/ c[k] = Player[l]
    BY <1>0, <2>1 DEF Types, Without
  <2>3. \A k \in Logons : c[k] \in Names => body[c[k]] # "none"
    BY <1>0, <2>1, <2>2, LogonAssumption DEF BodiesExist
  <2>4. \A k \in Logons : stage[k] = "none" => c[k] # "logon"
    BY <1>0, <2>1, <2>2 DEF NobodyIsLeft
  <2>5. {} \in SUBSET Names /\ \A n \in elder[l] : n \notin {}
    OBVIOUS
  <2>6. End(l, {}, c)
    BY <1>a
  <2> HIDE DEF c
  <2> QED
    BY <2>2, <2>3, <2>4, <2>5, <2>6, EndKeeps
<1>b. CASE /\ Typed(l)
           /\ stage' = [stage EXCEPT ![l] = "over"]
           /\ UNCHANGED <<Name, NetDead, Player, clock, conn, body, saved,
                          elder>>
  <2>1. Types'
    BY <1>0, <1>b, LogonAssumption DEF Typed, Types
  <2>2. ClockTypes' /\ BodiesExist' /\ PlayersAreSaved' /\ EldersPlay'
    BY <1>0, <1>b DEF ClockTypes, BodiesExist, PlayersAreSaved, EldersPlay
  <2>3. NobodyIsLeft'
    BY <1>0, <1>b DEF NobodyIsLeft, Types
  <2>4. NamesAreKnown'
    BY <1>0, <1>b DEF NamesAreKnown, Types
  <2>5. BodiesAreTakenLate'
    BY <1>0, <1>b DEF BodiesAreTakenLate, Types
  <2>6. SparesElders
    BY <1>0, <1>b DEF SparesElders, Types
  <2> QED
    BY <2>1, <2>2, <2>3, <2>4, <2>5, <2>6 DEF IInv
<1> QED
  BY <1>a, <1>b DEF ConfirmReconnect

LEMMA IdleKeeps ==
  ASSUME IInv, NEW l \in Logons, Idle(l)
  PROVE  IInv' /\ SparesElders
<1>0. /\ Types /\ ClockTypes /\ BodiesExist /\ NobodyIsLeft
      /\ PlayersAreSaved /\ EldersPlay /\ NamesAreKnown /\ BodiesAreTakenLate
  BY DEF IInv
<1>1. Types'
  BY <1>0, LogonAssumption DEF Idle, Typed, Types
<1>2. /\ ClockTypes' /\ BodiesExist' /\ NobodyIsLeft'
      /\ PlayersAreSaved' /\ EldersPlay'
  BY <1>0
  DEF Idle, ClockTypes, BodiesExist, NobodyIsLeft, PlayersAreSaved, EldersPlay
<1>3. NamesAreKnown' /\ BodiesAreTakenLate'
  BY <1>0 DEF Idle, NamesAreKnown, BodiesAreTakenLate
<1>4. SparesElders
  BY <1>0 DEF Idle, SparesElders
<1> QED
  BY <1>1, <1>2, <1>3, <1>4 DEF IInv

(* net_dead() saves a body, which is what it needs to be found again.      *)
LEMMA HangUpKeeps ==
  ASSUME IInv, NEW l \in Logons, HangUp(l)
  PROVE  IInv' /\ SparesElders
<1>0. /\ Types /\ ClockTypes /\ BodiesExist /\ NobodyIsLeft
      /\ PlayersAreSaved /\ EldersPlay /\ NamesAreKnown /\ BodiesAreTakenLate
  BY DEF IInv
<1>1. Types'
  BY <1>0, LogonAssumption DEF HangUp, Types
<1>2. ClockTypes' /\ EldersPlay'
  BY <1>0 DEF HangUp, ClockTypes, EldersPlay
<1>3. BodiesExist'
  BY <1>0, LogonAssumption DEF HangUp, BodiesExist, Types
<1>4. NobodyIsLeft'
  BY <1>0 DEF HangUp, NobodyIsLeft, Types
<1>5. PlayersAreSaved'
  BY <1>0 DEF HangUp, PlayersAreSaved, Types
<1>6. NamesAreKnown' /\ BodiesAreTakenLate'
  BY <1>0 DEF HangUp, NamesAreKnown, BodiesAreTakenLate, Types
<1>7. SparesElders
  BY <1>0 DEF HangUp, SparesElders
<1> QED
  BY <1>1, <1>2, <1>3, <1>4, <1>5, <1>6, <1>7 DEF IInv

-----------------------------------------------------------------------------
(* The delayed calls, and time *)

LEMMA RefuseKeeps ==
  ASSUME IInv, NEW l \in Logons, Refuse(l)
  PROVE  IInv' /\ SparesElders
BY DestructKeeps DEF Refuse

(* A delayed call that is made or put off without an end of the logon      *)
(* object changes its clock only.                                          *)
LEMMA RearmKeeps ==
  ASSUME IInv, NEW l \in Logons, stage[l] # "none",
         NEW x \in Calls, NEW t \in Off .. LOGON_TIMEOUT,
         clock' = [clock EXCEPT ![l][x] = t],
         UNCHANGED <<stage, Name, NetDead, Player, idle, conn, body, saved,
                     elder>>
  PROVE  IInv' /\ SparesElders
<1>0. /\ Types /\ ClockTypes /\ BodiesExist /\ NobodyIsLeft
      /\ PlayersAreSaved /\ EldersPlay /\ NamesAreKnown /\ BodiesAreTakenLate
  BY DEF IInv
<1>1. Types' /\ BodiesExist' /\ PlayersAreSaved' /\ EldersPlay'
  BY <1>0 DEF Types, BodiesExist, PlayersAreSaved, EldersPlay
<1>2. ClockTypes'
  BY <1>0 DEF ClockTypes
<1>3. NobodyIsLeft'
  BY <1>0 DEF NobodyIsLeft, ClockTypes
<1>4. NamesAreKnown' /\ BodiesAreTakenLate'
  BY <1>0 DEF NamesAreKnown, BodiesAreTakenLate
<1>5. SparesElders
  BY <1>0 DEF SparesElders
<1> QED
  BY <1>1, <1>2, <1>3, <1>4, <1>5 DEF IInv

(* A call that is due belongs to a logon object that is there.             *)
LEMMA DueIsThere ==
  ASSUME IInv, NEW l \in Logons, NEW x \in Calls, Due(l, x)
  PROVE  stage[l] # "none"
BY DEF IInv, NobodyIsLeft, Due, NoCalls, Off

LEMMA CallOutsKeep ==
  ASSUME IInv, NEW l \in Logons, CallOuts(l)
  PROVE  IInv' /\ SparesElders
<1>1. LOGON_TIMEOUT \in Off .. LOGON_TIMEOUT /\ Off \in Off .. LOGON_TIMEOUT
  BY LogonAssumption DEF Off
<1>2. {"eventTimeout", "check", "destruct"} = Calls
  BY DEF Calls
<1>3. CASE eventTimeout(l)
  <2>1. stage[l] # "none"
    BY <1>2, <1>3, DueIsThere DEF eventTimeout
  <2>2. CASE Destruct(l)
    BY <2>2, DestructKeeps
  <2>3. CASE ~Destruct(l)
    <3>1. /\ clock' = [clock EXCEPT ![l]["eventTimeout"] = LOGON_TIMEOUT]
          /\ UNCHANGED <<stage, Name, NetDead, Player, idle, conn, body, saved,
                         elder>>
      BY <1>3, <2>3 DEF eventTimeout
    <3> QED
      BY <1>1, <1>2, <2>1, <3>1, RearmKeeps
  <2> QED
    BY <2>2, <2>3
<1>4. CASE eventCheckPending(l)
  <2>1. stage[l] # "none"
    BY <1>2, <1>4, DueIsThere DEF eventCheckPending
  <2>2. CASE End(l, {}, conn)
    BY <2>2, EndAloneKeeps
  <2>3. CASE ~End(l, {}, conn)
    <3>1. /\ clock' = [clock EXCEPT ![l]["check"] = Off]
          /\ UNCHANGED <<stage, Name, NetDead, Player, idle, conn, body, saved,
                         elder>>
      BY <1>4, <2>3 DEF eventCheckPending
    <3> QED
      BY <1>1, <1>2, <2>1, <3>1, RearmKeeps
  <2> QED
    BY <2>2, <2>3
<1>5. CASE DestructCall(l)
  BY <1>5, EndAloneKeeps DEF DestructCall
<1> QED
  BY <1>3, <1>4, <1>5 DEF CallOuts

(* A second passes only when no call is due, so no clock runs below Off.   *)
LEMMA TickKeeps ==
  ASSUME IInv, Tick
  PROVE  IInv' /\ SparesElders
<1>0. /\ Types /\ ClockTypes /\ BodiesExist /\ NobodyIsLeft
      /\ PlayersAreSaved /\ EldersPlay /\ NamesAreKnown /\ BodiesAreTakenLate
  BY DEF IInv
<1>1. Types'
  <2>1. idle' \in [Logons -> 0 .. LOGON_TIMEOUT + 1]
    <3>1. ASSUME NEW l \in Logons
          PROVE  (IF conn[l] = "logon" /\ idle[l] <= LOGON_TIMEOUT
                  THEN idle[l] + 1 ELSE idle[l]) \in 0 .. LOGON_TIMEOUT + 1
      BY <1>0, LogonAssumption DEF Types
    <3> QED
      BY <3>1 DEF Tick
  <2> QED
    BY <1>0, <2>1 DEF Tick, Types
<1>2. ClockTypes'
  <2>1. ASSUME NEW l \in Logons, NEW x \in Calls
        PROVE  (IF clock[l][x] = Off THEN Off ELSE clock[l][x] - 1)
                 \in Off .. LOGON_TIMEOUT
    <3>1. clock[l][x] \in Off .. LOGON_TIMEOUT /\ clock[l][x] # 0
      BY <1>0 DEF Tick, Due, ClockTypes
    <3>2. LOGON_TIMEOUT \in Int
      BY LogonAssumption
    <3> QED
      BY <3>1, <3>2 DEF Off
  <2> QED
    BY <2>1 DEF Tick, ClockTypes
<1>3. NobodyIsLeft'
  <2>1. ASSUME NEW l \in Logons, stage'[l] = "none"
        PROVE  conn'[l] # "logon" /\ clock'[l] = NoCalls
    <3>1. stage[l] = "none" /\ conn'[l] = conn[l]
      BY <2>1 DEF Tick
    <3>2. conn[l] # "logon" /\ clock[l] = NoCalls
      BY <1>0, <3>1 DEF NobodyIsLeft
    <3>3. \A x \in Calls : clock[l][x] = Off
      BY <3>2 DEF NoCalls
    <3>4. clock'[l] = [x \in Calls |->
                        IF clock[l][x] = Off THEN Off ELSE clock[l][x] - 1]
      BY DEF Tick
    <3> QED
      BY <3>1, <3>2, <3>3, <3>4 DEF NoCalls
  <2> QED
    BY <2>1 DEF NobodyIsLeft
<1>4. BodiesExist' /\ PlayersAreSaved' /\ EldersPlay'
  BY <1>0 DEF Tick, BodiesExist, PlayersAreSaved, EldersPlay
<1>5. NamesAreKnown' /\ BodiesAreTakenLate'
  BY <1>0 DEF Tick, NamesAreKnown, BodiesAreTakenLate
<1>6. SparesElders
  BY <1>0 DEF Tick, SparesElders
<1> QED
  BY <1>1, <1>2, <1>3, <1>4, <1>5, <1>6 DEF IInv

(* A body that quits or is cleaned up is nobody's any more.                *)
LEMMA LeaveKeeps ==
  ASSUME IInv, NEW n \in Names, Leave(n)
  PROVE  IInv' /\ SparesElders
<1>0. /\ Types /\ ClockTypes /\ BodiesExist /\ NobodyIsLeft
      /\ PlayersAreSaved /\ EldersPlay /\ NamesAreKnown /\ BodiesAreTakenLate
  BY DEF IInv
<1>1. Types'
  <2>1. /\ body' \in [Names -> {"none", "new", "set"}]
        /\ elder' \in [Logons -> SUBSET Names]
    BY <1>0 DEF Leave, BodiesDie, Types
  <2>2. /\ Player' \in [Logons -> Names \cup {NoName}]
        /\ conn' \in [Logons -> Names \cup {"logon", "none"}]
    BY <1>0 DEF Leave, Without, Types
  <2>3. saved' \in [Names -> BOOLEAN]
    BY <1>0 DEF Leave, Types
  <2> QED
    BY <1>0, <2>1, <2>2, <2>3 DEF Leave, Types
<1>2. ClockTypes'
  BY <1>0 DEF Leave, ClockTypes
<1>3. BodiesExist'
  BY <1>0, LogonAssumption
  DEF Leave, BodiesDie, Without, BodiesExist, Types, NoName
<1>4. NobodyIsLeft'
  BY <1>0 DEF Leave, Without, NobodyIsLeft, Types
<1>5. PlayersAreSaved' /\ EldersPlay'
  BY <1>0 DEF Leave, BodiesDie, PlayersAreSaved, EldersPlay, Types
<1>6. NamesAreKnown'
  BY <1>0 DEF Leave, BodiesDie, NamesAreKnown, Types
<1>7. BodiesAreTakenLate'
  BY <1>0, LogonAssumption
  DEF Leave, BodiesDie, BodiesAreTakenLate, Types, NoName
<1>8. SparesElders
  BY <1>0 DEF Leave, SparesElders
<1> QED
  BY <1>1, <1>2, <1>3, <1>4, <1>5, <1>6, <1>7, <1>8 DEF IInv

-----------------------------------------------------------------------------
(* The theorems *)

LEMMA InitHasIInv == Init => IInv
<1> SUFFICES ASSUME Init PROVE IInv
  OBVIOUS
<1>1. Types
  BY LogonAssumption DEF Init, Types
<1>2. ClockTypes
  BY LogonAssumption DEF Init, ClockTypes, NoCalls, Off
<1>3. BodiesExist /\ NobodyIsLeft /\ PlayersAreSaved /\ EldersPlay
  BY LogonAssumption
  DEF Init, BodiesExist, NobodyIsLeft, PlayersAreSaved, EldersPlay, NoName
<1>4. NamesAreKnown /\ BodiesAreTakenLate
  BY DEF Init, NamesAreKnown, BodiesAreTakenLate
<1> QED
  BY <1>1, <1>2, <1>3, <1>4 DEF IInv

LEMMA PromptKeeps ==
  ASSUME IInv, NEW l \in Logons, Prompt(l)
  PROVE  IInv' /\ SparesElders
<1>1. CASE Connect(l)
  BY <1>1, ConnectKeeps
<1>2. CASE AskAgain(l)
  BY <1>2, AskAgainKeeps
<1>3. CASE Refuse(l)
  BY <1>3, RefuseKeeps
<1>4. CASE \E n \in Names : InputName(l, n)
  BY <1>4, InputNameKeeps
<1>5. CASE ConfirmPassword(l)
  BY <1>5, ConfirmPasswordKeeps
<1>6. CASE CompleteChar(l)
  BY <1>6, CompleteCharKeeps
<1>7. CASE InputPassword(l)
  BY <1>7, InputPasswordKeeps
<1>8. CASE AskToTakeOver(l)
  BY <1>8, AskToTakeOverKeeps
<1>9. CASE ReEnterGame(l)
  BY <1>9, ReEnterGameKeeps
<1>10. CASE ConfirmReconnect(l)
  BY <1>10, ConfirmReconnectKeeps
<1>11. CASE Idle(l)
  BY <1>11, IdleKeeps
<1>12. CASE HangUp(l)
  BY <1>12, HangUpKeeps
<1> QED
  BY <1>1, <1>2, <1>3, <1>4, <1>5, <1>6, <1>7, <1>8, <1>9, <1>10, <1>11, <1>12
  DEF Prompt

LEMMA StepKeeps == IInv /\ [Next]_vars => IInv' /\ [SparesElders]_vars
<1> SUFFICES ASSUME IInv, [Next]_vars PROVE IInv' /\ [SparesElders]_vars
  OBVIOUS
<1>1. CASE \E l \in Logons : Prompt(l) \/ CallOuts(l)
  <2> PICK l \in Logons : Prompt(l) \/ CallOuts(l)
    BY <1>1
  <2> QED
    BY PromptKeeps, CallOutsKeep
<1>2. CASE \E n \in Names : Quit(n) \/ CleanFreezer(n)
  BY <1>2, LeaveKeeps DEF Quit, CleanFreezer
<1>3. CASE Tick
  BY <1>3, TickKeeps
<1>4. CASE UNCHANGED vars
  <2>1. /\ UNCHANGED <<stage, Name, NetDead, Player, clock, idle>>
        /\ UNCHANGED <<conn, body, saved, elder>>
    BY <1>4 DEF vars, logon
  <2>2. Types' /\ ClockTypes' /\ BodiesExist' /\ NobodyIsLeft'
    BY <2>1 DEF IInv, Types, ClockTypes, BodiesExist, NobodyIsLeft
  <2>3. /\ PlayersAreSaved' /\ EldersPlay'
        /\ NamesAreKnown' /\ BodiesAreTakenLate'
    BY <2>1
    DEF IInv, PlayersAreSaved, EldersPlay, NamesAreKnown, BodiesAreTakenLate
  <2> QED
    BY <1>4, <2>2, <2>3 DEF IInv
<1> QED
  BY <1>1, <1>2, <1>3, <1>4 DEF Next

(* The types of Logon: a logon object's body and a client's are there as   *)
(* long as they are named, through exec(), destruct() and a second client  *)
(* at the same name.                                                       *)
THEOREM TypeCorrect == Spec => []TypeOK
<1>1. Spec => []IInv
  BY InitHasIInv, StepKeeps, PTL DEF Spec
<1> QED
  BY <1>1, IInvIsTyped, PTL

(* However many clients ask for however many names: whoever played before  *)
(* a client connected does not go with its logon object.                   *)
THEOREM LogonsSpareElders == Spec => EldersSpared
<1>1. Spec => []IInv
  BY InitHasIInv, StepKeeps, PTL DEF Spec
<1> QED
  BY <1>1, StepKeeps, PTL DEF Spec, EldersSpared
=============================================================================
