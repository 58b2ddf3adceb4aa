------------------------------- MODULE Commands -------------------------------
(***************************************************************************)
(* What users type, from their connections to the commands it becomes      *)
(* (fluffos/comm.c, and the loop of fluffos/backend.c that drives it).     *)
(*                                                                         *)
(* Each round of the backend loop polls the users who have no command in   *)
(* their buffer, reads what they typed, and then runs commands, going      *)
(* round the users, until nobody has one or one more than max_users have   *)
(* run.  A command is a line, or one character while SINGLE_CHAR is set;   *)
(* CMD_IN_BUF remembers that the buffer holds one, and whoever has it set  *)
(* is not read from.  LPC code sets SINGLE_CHAR with get_char() and the    *)
(* driver clears it when it calls the function given there.                *)
(*                                                                         *)
(* A character is its position in its line as it was typed, and a newline  *)
(* is the negated position; telnet negotiation, null characters and        *)
(* backspaces are left out, and so is compaction of the text buffer, which *)
(* only decides how much of what is waiting one read takes.                *)
(***************************************************************************)
EXTENDS Integers, Sequences, FiniteSetsExt

CONSTANTS
  MaxUsers,   \* max_users: the size of all_users, 10 * k in the build
  MaxText,    \* size of the text buffer: MAX_TEXT, 2048, in the build
  MinSpace,   \* space below which it overflows: MAX_TEXT / 16
  MaxTyped,   \* bound: characters typed in one behaviour
  Callers,    \* who may call get_char(): "self", the user, or "other"
  NoUser      \* the null interactive pointer

ASSUME CommandsAssumption ==
  /\ MaxUsers \in Nat \ {0}
  /\ MinSpace \in Nat \ {0} /\ MaxText \in Nat /\ MinSpace <= MaxText
  /\ MaxTyped \in Nat
  /\ Callers \subseteq {"self", "other"}

VARIABLES
  all_users,     \* a slot of the table is an interactive_t or NoUser
  NextCmdGiver,  \* the slot get_user_command() looks at next
  at,            \* where the backend loop is, and the loop counters there
  typed          \* history: characters typed so far

vars == <<all_users, NextCmdGiver, at, typed>>

SlotNo == 0 .. MaxUsers - 1

(* message stands for message_length # 0.  History: line is how many        *)
(* characters the user has typed since the last newline, char whether      *)
(* get_char() was ever called for this user, and ahead whether it was      *)
(* called over half a line without CMD_IN_BUF, and nothing was read since. *)
User ==
  [text : Seq(Int),
   iflags : SUBSET {"CMD_IN_BUF", "SINGLE_CHAR", "SKIP_COMMAND", "NET_DEAD"},
   input_to : {"none", "self", "other", "destructed"},
   message : BOOLEAN,
   line : Nat,
   char : BOOLEAN,
   ahead : BOOLEAN]

Place ==
  [in : {"select"}]
  \union [in : {"process_io"}, polled : SUBSET SlotNo, slot : 0 .. MaxUsers]
  \union [in : {"scan"}, ran : 0 .. MaxUsers, scanned : 0 .. MaxUsers]
  \union [in : {"command"}, ran : 0 .. MaxUsers, giver : SlotNo,
          command : Seq(Int), flushes : BOOLEAN]

TypeOK ==
  /\ all_users \in [SlotNo -> User \union {NoUser}]
  /\ NextCmdGiver \in SlotNo
  /\ at \in Place
  /\ typed \in 0 .. MaxTyped

Init ==
  /\ all_users = [i \in SlotNo |-> NoUser]
  /\ NextCmdGiver = 0
  /\ at = [in |-> "select"]
  /\ typed = 0

Here(i) == all_users[i] # NoUser
Has(i, flag) == Here(i) /\ flag \in all_users[i].iflags
Set(u, flag) == [u EXCEPT !.iflags = @ \union {flag}]
Clear(u, flag) == [u EXCEPT !.iflags = @ \ {flag}]
SetTo(i, u) == all_users' = [all_users EXCEPT ![i] = u]

-----------------------------------------------------------------------------
(* The text buffer *)

Newlines(text) == {j \in DOMAIN text : text[j] < 0}
FirstLine(text) ==
  IF Newlines(text) = {} THEN text ELSE SubSeq(text, 1, Min(Newlines(text)))
After(text, taken) == SubSeq(text, Len(taken) + 1, Len(text))

(* clean_buf(): a line to be skipped goes when its newline is there. *)
Cleaned(u) ==
  IF "SKIP_COMMAND" \in u.iflags /\ Newlines(u.text) # {}
  THEN [Clear(u, "SKIP_COMMAND") EXCEPT !.text = After(@, FirstLine(@))]
  ELSE u

(* cmd_in_buf() *)
CmdInBuf(u) ==
  LET c == Cleaned(u) IN
  /\ c.text # <<>>
  /\ "SINGLE_CHAR" \in c.iflags \/ Newlines(c.text) # {}

(* first_cmd_in_buf(), of a user whose buffer is not empty.  The search    *)
(* for a newline has no end of its own: without one it runs on into what   *)
(* earlier lines left behind, and takes the whole buffer with it.          *)
Taken(u) ==
  LET c == Cleaned(u) IN
  IF "SINGLE_CHAR" \in c.iflags THEN <<Head(c.text)>> ELSE FirstLine(c.text)

(* A fault: the flag goes with the command, whatever else was typed.       *)
TakenAndCleared(u) ==
  Clear([Cleaned(u) EXCEPT !.text = After(@, Taken(u))], "CMD_IN_BUF")


AfterTaking(u) ==
  LET t == Cleaned([Cleaned(u) EXCEPT !.text = After(@, Taken(u))]) IN
  IF CmdInBuf(t) THEN t ELSE Clear(t, "CMD_IN_BUF")

(* What copy_chars() adds for these keys, where TRUE is the return key.    *)
Positions(u, keys) ==
  [j \in DOMAIN keys |->
     LET newlines == {k \in 1 .. j - 1 : keys[k]}
         p == IF newlines = {} THEN u.line + j ELSE j - Max(newlines)
     IN IF keys[j] THEN -p ELSE p]

LineAfter(u, keys) ==
  LET p == Positions(u, keys)[Len(keys)] IN IF p < 0 THEN 0 ELSE p

(* A fault: a line that overflows is dropped, and its rest is a command.   *)
OverflowUnskipped(u) ==
  IF MaxText - Len(u.text) < MinSpace THEN [u EXCEPT !.text = <<>>] ELSE u

(* get_user_data(): a buffer that has filled up without a newline in it is *)
(* thrown away, and the rest of that line with it.                         *)
Overflow(u) ==
  IF MaxText - Len(u.text) < MinSpace
  THEN Set([u EXCEPT !.text = <<>>], "SKIP_COMMAND")
  ELSE u

Read(u, keys) ==
  LET v == [Overflow(u) EXCEPT !.text = @ \o Positions(u, keys),
                               !.line = LineAfter(u, keys), !.ahead = FALSE]
  IN IF CmdInBuf(v) THEN Set(Cleaned(v), "CMD_IN_BUF") ELSE Cleaned(v)

Keys(u) ==
  UNION {[1 .. n -> BOOLEAN] : n \in 1 .. MaxText - Len(Overflow(u).text)}

(* flush_message(): all is sent, some is, or the connection turns out to   *)
(* be lost.                                                                *)
Flushed(u) ==
  IF ~u.message \/ "NET_DEAD" \in u.iflags THEN {u}
  ELSE {u, [u EXCEPT !.message = FALSE], Set(u, "NET_DEAD")}

-----------------------------------------------------------------------------
(* The backend loop: poll and read *)

(* make_selectmasks() and select().  A descriptor whose connection is lost *)
(* is always ready, so that process_io() does get to run.                  *)
StartRound ==
  /\ at.in = "select"
  /\ at' = [in |-> "process_io", slot |-> 0,
            polled |-> {i \in SlotNo : Here(i) /\ ~Has(i, "CMD_IN_BUF")}]
  /\ UNCHANGED <<all_users, NextCmdGiver, typed>>

(* new_user_handler(), with logon(), which may call input_to().            *)
NewUserHandler ==
  /\ at.in = "process_io" /\ at.slot = 0
  /\ \E i \in SlotNo, to \in {"none", "self"} :
       /\ ~Here(i) /\ \A j \in 0 .. i - 1 : Here(j)
       /\ SetTo(i, [text |-> <<>>, iflags |-> {}, input_to |-> to,
                    message |-> TRUE, line |-> 0, char |-> FALSE,
                    ahead |-> FALSE])
  /\ UNCHANGED <<NextCmdGiver, at, typed>>

NextSlot == at' = [at EXCEPT !.slot = @ + 1]

(* A user with a command in the buffer is left alone, dead or not.         *)
PassedOver(i) == Here(i) => Has(i, "CMD_IN_BUF")

SkipUser ==
  /\ at.in = "process_io" /\ at.slot < MaxUsers
  /\ PassedOver(at.slot) \/ (Here(at.slot) /\ ~Has(at.slot, "NET_DEAD"))
  /\ NextSlot
  /\ UNCHANGED <<all_users, NextCmdGiver, typed>>

(* remove_interactive(): flagged dead before, or found closed by the read. *)
RemoveUser ==
  /\ at.in = "process_io" /\ at.slot < MaxUsers
  /\ ~PassedOver(at.slot)
  /\ Has(at.slot, "NET_DEAD") \/ at.slot \in at.polled
  /\ SetTo(at.slot, NoUser)
  /\ NextSlot
  /\ UNCHANGED <<NextCmdGiver, typed>>

ReadUser ==
  /\ at.in = "process_io" /\ at.slot < MaxUsers
  /\ ~PassedOver(at.slot) /\ ~Has(at.slot, "NET_DEAD")
  /\ at.slot \in at.polled
  /\ \E keys \in Keys(all_users[at.slot]) :
       /\ typed + Len(keys) <= MaxTyped
       /\ typed' = typed + Len(keys)
       /\ \E u \in Flushed(Read(all_users[at.slot], keys)) : SetTo(at.slot, u)
  /\ NextSlot
  /\ UNCHANGED NextCmdGiver

FlushUser ==
  /\ at.in = "process_io" /\ at.slot < MaxUsers
  /\ ~PassedOver(at.slot) /\ ~Has(at.slot, "NET_DEAD")
  /\ at.slot \in at.polled
  /\ \E u \in Flushed(all_users[at.slot]) : SetTo(at.slot, u)
  /\ NextSlot
  /\ UNCHANGED <<NextCmdGiver, typed>>

IoDone ==
  /\ at.in = "process_io" /\ at.slot = MaxUsers
  /\ at' = [in |-> "scan", ran |-> 0, scanned |-> 0]
  /\ UNCHANGED <<all_users, NextCmdGiver, typed>>

ProcessIo ==
  NewUserHandler \/ SkipUser \/ RemoveUser \/ ReadUser \/ FlushUser \/ IoDone

-----------------------------------------------------------------------------
(* The backend loop: commands *)

(* A fault: the turn is not taken modulo the size of the table.            *)
AheadUnbounded(n) == NextCmdGiver' = NextCmdGiver + n

Ahead(n) == NextCmdGiver' = (NextCmdGiver + n) % MaxUsers
Scanning == at.in = "scan" /\ at.scanned < MaxUsers

(* The user whose turn it is after the attempt to flush: u may go on.      *)
MayGoOn(i, u) ==
  /\ u \in Flushed(all_users[i])
  /\ all_users[i].message => "NET_DEAD" \notin u.iflags

(* get_user_command(): nobody there, link lost, or no command. *)
ScanOn ==
  /\ Scanning
  /\ \/ ~Here(NextCmdGiver) /\ UNCHANGED all_users
     \/ /\ Here(NextCmdGiver)
        /\ \E u \in Flushed(all_users[NextCmdGiver]) :
             /\ MayGoOn(NextCmdGiver, u) => "CMD_IN_BUF" \notin u.iflags
             /\ SetTo(NextCmdGiver, u)
  /\ Ahead(1)
  /\ at' = [at EXCEPT !.scanned = @ + 1]
  /\ UNCHANGED typed

(* call_function_interactive(): what an input_to() or get_char() leaves    *)
(* when it is answered, also by somebody who is no longer there.           *)
Answered(u) == Clear([u EXCEPT !.input_to = "none"], "SINGLE_CHAR")

(* A line beginning with '!' passes an input_to() by.                      *)
RunCommand(i, u) ==
  LET t == AfterTaking(u)
      Runs(flushes) == [in |-> "command", ran |-> at.ran, giver |-> i,
                        command |-> Taken(u), flushes |-> flushes]
  IN \/ /\ t.input_to = "none" \/ "SINGLE_CHAR" \notin t.iflags
        /\ SetTo(i, t)
        /\ at' = Runs(FALSE)
     \/ /\ t.input_to # "none"
        /\ SetTo(i, Answered(t))
        /\ at' = Runs("SINGLE_CHAR" \in t.iflags /\ t.input_to = "self")

(* get_user_command(), and process_user_command() up to the LPC code: the  *)
(* turn moves on for this user once more than for one without a command.   *)
TakeCommand ==
  /\ Scanning
  /\ Here(NextCmdGiver)
  /\ \E u \in Flushed(all_users[NextCmdGiver]) :
       /\ MayGoOn(NextCmdGiver, u)
       /\ "CMD_IN_BUF" \in u.iflags
       /\ IF Cleaned(u).text = <<>>
          THEN SetTo(NextCmdGiver, Cleaned(u)) /\ at' = [in |-> "select"]
          ELSE RunCommand(NextCmdGiver, u)
  /\ Ahead(2)
  /\ UNCHANGED typed

(* Nobody has a command: the round is over, and call_out() runs.           *)
RoundOver ==
  /\ at.in = "scan" /\ at.scanned = MaxUsers
  /\ at' = [in |-> "select"]
  /\ UNCHANGED <<all_users, NextCmdGiver, typed>>

(* A fault: the buffer is flushed, and its flag stays.                     *)
FlushedOnly(u) == [u EXCEPT !.text = <<>>]

(* What was typed ahead of a get_char() that is not repeated is dropped.   *)
FlushedText(u) == Clear([u EXCEPT !.text = <<>>], "CMD_IN_BUF")

CommandReturns ==
  /\ at.in = "command"
  /\ IF at.flushes /\ Here(at.giver) /\ ~Has(at.giver, "SINGLE_CHAR")
     THEN SetTo(at.giver, FlushedText(all_users[at.giver]))
     ELSE UNCHANGED all_users
  /\ at' = IF at.ran < MaxUsers
           THEN [in |-> "scan", ran |-> at.ran + 1, scanned |-> 0]
           ELSE [in |-> "select"]
  /\ UNCHANGED <<NextCmdGiver, typed>>

(* error(): back to the top of backend(), past everything on the C stack.  *)
CommandFails ==
  /\ at.in = "command"
  /\ at' = [in |-> "select"]
  /\ UNCHANGED <<all_users, NextCmdGiver, typed>>

-----------------------------------------------------------------------------
(* LPC code, within a command *)

(* input_to() and get_char(), of the user whose command this is.  With     *)
(* SINGLE_CHAR half a line in the buffer is a command, but set_call()      *)
(* leaves CMD_IN_BUF as it is.                                             *)
HalfLine(u) == u.text # <<>> /\ "CMD_IN_BUF" \notin u.iflags
SetCall ==
  /\ Here(at.giver)
  /\ all_users[at.giver].input_to = "none"
  /\ \E by \in Callers, char \in BOOLEAN :
       LET u == [all_users[at.giver] EXCEPT
                   !.input_to = by, !.char = @ \/ char,
                   !.ahead = @ \/ (char /\ HalfLine(all_users[at.giver]))]
       IN SetTo(at.giver, IF char THEN Set(u, "SINGLE_CHAR") ELSE u)

RemoveGetChar(i) == SetTo(i, [all_users[i] EXCEPT !.input_to = "none"])
RemoveCharmode(i) == SetTo(i, Clear(all_users[i], "SINGLE_CHAR"))

(* add_message(): a buffer that fills up is flushed. *)
AddMessage(i) ==
  /\ ~Has(i, "NET_DEAD")
  /\ \E u \in Flushed([all_users[i] EXCEPT !.message = TRUE]) : SetTo(i, u)

(* destruct() of the user, and of the object that asked for input. *)
DestructUser(i) == SetTo(i, NoUser)
DestructCaller(i) ==
  /\ all_users[i].input_to = "other"
  /\ SetTo(i, [all_users[i] EXCEPT !.input_to = "destructed"])

Lpc ==
  /\ at.in = "command"
  /\ \/ SetCall
     \/ \E i \in SlotNo :
          /\ Here(i)
          /\ \/ RemoveGetChar(i) \/ RemoveCharmode(i) \/ AddMessage(i)
             \/ DestructUser(i) \/ DestructCaller(i)
  /\ UNCHANGED <<NextCmdGiver, at, typed>>

-----------------------------------------------------------------------------
Next ==
  \/ StartRound \/ ProcessIo
  \/ ScanOn \/ TakeCommand \/ RoundOver
  \/ CommandReturns \/ CommandFails \/ Lpc

Spec == Init /\ [][Next]_vars

(* The driver is one thread that stops only for select(), which it gives   *)
(* a second, and eval_cost ends LPC code that does not return.             *)
Driver ==
  \/ StartRound \/ SkipUser \/ RemoveUser \/ ReadUser \/ FlushUser \/ IoDone
  \/ ScanOn \/ TakeCommand \/ RoundOver \/ CommandReturns
FairSpec == Spec /\ WF_vars(Driver)

-----------------------------------------------------------------------------
(* Properties *)

(* Through every change between characters and lines, overflow and flush,  *)
(* CMD_IN_BUF is set while the buffer holds a command, a line or in        *)
(* character mode anything, which otherwise would be overlooked.  The one  *)
(* exception is get_char() over half a line, which set_call() leaves       *)
(* waiting until more is typed (comm.c:2565-2578), never a whole line.     *)
(* And it is not set over an empty buffer: such a user would never be      *)
(* read from again, and would end every round it is met in                 *)
(* (comm.c:1702, 2068-2095).                                               *)
FlagMatchesText ==
  \A i \in SlotNo : Here(i) =>
    /\ CmdInBuf(all_users[i]) => Has(i, "CMD_IN_BUF") \/ all_users[i].ahead
    /\ Newlines(all_users[i].text) # {} => Has(i, "CMD_IN_BUF")
    /\ Has(i, "CMD_IN_BUF") => all_users[i].text # <<>>

(* However the bytes of a line arrive, and whatever overflows before it,   *)
(* a user who was never in character mode gives whole lines as commands.   *)
WholeLines ==
  at.in = "command" /\ Here(at.giver) /\ ~all_users[at.giver].char =>
    LET n == Len(at.command) IN
    at.command = [j \in 1 .. n |-> IF j = n THEN -n ELSE j]

(* A round that ends for want of a command leaves no command in anybody's  *)
(* text buffer, as comm.c:2055-2058 says what a command is, though         *)
(* get_user_command() looks at CMD_IN_BUF only: it passes over nobody but  *)
(* those whose connection is lost, and half a line that was there when     *)
(* get_char() was called and has not been added to since.                  *)
RoundDrains ==
  [][at.in = "scan" /\ at'.in = "select" =>
       \A i \in SlotNo : Here(i)' =>
         /\ Has(i, "CMD_IN_BUF")' => Has(i, "NET_DEAD")'
         /\ CmdInBuf(all_users[i])' => Has(i, "NET_DEAD")' \/ all_users[i].ahead']_vars

Serves(i) == at.in = "command" /\ at.giver = i


(* lib/doc/applies/interactive/net_dead says that net_dead() is called if  *)
(* a user object "suddenly loses its connection"; remove_interactive()     *)
(* calls it.                                                               *)
DeadLinksLeave == \A i \in SlotNo : Has(i, "NET_DEAD") ~> ~Here(i)
=============================================================================
