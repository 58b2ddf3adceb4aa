-------------------------------- MODULE Output --------------------------------
(***************************************************************************)
(* The output buffer of one connection (fluffos/comm.c): add_message(),    *)
(* add_vmessage() and add_binary_message() write a message byte by byte    *)
(* into a ring of MESSAGE_BUF_SIZE bytes, and flush_message() hands the    *)
(* ring to a non-blocking send(), which may take any part of what it is    *)
(* offered, nothing, or fail.  A writer flushes only when the ring is      *)
(* full; otherwise the ring is flushed when select() reports the           *)
(* descriptor, before a command is looked for, by flush_messages(), and    *)
(* when a connection is removed whose object lives on.                     *)
(*                                                                         *)
(* One step is one character written or one send().  Three things are left *)
(* out: the out_of_band flag, which changes how the network marks a byte   *)
(* and not which bytes are sent, the snooper's copy of a message, and the  *)
(* catch_tell() of a shadow, which takes the message before the ring sees  *)
(* it.                                                                     *)
(***************************************************************************)
EXTENDS Integers, Sequences, FiniteSets

CONSTANTS
  MESSAGE_BUF_SIZE,  \* 4096 in the build
  Room,              \* bytes the network holds before send() would block
  Messages,          \* [kind, rest]: kinds of message and their characters
  MaxMessages        \* bound: messages written to one connection

ASSUME OutputAssumption ==
  /\ MESSAGE_BUF_SIZE \in Nat \ {0, 1}
  /\ Room \in Nat \ {0}
  /\ Messages \subseteq [kind : {"text", "vtext", "binary"},
                         rest : Seq({"x", "nl", "iac"})]
  /\ MaxMessages \in Nat

VARIABLES
  message_buf,       \* the ring
  message_producer,  \* where the next byte goes
  message_consumer,  \* where the next byte to send is
  message_length,    \* bytes between the two
  net_dead,          \* NET_DEAD or CLOSING is set
  task,              \* the message being written: its kind and what is left
  flushing,          \* why flush_message() runs, "no" if it does not
  wire,              \* history: the bytes send() took, in order
  held,              \* bytes the network holds and the client has not read
  written            \* history: messages begun

ring == <<message_buf, message_producer, message_consumer, message_length>>
outputVars == <<ring, net_dead, task, flushing, wire, held, written>>

Byte == {"x", "cr", "nl", "iac"}
Index == 0 .. MESSAGE_BUF_SIZE - 1
NoTask == [kind |-> "none", rest |-> <<>>]

OutputTypeOK ==
  /\ message_buf \in [Index -> Byte]
  /\ message_producer \in Index
  /\ message_consumer \in Index
  /\ message_length \in 0 .. MESSAGE_BUF_SIZE
  /\ message_producer = (message_consumer + message_length) % MESSAGE_BUF_SIZE
  /\ net_dead \in BOOLEAN
  /\ task \in [kind : {"none", "text", "vtext", "binary"},
               rest : Seq({"x", "nl", "iac"})]
  /\ flushing \in {"no", "full", "pair", "end", "flush", "remove"}
  /\ wire \in Seq(Byte)
  /\ held \in 0 .. Room
  /\ written \in 0 .. MaxMessages

OutputInit ==
  /\ message_buf = [i \in Index |-> "x"]
  /\ message_producer = 0
  /\ message_consumer = 0
  /\ message_length = 0
  /\ net_dead = FALSE
  /\ task = NoTask
  /\ flushing = "no"
  /\ wire = <<>>
  /\ held = 0
  /\ written = 0

-----------------------------------------------------------------------------
(* Writing *)

Next1 == Head(task.rest)

(* A character that takes two bytes: add_message() doubles newline and IAC *)
(* (unless the port is binary), add_vmessage() newlines only.              *)
Paired ==
  \/ task.kind = "text" /\ Next1 \in {"nl", "iac"}
  \/ task.kind = "vtext" /\ Next1 = "nl"

First == IF Next1 = "nl" THEN "cr" ELSE Next1

Add(kind, rest) ==
  /\ task = NoTask /\ flushing = "no" /\ ~net_dead
  /\ written < MaxMessages
  /\ written' = written + 1
  /\ task' = [kind |-> kind, rest |-> rest]
  /\ UNCHANGED <<ring, net_dead, flushing, wire, held>>

AddMessage == \E m \in Messages : m.kind = "text" /\ Add("text", m.rest)
AddVmessage == \E m \in Messages : m.kind = "vtext" /\ Add("vtext", m.rest)
AddBinaryMessage ==
  \E m \in Messages : m.kind = "binary" /\ Add("binary", m.rest)

Writing == task.rest # <<>> /\ flushing = "no"

(* A fault: a pair is put where one byte is left.                          *)
OneTest == IF message_length = MESSAGE_BUF_SIZE THEN "full" ELSE "no"

(* The two tests that flush a ring without room.                           *)
WouldOverflow ==
  IF message_length = MESSAGE_BUF_SIZE THEN "full"
  ELSE IF Paired /\ message_length = MESSAGE_BUF_SIZE - 1 THEN "pair"
  ELSE "no"

RingIsFull ==
  /\ Writing /\ WouldOverflow # "no"
  /\ flushing' = WouldOverflow
  /\ UNCHANGED <<ring, net_dead, task, wire, held, written>>

PutChar ==
  /\ Writing /\ WouldOverflow = "no"
  /\ LET b == IF Paired THEN <<First, Next1>> ELSE <<Next1>>
         at(k) == (message_producer + k - 1) % MESSAGE_BUF_SIZE
     IN  /\ message_buf' =
              [i \in Index |-> IF i = at(1) THEN b[1]
                               ELSE IF Paired /\ i = at(2) THEN b[2]
                               ELSE message_buf[i]]
         /\ message_producer' = at(Len(b) + 1)
         /\ message_length' = message_length + Len(b)
  /\ task' = [task EXCEPT !.rest = Tail(@)]
  /\ UNCHANGED <<message_consumer, net_dead, flushing, wire, held, written>>

(* After the loop add_message() leaves the bytes in the ring, and the      *)
(* other two flush them.                                                   *)
EndOfMessage ==
  /\ task # NoTask /\ task.rest = <<>> /\ flushing = "no"
  /\ task' = NoTask
  /\ flushing' = IF task.kind = "text" THEN "no" ELSE "end"
  /\ UNCHANGED <<ring, net_dead, wire, held, written>>

-----------------------------------------------------------------------------
(* flush_message() *)

(* process_io(), get_user_command(), flush_messages(): only a ring that    *)
(* holds something, on a link that is up, is worth a call.                 *)
Flush ==
  /\ task = NoTask /\ flushing = "no" /\ ~net_dead /\ message_length # 0
  /\ flushing' = "flush"
  /\ UNCHANGED <<ring, net_dead, task, wire, held, written>>

RemoveInteractive ==
  /\ task = NoTask /\ flushing = "no" /\ ~net_dead
  /\ flushing' = "remove"
  /\ UNCHANGED <<ring, net_dead, task, wire, held, written>>

(* destruct_object() flags the object before it removes the connection:    *)
(* flush_message() refuses, and what the ring holds is lost.               *)
DestructUser ==
  /\ task = NoTask /\ flushing = "no" /\ ~net_dead
  /\ net_dead' = TRUE
  /\ UNCHANGED <<ring, task, flushing, wire, held, written>>

(* The bytes one send() is offered: up to the producer or the ring's end.  *)
Segment ==
  IF message_consumer < message_producer
  THEN message_producer - message_consumer
  ELSE MESSAGE_BUF_SIZE - message_consumer

Sending == flushing # "no" /\ message_length # 0

SmallerOf(a, b) == IF a < b THEN a ELSE b

(* A fault: the bytes go out, and the consumer is left behind when the     *)
(* segment ends with the ring.                                             *)
SendSticks ==
  /\ Sending
  /\ \E n \in 1 .. SmallerOf(Segment, Room - held) :
       /\ wire' = wire \o [k \in 1 .. n |->
                             message_buf[(message_consumer + k - 1)
                                           % MESSAGE_BUF_SIZE]]
       /\ message_consumer' =
            SmallerOf(message_consumer + n, MESSAGE_BUF_SIZE - 1)
       /\ message_length' = message_length - n
       /\ held' = held + n
  /\ UNCHANGED <<message_buf, message_producer, net_dead, task, flushing,
                 written>>

SendSome ==
  /\ Sending
  /\ \E n \in 1 .. SmallerOf(Segment, Room - held) :
       /\ wire' = wire \o [k \in 1 .. n |->
                             message_buf[(message_consumer + k - 1)
                                           % MESSAGE_BUF_SIZE]]
       /\ message_consumer' = (message_consumer + n) % MESSAGE_BUF_SIZE
       /\ message_length' = message_length - n
       /\ held' = held + n
  /\ UNCHANGED <<message_buf, message_producer, net_dead, task, flushing,
                 written>>

(* flush_message() returns 1.  A writer whose ring is as full as before    *)
(* gives up the rest of its message.                                       *)
Return1 ==
  /\ flushing' = "no"
  /\ task' = IF flushing = WouldOverflow /\ flushing \in {"full", "pair"}
             THEN [task EXCEPT !.rest = <<>>] ELSE task
  /\ net_dead' = (net_dead \/ flushing = "remove")
  /\ UNCHANGED <<ring, wire, held, written>>

FlushEnds == flushing # "no" /\ message_length = 0 /\ Return1

(* EWOULDBLOCK, or EINTR at any time. *)
FlushStops == Sending /\ Return1

(* send() says 0, or fails in another way; whoever called sees 0.          *)
LinkBreaks ==
  /\ Sending
  /\ net_dead' = TRUE
  /\ flushing' = "no"
  /\ task' = NoTask
  /\ UNCHANGED <<ring, wire, held, written>>

(* The client reads what the network holds. *)
ClientReads ==
  /\ held > 0
  /\ held' = 0
  /\ UNCHANGED <<ring, net_dead, task, flushing, wire, written>>

(* The connection is closed, or everything is written and sent.            *)
Done ==
  /\ net_dead \/ (written = MaxMessages /\ message_length = 0)
  /\ task = NoTask /\ flushing = "no"
  /\ UNCHANGED outputVars

-----------------------------------------------------------------------------
Write == AddMessage \/ AddVmessage \/ AddBinaryMessage
WriterGoesOn ==
  \/ RingIsFull \/ PutChar \/ EndOfMessage \/ FlushEnds
OutputNext ==
  \/ Write \/ WriterGoesOn \/ Flush \/ RemoveInteractive \/ DestructUser
  \/ SendSome \/ FlushStops \/ LinkBreaks \/ ClientReads \/ Done

(* C code runs on, the backend loop comes back to a ring that holds        *)
(* something, the client goes on reading, and send() does not report EINTR *)
(* for ever while there is room.                                           *)
Fairness ==
  /\ WF_outputVars(WriterGoesOn)
  /\ WF_outputVars(Flush)
  /\ WF_outputVars(ClientReads)
  /\ WF_outputVars(FlushStops)
  /\ SF_outputVars(SendSome)

OutputSpec == OutputInit /\ [][OutputNext]_outputVars /\ Fairness

-----------------------------------------------------------------------------
(* Properties *)

Queue == [k \in 1 .. message_length |->
            message_buf[(message_consumer + k - 1) % MESSAGE_BUF_SIZE]]

(* The ring is a bounded first-in first-out stream: for all the places     *)
(* that flush it, and however send() cuts what it is given, bytes go out   *)
(* once and in the order they were written, a message is cut only at its   *)
(* end and only when the next character does not fit, and a client that    *)
(* goes on reading gets what was written (add_message() and                *)
(* flush_message(), comm.c:595-835).                                       *)
Abstract == INSTANCE Stream WITH
  Size <- MESSAGE_BUF_SIZE, Offers <- Messages,
  offer <- IF task.rest = <<>> THEN NoTask ELSE task,
  queue <- Queue, wire <- wire, open <- ~net_dead

StreamSpec == Abstract!Spec
=============================================================================
