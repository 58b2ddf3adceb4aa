--------------------------------- MODULE Async ---------------------------------
(***************************************************************************)
(* Asynchronous input and output (fluffos/packages/async.c): the driver's  *)
(* main thread queues requests to read and write files, one worker thread  *)
(* carries them out, and the backend loop calls the function of each       *)
(* request whose status is DONE.                                           *)
(*                                                                         *)
(* The two threads share the list todo of work nodes, under the mutex      *)
(* work_mut, the list stuffs of free nodes, under mem_mut, and the fields  *)
(* of a request.  The mutex mut is a binary semaphore: the worker takes it *)
(* to sleep, and the main thread, which never takes it again, releases it  *)
(* after each request.  Both threads also read the heads of lists without  *)
(* the mutex.                                                              *)
(*                                                                         *)
(* One step is one access of one thread to what the threads share.  The    *)
(* stores of a thread are seen in the order it makes them.  The main       *)
(* thread's own lists, of requests and of free requests, are sequences.    *)
(***************************************************************************)
EXTENDS Naturals, Sequences, FiniteSets

CONSTANTS
  Kinds,    \* of requests: "plain", and "gz" for a compressed write
  MaxAsks,  \* bound: requests made in one behaviour
  None      \* the null pointer

ASSUME AsyncAssumption ==
  /\ Kinds \subseteq {"plain", "gz"}
  /\ MaxAsks \in Nat
  /\ None \notin Nat

VARIABLES
  main,       \* where the main thread is, and the nodes it has in hand
  worker,     \* where the worker is, and the node it has in hand
  mut,        \* the semaphore is taken
  work_mut,   \* the thread that holds it
  mem_mut,    \* the thread that holds it
  todo,       \* first work node to do
  lasttodo,   \* last work node to do
  stuffs,     \* first free work node
  next,       \* the link of each work node
  data,       \* the request of each work node
  req,        \* the fields of each request
  reqs,       \* requests waiting for their call, in order
  reqms,      \* free requests, the first to be reused first
  handling,   \* the main thread is in the function of the first request
  down,       \* the main thread is in complete_all_asyncio()
  in_file,    \* requests whose effect has reached the file system
  asked,      \* history: the kinds of the requests made
  carried, answered  \* histories, as in Jobs

locks == <<mut, work_mut, mem_mut>>
works == <<todo, lasttodo, stuffs, next, data>>
requests == <<req, reqs, reqms, handling, down>>
history == <<asked, carried, answered, in_file>>
vars == <<main, worker, locks, works, requests, history>>

Node == 1 .. MaxAsks
Ptr == Node \union {None}
Holder == {"nobody", "main", "worker"}

Request ==
  [id : Node, kind : {"plain", "gz"}, status : {"BUSY", "DONE"},
   done : BOOLEAN]

NoRequest == [id |-> 1, kind |-> "plain", status |-> "DONE", done |-> TRUE]

TypeOK ==
  /\ main \in [at : {"lpc", "take", "put", "last", "post", "off"},
               work : Ptr, req : Ptr]
  /\ worker \in [at : {"wait", "test", "pop", "drop", "run", "done", "close",
                       "free", "freed"}, work : Ptr]
  /\ mut \in BOOLEAN
  /\ work_mut \in Holder /\ mem_mut \in Holder
  /\ (work_mut = "main") = (main.at = "last")
  /\ (work_mut = "worker") = (worker.at = "drop")
  /\ (mem_mut = "worker") = (worker.at = "freed")
  /\ todo \in Ptr /\ lasttodo \in Ptr /\ stuffs \in Ptr
  /\ next \in [Node -> Ptr]
  /\ data \in [Node -> Ptr]
  /\ req \in [Node -> Request]
  /\ reqs \in Seq(Node) /\ reqms \in Seq(Node)
  /\ handling \in BOOLEAN /\ down \in BOOLEAN
  /\ in_file \subseteq Node
  /\ asked \in Seq(Kinds) /\ Len(asked) <= MaxAsks
  /\ carried \in Seq(Node) /\ answered \in Seq(Node)

(* do_stuff() has made the thread and taken the semaphore.                 *)
Init ==
  /\ main = [at |-> "lpc", work |-> None, req |-> None]
  /\ worker = [at |-> "wait", work |-> None]
  /\ mut = TRUE
  /\ work_mut = "nobody" /\ mem_mut = "nobody"
  /\ todo = None /\ lasttodo = None /\ stuffs = None
  /\ next = [n \in Node |-> None]
  /\ data = [n \in Node |-> None]
  /\ req = [n \in Node |-> NoRequest]
  /\ reqs = <<>> /\ reqms = <<>>
  /\ handling = FALSE /\ down = FALSE
  /\ asked = <<>> /\ carried = <<>> /\ answered = <<>> /\ in_file = {}

-----------------------------------------------------------------------------
(* The main thread makes a request *)

(* The nodes of a list of work nodes: those in every set that holds the    *)
(* first and follows the links.                                            *)
Closed(S) == \A n \in S \ {None} : next[n] \in S
From(first) ==
  {n \in Node : \A S \in SUBSET Ptr : first \in S /\ Closed(S) => n \in S}

Elements(s) == {s[i] : i \in DOMAIN s}
Lowest(S) == CHOOSE n \in S : \A m \in S : n <= m

(* Memory for a node when the free list is empty: one never used before.   *)
NewWork ==
  Lowest(Node \ (From(todo) \union From(stuffs) \union {main.work, worker.work}))
NewReq == Lowest(Node \ (Elements(reqs) \union Elements(reqms)))

(* async_read(), async_write(): a request is filled in, and the free list  *)
(* of work nodes is looked at without the mutex.                           *)
Ask ==
  /\ main.at = "lpc" /\ Len(asked) < MaxAsks
  /\ ~down \/ handling
  /\ LET r == IF reqms = <<>> THEN NewReq ELSE Head(reqms)
     IN  /\ \E kind \in Kinds :
              /\ req' = [req EXCEPT ![r] =
                           [id |-> Len(asked) + 1, kind |-> kind,
                            status |-> "BUSY", done |-> FALSE]]
              /\ asked' = Append(asked, kind)
         /\ reqms' = IF reqms = <<>> THEN reqms ELSE Tail(reqms)
         /\ main' = IF stuffs = None
                    THEN [at |-> "put", work |-> NewWork, req |-> r]
                    ELSE [at |-> "take", work |-> None, req |-> r]
  /\ UNCHANGED <<worker, locks, works, reqs, handling, down, carried,
                 answered, in_file>>

(* A fault: the head of the free list is taken without the mutex.          *)
TakeUnlocked ==
  /\ main.at = "take"
  /\ main' = [main EXCEPT !.at = "put", !.work = stuffs]
  /\ stuffs' = next[stuffs]
  /\ UNCHANGED <<worker, locks, todo, lasttodo, next, data, requests, history>>

(* get_stuff() with the mutex, which it releases again. *)
Take ==
  /\ main.at = "take" /\ mem_mut = "nobody"
  /\ main' = [main EXCEPT !.at = "put", !.work = stuffs]
  /\ stuffs' = next[stuffs]
  /\ UNCHANGED <<worker, locks, todo, lasttodo, next, data, requests, history>>

(* A fault: the request and its node are put in without the mutex.         *)
PutUnlocked ==
  /\ main.at = "put"
  /\ work_mut' = "main"
  /\ reqs' = Append(reqs, main.req)
  /\ data' = [data EXCEPT ![main.work] = main.req]
  /\ next' = [next EXCEPT ![main.work] = None,
                          ![IF lasttodo = None THEN main.work ELSE lasttodo] =
                             IF lasttodo = None THEN None ELSE main.work]
  /\ todo' = IF lasttodo = None THEN main.work ELSE todo
  /\ main' = [main EXCEPT !.at = "last"]
  /\ UNCHANGED <<worker, mut, mem_mut, lasttodo, stuffs, req, reqms, handling,
                 down, history>>

(* do_stuff() takes work_mut, adds the request and links the node ...      *)
Put ==
  /\ main.at = "put" /\ work_mut = "nobody"
  /\ work_mut' = "main"
  /\ reqs' = Append(reqs, main.req)
  /\ data' = [data EXCEPT ![main.work] = main.req]
  /\ next' = [next EXCEPT ![main.work] = None,
                          ![IF lasttodo = None THEN main.work ELSE lasttodo] =
                             IF lasttodo = None THEN None ELSE main.work]
  /\ todo' = IF lasttodo = None THEN main.work ELSE todo
  /\ main' = [main EXCEPT !.at = "last"]
  /\ UNCHANGED <<worker, mut, mem_mut, lasttodo, stuffs, req, reqms, handling,
                 down, history>>

(* ... and makes it the last one, and releases work_mut, ...               *)
Last ==
  /\ main.at = "last"
  /\ lasttodo' = main.work
  /\ work_mut' = "nobody"
  /\ main' = [main EXCEPT !.at = "post"]
  /\ UNCHANGED <<worker, mut, mem_mut, todo, stuffs, next, data, requests,
                 history>>

(* ... and releases the semaphore.                                         *)
Post ==
  /\ main.at = "post"
  /\ mut' = FALSE
  /\ main' = [at |-> "lpc", work |-> None, req |-> None]
  /\ UNCHANGED <<worker, work_mut, mem_mut, works, requests, history>>

-----------------------------------------------------------------------------
(* The main thread answers *)

First == reqs[1]
Ready ==
  /\ main.at = "lpc" /\ ~handling
  /\ reqs # <<>> /\ req[First].status = "DONE"

(* A fault: the request is not marked before the call.                     *)
CallUnmarked ==
  /\ Ready /\ ~req[First].done
  /\ handling' = TRUE
  /\ answered' = Append(answered, req[First].id)
  /\ UNCHANGED <<main, worker, locks, works, req, reqs, reqms, down, asked,
                 carried, in_file>>

(* check_reqs() marks the first request and calls its function, which may  *)
(* make requests of its own.  The attempt counts as the answer: a function *)
(* whose owner is destructed is not run (function.c:227), and its request  *)
(* is freed like any other.                                                *)
Call ==
  /\ Ready /\ ~req[First].done
  /\ req' = [req EXCEPT ![First].done = TRUE]
  /\ handling' = TRUE
  /\ answered' = Append(answered, req[First].id)
  /\ UNCHANGED <<main, worker, locks, works, reqs, reqms, down, asked,
                 carried, in_file>>

Drop ==
  /\ reqs' = Tail(reqs)
  /\ reqms' = <<First>> \o reqms

(* The function returns, or safe_call_efun_callback() has caught its error *)
(* (function.c:338-346), and the request is freed.                         *)
CallReturns ==
  /\ main.at = "lpc" /\ handling
  /\ handling' = FALSE
  /\ Drop
  /\ UNCHANGED <<main, worker, locks, works, req, down, history>>

(* check_reqs() meets a marked request: the one in whose function the      *)
(* driver was shut down.                                                   *)
DropMarked ==
  /\ Ready /\ req[First].done
  /\ Drop
  /\ UNCHANGED <<main, worker, locks, works, req, handling, down, history>>

(* shutdown(), in the function of a request or elsewhere: nothing below it *)
(* is returned to, and complete_all_asyncio() calls check_reqs() again.    *)
Shutdown ==
  /\ main.at = "lpc" /\ (~down \/ handling)
  /\ down' = TRUE
  /\ handling' = FALSE
  /\ UNCHANGED <<main, worker, locks, works, req, reqs, reqms, history>>

(* A fault: the driver waits for no request.                               *)
ExitAtOnce ==
  /\ down /\ main.at = "lpc" /\ ~handling
  /\ main' = [main EXCEPT !.at = "off"]
  /\ UNCHANGED <<worker, locks, works, requests, history>>

(* No request is left: the process ends, the worker with it.               *)
Exit ==
  /\ down /\ main.at = "lpc" /\ ~handling /\ reqs = <<>>
  /\ main' = [main EXCEPT !.at = "off"]
  /\ UNCHANGED <<worker, locks, works, requests, history>>

-----------------------------------------------------------------------------
(* The worker *)

Goes(from, to) ==
  /\ main.at # "off"
  /\ worker.at = from
  /\ worker' = [worker EXCEPT !.at = to]

Wake ==
  /\ Goes("wait", "test") /\ ~mut
  /\ mut' = TRUE
  /\ UNCHANGED <<main, work_mut, mem_mut, works, requests, history>>

(* while (todo), without work_mut *)
Test ==
  /\ \/ todo # None /\ Goes("test", "pop")
     \/ todo = None /\ Goes("test", "wait")
  /\ UNCHANGED <<main, locks, works, requests, history>>

Pop ==
  /\ main.at # "off" /\ worker.at = "pop" /\ work_mut = "nobody"
  /\ work_mut' = "worker"
  /\ todo' = next[todo]
  /\ worker' = [at |-> "drop", work |-> todo]
  /\ UNCHANGED <<main, mut, mem_mut, lasttodo, stuffs, next, data, requests,
                 history>>

Popped ==
  /\ Goes("drop", "run")
  /\ lasttodo' = IF todo = None THEN None ELSE lasttodo
  /\ work_mut' = "nobody"
  /\ UNCHANGED <<main, mut, mem_mut, todo, stuffs, next, data, requests,
                 history>>

Job == req[data[worker.work]]

(* read(), write() or gzwrite(), and the result; what is compressed stays  *)
(* in memory.                                                              *)
Run ==
  /\ Goes("run", "done")
  /\ carried' = Append(carried, Job.id)
  /\ in_file' = IF Job.kind = "gz" THEN in_file ELSE in_file \union {Job.id}
  /\ UNCHANGED <<main, locks, works, requests, asked, answered>>

SetDone ==
  /\ Goes("done", "close")
  /\ req' = [req EXCEPT ![data[worker.work]].status = "DONE"]
  /\ UNCHANGED <<main, locks, works, reqs, reqms, handling, down, history>>

(* close() or gzclose(): the thread knows its own file, not the request,   *)
(* which the main thread may have freed and reused.                        *)
Close ==
  /\ Goes("close", "free")
  /\ in_file' = in_file \union {carried[Len(carried)]}
  /\ UNCHANGED <<main, locks, works, requests, asked, carried, answered>>

(* free_stuff() *)
Free ==
  /\ Goes("free", "freed") /\ mem_mut = "nobody"
  /\ mem_mut' = "worker"
  /\ next' = [next EXCEPT ![worker.work] = stuffs]
  /\ UNCHANGED <<main, mut, work_mut, todo, lasttodo, stuffs, data, requests,
                 history>>

Freed ==
  /\ main.at # "off" /\ worker.at = "freed"
  /\ stuffs' = worker.work
  /\ mem_mut' = "nobody"
  /\ worker' = [at |-> "test", work |-> None]
  /\ UNCHANGED <<main, mut, work_mut, todo, lasttodo, next, data, requests,
                 history>>

-----------------------------------------------------------------------------
MainThread == Take \/ Put \/ Last \/ Post
Worker ==
  Wake \/ Test \/ Pop \/ Popped \/ Run \/ SetDone \/ Close \/ Free \/ Freed
Answers == Call \/ CallReturns \/ DropMarked

(* All is answered, and nothing more is asked; or the driver is off.       *)
Rest ==
  /\ main.at = "off" \/ (Len(asked) = MaxAsks /\ reqs = <<>> /\ main.at = "lpc")
  /\ UNCHANGED vars

Next ==
  Ask \/ MainThread \/ Answers \/ Shutdown \/ Exit \/ Worker \/ Rest

(* Each thread runs on, and the backend loop comes back to check_reqs().   *)
Fairness ==
  WF_vars(MainThread) /\ WF_vars(Answers) /\ WF_vars(Worker)

Spec == Init /\ [][Next]_vars /\ Fairness

-----------------------------------------------------------------------------
(* Properties *)

(* Requests are carried out once each and in order, answered once each and *)
(* in order, none before it was carried out, and every one in the end:     *)
(* whatever the threads read without a mutex, no wakeup is lost, and the   *)
(* request in whose function the driver is shut down, which is still the   *)
(* first when check_reqs() is called again, is not answered twice          *)
(* (async.c:105-145, 489-533).                                             *)
Promise == INSTANCE Jobs WITH
  asked <- Len(asked), carried <- carried, answered <- answered

JobsSpec == Promise!Spec

(* No work node is in two places: free, to be done, in the hand of one     *)
(* thread (async.c:78-99, 108-117, 131-143).                               *)
OneOwner ==
  LET mine == IF main.at \in {"put", "last"} THEN {main.work} ELSE {}
      its == {worker.work} \ {None}
  IN  /\ From(stuffs) \intersect (From(todo) \union mine \union its) = {}
      /\ its \intersect (From(todo) \union mine) = {}

(* The driver does not end before what was asked of it is in the files,    *)
(* except what is compressed, which is written after the request was       *)
(* answered (async.c:530-533, 216-224).                                    *)
ExitLosesNothing ==
  main.at = "off" =>
    \A n \in DOMAIN asked : asked[n] = "plain" => n \in in_file
=============================================================================
