------------------------------ MODULE Sockets -------------------------------
(***************************************************************************)
(* The life of the sockets: the EPoll of each worker (sockets.rs), the     *)
(* callbacks of the services (service.rs) and the lists through which      *)
(* workers hand sockets to one another (server.rs).                        *)
(*                                                                         *)
(* A socket is whatever list holds its Arc; it is closed when nothing      *)
(* holds it.  What a worker does to sockets that only it holds, between    *)
(* two critical sections or system calls, is one action.  The kernel and   *)
(* the clients are the environment.                                        *)
(***************************************************************************)
EXTENDS Integers, Sequences, FiniteSets, SequencesExt

CONSTANTS Workers,      \* the threads in Server::call
          Hello,        \* connections to Default, built without its service
          Control,      \* connections to Control
          Pipe,         \* connections to PipeService with DefaultPipeServer
          None,         \* no socket in hand
          MaxClients,   \* bound on the clients that ever connect
          MaxAsked,     \* bound on the requests of one client
          Commands,     \* what the clients of Control ask for
          MayTick,      \* whether Default.tick may find a connection too old
          MayRetire,    \* whether a worker may flag itself and leave the pool
          MayPanic      \* whether DefaultPipeServer.perform may panic

ASSUME SocketsAssumption ==
  /\ IsFiniteSet(Hello \cup Control \cup Pipe)
  /\ None \notin Hello \cup Control \cup Pipe
  /\ (Hello \cup Control \cup Pipe \cup {None}) \cap {"hello", "control", "pipe"} = {}
  /\ Hello \cap Control = {} /\ Hello \cap Pipe = {} /\ Control \cap Pipe = {}
  /\ MaxClients \in Nat /\ MaxAsked \in Nat
  /\ {MayTick, MayRetire, MayPanic} \subseteq BOOLEAN
  /\ Commands \subseteq {"status", "shutdown", "start"}

Conns == Hello \cup Control \cup Pipe

\* The listening socket of a service goes by the name of the service.
Clients(l) == CASE l = "hello"   -> Hello
                [] l = "control" -> Control
                [] l = "pipe"    -> Pipe

\* Services without a client in this instance are left out.
Listeners == {l \in {"hello", "control", "pipe"} : Clients(l) # {}}

Socks == Conns \cup Listeners

\* keep(): PipeService sockets stay with the worker that has them.
Keep == Pipe \cup {"pipe"}

VARIABLES
  pc,           \* where each worker stands in Server::call
  hand,         \* the socket a worker took from a queue or got back from service()
  shutdown,     \* cntrl_.shutdown of each worker, as set by a command
  lst_pending,  \* EPoll.lst_pending of each worker
  lst_done,     \* EPoll.lst_done of each worker
  armed,        \* the sockets the epoll of each worker will report once
  batch,        \* the reported sockets perform() has yet to look at
  lstSvc,       \* lstSvc_
  lstSvcLow,    \* lstSvcLow_
  lstSocket,    \* lstSocket_
  state,        \* Socket.state
  wr_buf,       \* what is being written: nothing, Control's greeting, a reply
  toRead_,      \* PipeService.toRead_
  client,       \* what the client of each connection is up to
  asked,        \* the requests it has sent
  command,      \* what a client of Control asked for last
  unread,       \* a request is in the kernel
  full          \* the kernel takes no more output

thread  == <<pc, hand, shutdown>>
epoll   == <<lst_pending, lst_done, armed>>
queues  == <<lstSvc, lstSvcLow>>
content == <<state, wr_buf, toRead_>>
kernel  == <<client, asked, command, unread, full>>
vars == <<thread, epoll, batch, queues, lstSocket, content, kernel>>

Points == {"take", "service", "return", "get", "lp", "wait", "perform", "tick",
           "lp2", "put", "check", "gone"}

States == {"NotInitialized", "Listening", "Connected", "Reading", "Writing",
           "PeerClosed", "Error", "closed"}

Goto(w, l) == pc' = [pc EXCEPT ![w] = l]

Gone(c) == client[c] = "gone"

Init ==
  \E first \in Workers :
    /\ pc = [w \in Workers |-> "take"]
    /\ hand = [w \in Workers |-> None]
    /\ shutdown = [w \in Workers |-> FALSE]
    /\ lst_pending = [w \in Workers |-> IF w = first THEN Listeners ELSE {}]
    /\ armed = lst_pending
    /\ lst_done = [w \in Workers |-> <<>>]
    /\ batch = [w \in Workers |-> {}]
    /\ lstSvc = <<>> /\ lstSvcLow = <<>> /\ lstSocket = <<>>
    /\ state = [s \in Socks |->
                  IF s \in Listeners THEN "Listening" ELSE "NotInitialized"]
    /\ wr_buf = [c \in Conns |-> "nothing"]
    /\ toRead_ = [c \in Pipe |-> 0]
    /\ client = [c \in Conns |-> "new"]
    /\ asked = [c \in Conns |-> 0]
    /\ command = [c \in Control |-> "status"]
    /\ unread = [c \in Conns |-> FALSE]
    /\ full = [c \in Conns |-> FALSE]

-----------------------------------------------------------------------------
(* The clients and the kernel.                                             *)

Connect(c) ==
  /\ client[c] = "new"
  /\ \E l \in Listeners : c \in Clients(l) /\ state[l] = "Listening"
  /\ Cardinality({d \in Conns : client[d] # "new"}) < MaxClients
  /\ client' = [client EXCEPT ![c] = "queued"]
  /\ UNCHANGED <<thread, epoll, batch, queues, lstSocket, content, asked, command, unread, full>>

\* A client sends one request at a time, once it is connected.  "start" is a start
\* command without a number; "status" is any other, those that start threads included.
Ask(c) ==
  /\ client[c] = "open" /\ state[c] # "closed" /\ asked[c] < MaxAsked
  /\ client' = [client EXCEPT ![c] = "asking"]
  /\ asked' = [asked EXCEPT ![c] = @ + 1]
  /\ IF c \in Control
       THEN \E o \in Commands : command' = [command EXCEPT ![c] = o]
       ELSE UNCHANGED command
  /\ unread' = [unread EXCEPT ![c] = TRUE]
  /\ UNCHANGED <<thread, epoll, batch, queues, lstSocket, content, full>>

\* A client leaves; a reset also discards what it has sent.
Hangup(c) ==
  /\ client[c] \in {"open", "asking"}
  /\ client' = [client EXCEPT ![c] = "gone"]
  /\ unread' \in {unread, [unread EXCEPT ![c] = FALSE]}
  /\ UNCHANGED <<thread, epoll, batch, queues, lstSocket, content, asked, command, full>>

\* The client reads what the server wrote.
Drain(c) ==
  /\ full[c]
  /\ full' = [full EXCEPT ![c] = FALSE]
  /\ UNCHANGED <<thread, epoll, batch, queues, lstSocket, content, client, asked, command, unread>>

\* What makes epoll_wait report a socket with the events EPoll::accept asks for.
Ready(s) ==
  CASE state[s] = "Listening" -> \E c \in Clients(s) : client[c] = "queued"
    [] state[s] = "Reading"   -> unread[s] \/ Gone(s)
    [] state[s] = "Writing"   -> ~full[s] \/ Gone(s)
    [] OTHER -> FALSE

-----------------------------------------------------------------------------
(* EPoll: registering, completing, reading and writing.  pend and done are *)
(* what is left of the two lists of w without the socket at work.          *)

\* EPoll::accept: one-shot registration and lst_pending.  Left out: that the kernel
\* refuses both epoll_ctl calls, for want of memory or watches; the error is ignored
\* by every caller and the socket dropped.
Accept(w, s, pend, done) ==
  /\ lst_pending' = [lst_pending EXCEPT ![w] = pend \cup {s}]
  /\ armed' = [armed EXCEPT ![w] = @ \cup {s}]
  /\ lst_done' = [lst_done EXCEPT ![w] = done]

\* Mutant: the socket stays registered with epoll.
PushDoneRegistered(w, s, pend, done) ==
  /\ lst_pending' = [lst_pending EXCEPT ![w] = pend]
  /\ armed' = [armed EXCEPT ![w] = @ \cup {s}]
  /\ lst_done' = [lst_done EXCEPT ![w] = Append(done, s)]

\* EPoll::push_done: no longer registered, ready for lp.
PushDone(w, s, pend, done) ==
  /\ lst_pending' = [lst_pending EXCEPT ![w] = pend]
  /\ armed' = [armed EXCEPT ![w] = @ \ {s}]
  /\ lst_done' = [lst_done EXCEPT ![w] = Append(done, s)]

\* The socket is in neither list any more.
Release(w, s, pend, done) ==
  /\ lst_pending' = [lst_pending EXCEPT ![w] = pend]
  /\ armed' = [armed EXCEPT ![w] = @ \ {s}]
  /\ lst_done' = [lst_done EXCEPT ![w] = done]

SetState(s, v) == state' = [state EXCEPT ![s] = v]

\* EPoll::read and read_imm: nothing there yet, a request, the end of the stream
\* or an error.
Read(w, s, pend, done) ==
  /\ UNCHANGED <<wr_buf, client, asked, command, full>>
  /\ \/ /\ ~unread[s] /\ ~Gone(s)
        /\ SetState(s, "Reading")
        /\ Accept(w, s, pend, done)
        /\ UNCHANGED unread
     \/ /\ unread[s]
        /\ SetState(s, "Reading")
        /\ PushDone(w, s, pend, done)
        /\ unread' = [unread EXCEPT ![s] = FALSE]
     \/ /\ ~unread[s] /\ Gone(s)
        /\ \E v \in {"PeerClosed", "Error"} : SetState(s, v)
        /\ PushDone(w, s, pend, done)
        /\ UNCHANGED unread

\* What the client makes of a complete answer: only Control goes on.
Served(c) == IF c \in Control THEN "open" ELSE "served"

\* Mutant: a write that the kernel took only in part counts as complete.
WriteOnce(w, s, buf, pend, done) ==
  /\ SetState(s, "Writing")
  /\ wr_buf' = [wr_buf EXCEPT ![s] = "nothing"]
  /\ \/ /\ ~full[s] /\ buf = "reply" /\ ~Gone(s)
        /\ client' = [client EXCEPT ![s] = Served(s)]
        /\ UNCHANGED full
     \/ full' = [full EXCEPT ![s] = ~Gone(s)] /\ UNCHANGED client
  /\ PushDone(w, s, pend, done)
  /\ UNCHANGED <<asked, command, unread>>

\* EPoll::write and write_imm of buf: all of it, some of it or nothing, or an error.
\* Bound: an answer fits in what the kernel takes after one more wait.
Write(w, s, buf, pend, done) ==
  /\ UNCHANGED <<asked, command, unread>>
  /\ \/ /\ ~full[s]
        /\ SetState(s, "Writing")
        /\ wr_buf' = [wr_buf EXCEPT ![s] = "nothing"]
        /\ client' = [client EXCEPT ![s] =
                        IF buf = "reply" /\ ~Gone(s) THEN Served(s) ELSE @]
        /\ PushDone(w, s, pend, done)
        /\ UNCHANGED full
     \/ /\ ~Gone(s)
        /\ full[s] \/ wr_buf[s] = "nothing"
        /\ SetState(s, "Writing")
        /\ wr_buf' = [wr_buf EXCEPT ![s] = buf]
        /\ full' = [full EXCEPT ![s] = TRUE]
        /\ Accept(w, s, pend, done)
        /\ UNCHANGED client
     \/ /\ Gone(s)
        /\ SetState(s, "Error")
        /\ PushDone(w, s, pend, done)
        /\ UNCHANGED <<wr_buf, client, full>>

-----------------------------------------------------------------------------
(* The loop of Server::call: taking a job and serving it.                  *)

TakeJob(w) ==
  /\ pc[w] = "take"
  /\ lstSvc # <<>>
  /\ hand' = [hand EXCEPT ![w] = Head(lstSvc)]
  /\ lstSvc' = Tail(lstSvc)
  /\ Goto(w, "service")
  /\ UNCHANGED <<shutdown, epoll, batch, lstSvcLow, lstSocket, content, kernel>>

\* The pool is taken to be below its limit (module Server has the limit), where
\* nothing but lstSvc_ comes before the low queue.
TakeLow(w) ==
  /\ pc[w] = "take"
  /\ lstSvc = <<>> /\ lstSvcLow # <<>>
  /\ hand' = [hand EXCEPT ![w] = Head(lstSvcLow)]
  /\ lstSvcLow' = Tail(lstSvcLow)
  /\ Goto(w, "service")
  /\ UNCHANGED <<shutdown, epoll, batch, lstSvc, lstSocket, content, kernel>>

NoMore(w) ==
  /\ pc[w] = "take"
  /\ lstSvc = <<>> /\ lstSvcLow = <<>>
  /\ Goto(w, "get")
  /\ UNCHANGED <<hand, shutdown, epoll, batch, queues, lstSocket, content, kernel>>

\* service() answers on s and keeps the socket.
Answer(w, s) ==
  /\ pc[w] = "service" /\ hand[w] = s
  /\ Write(w, s, "reply", lst_pending[w], lst_done[w])
  /\ hand' = [hand EXCEPT ![w] = None]
  /\ Goto(w, "return")
  /\ UNCHANGED <<shutdown, batch, queues, lstSocket>>

\* Control.service.
Execute(w) ==
  /\ \E s \in Control : command[s] = "status" /\ Answer(w, s)
  /\ UNCHANGED toRead_

\* Control.service on a shutdown: those on lstCntrl_, its worker among them, are
\* flagged, nothing is written, and nothing holds the socket any more.  A worker
\* that has not registered is missed (module Server).
ShutDown(w) ==
  /\ pc[w] = "service"
  /\ \E s \in Control : /\ hand[w] = s /\ command[s] = "shutdown"
                        /\ SetState(s, "closed")
  /\ \E lstCntrl_ \in SUBSET Workers :
       /\ w \in lstCntrl_
       /\ shutdown' = [v \in Workers |-> shutdown[v] \/ v \in lstCntrl_]
  /\ hand' = [hand EXCEPT ![w] = None]
  /\ Goto(w, "return")
  /\ UNCHANGED <<epoll, batch, queues, lstSocket, wr_buf, toRead_, kernel>>

\* PipeService.service, second call: DefaultPipeServer.perform has run the child.
Perform(w) ==
  \E s \in Pipe : /\ toRead_[s] = -1
                  /\ toRead_' = [toRead_ EXCEPT ![s] = -4]
                  /\ Answer(w, s)

\* PipeService.service, first call: prepare_request, and the socket is returned.
Prepare(w) ==
  /\ pc[w] = "service"
  /\ \E s \in Pipe : /\ hand[w] = s /\ toRead_[s] = 0
                     /\ toRead_' = [toRead_ EXCEPT ![s] = -1]
  /\ Goto(w, "return")
  /\ UNCHANGED <<hand, shutdown, epoll, batch, queues, lstSocket, state, wr_buf, kernel>>

\* service() returned the socket: it goes to the low queue.
Requeue(w) ==
  /\ pc[w] = "return" /\ hand[w] # None
  /\ lstSvcLow' = Append(lstSvcLow, hand[w])
  /\ hand' = [hand EXCEPT ![w] = None]
  /\ Goto(w, "take")
  /\ UNCHANGED <<shutdown, epoll, batch, lstSvc, lstSocket, content, kernel>>

\* Mutant: the sockets go to the others and stay here as well.
PutCopies(w) ==
  /\ lstSocket' = lstSocket \o SetToSeq(lst_pending[w] \ Keep)
  /\ UNCHANGED <<lst_pending, armed, lst_done>>

\* Mutant: what is handed over stays registered with the epoll of this worker.
PutRegistered(w) ==
  /\ lstSocket' = lstSocket \o SetToSeq(lst_pending[w] \ Keep)
  /\ lst_pending' = [lst_pending EXCEPT ![w] = @ \cap Keep]
  /\ UNCHANGED <<armed, lst_done>>

\* EPoll::put: every pending socket that need not stay goes to lstSocket_.
Put(w) ==
  /\ lstSocket' = lstSocket \o SetToSeq(lst_pending[w] \ Keep)
  /\ lst_pending' = [lst_pending EXCEPT ![w] = @ \cap Keep]
  /\ armed' = [armed EXCEPT ![w] = @ \cap Keep]
  /\ UNCHANGED lst_done

PutServed(w) ==
  /\ pc[w] = "return" /\ hand[w] = None
  /\ Put(w)
  /\ Goto(w, "take")
  /\ UNCHANGED <<hand, shutdown, batch, queues, content, kernel>>

\* Mutant: the sockets are not registered with the epoll of the new owner.
GetUnregistered(w) ==
  /\ pc[w] = "get"
  /\ lstSocket' = <<>>
  /\ lst_pending' = [lst_pending EXCEPT ![w] = @ \cup ToSet(lstSocket)]
  /\ Goto(w, "lp")
  /\ UNCHANGED <<hand, shutdown, lst_done, armed, batch, queues, content, kernel>>

\* EPoll::get: the sockets of lstSocket_ become this worker's.
Get(w) ==
  /\ pc[w] = "get"
  /\ lstSocket' = <<>>
  /\ lst_pending' = [lst_pending EXCEPT ![w] = @ \cup ToSet(lstSocket)]
  /\ armed' = [armed EXCEPT ![w] = @ \cup ToSet(lstSocket)]
  /\ Goto(w, "lp")
  /\ UNCHANGED <<hand, shutdown, lst_done, batch, queues, content, kernel>>

-----------------------------------------------------------------------------
(* EPoll::lp: the socket in front of lst_done, its callback, and what the  *)
(* worker does with what the callback returns.                             *)

\* Nothing holds the socket any more, unless it is a PipeService that holds
\* itself through s_.
Drop(w, s, done) ==
  /\ Release(w, s, lst_pending[w] \ {s}, done)
  /\ IF s \in Pipe /\ state[s] # "Writing"
       THEN UNCHANGED state
       ELSE SetState(s, "closed")
  /\ UNCHANGED <<wr_buf, kernel, lstSvc>>

Greet(w, s, done) ==
  /\ state[s] = "Connected" /\ s \in Control
  /\ Write(w, s, "greeting", lst_pending[w], done)
  /\ UNCHANGED <<toRead_, lstSvc>>

DoneConnected(w, s, done) ==
  /\ state[s] = "Connected" /\ s \notin Control
  /\ Read(w, s, lst_pending[w], done)
  /\ UNCHANGED <<toRead_, lstSvc>>

\* Default answers by itself.
SayHello(w, s, done) ==
  /\ state[s] = "Reading" /\ s \in Hello
  /\ Write(w, s, "reply", lst_pending[w], done)
  /\ UNCHANGED <<toRead_, lstSvc>>

\* Callback::call: any worker may serve the socket.
Call(s) == lstSvc' = Append(lstSvc, s)

\* Control and PipeService return the socket.
DoneReading(w, s, done) ==
  /\ state[s] = "Reading" /\ s \notin Hello
  /\ Release(w, s, lst_pending[w], done)
  /\ Call(s)
  /\ UNCHANGED <<state, wr_buf, toRead_, kernel>>

\* Control waits for the next command.
ReadOn(w, s, done) ==
  /\ state[s] = "Writing" /\ s \in Control
  /\ Read(w, s, lst_pending[w], done)
  /\ UNCHANGED <<toRead_, lstSvc>>

\* The others are done with the connection, and PipeService clears s_.
DoneWriting(w, s, done) ==
  /\ state[s] = "Writing" /\ s \notin Control
  /\ toRead_' = [c \in Pipe |-> IF c = s THEN 0 ELSE toRead_[c]]
  /\ Drop(w, s, done)

\* Mutant: a connection the client has closed is read again.
DoneClosedRereads(w, s, done) ==
  /\ state[s] \in {"PeerClosed", "Error"}
  /\ Read(w, s, lst_pending[w], done)
  /\ UNCHANGED <<toRead_, lstSvc>>

\* done_closed and handle_error: PipeService does not clear s_ here.
DoneClosed(w, s, done) ==
  /\ state[s] \in {"PeerClosed", "Error"}
  /\ Drop(w, s, done)
  /\ UNCHANGED toRead_

Dispatch(w) ==
  /\ pc[w] \in {"lp", "lp2"}
  /\ lst_done[w] # <<>>
  /\ LET s == Head(lst_done[w])
         done == Tail(lst_done[w])
     IN  \/ DoneConnected(w, s, done) \/ Greet(w, s, done)
         \/ DoneReading(w, s, done) \/ SayHello(w, s, done)
         \/ DoneWriting(w, s, done) \/ ReadOn(w, s, done)
         \/ DoneClosed(w, s, done)
  /\ UNCHANGED <<thread, batch, lstSvcLow, lstSocket>>

LpEnd(w) ==
  /\ pc[w] \in {"lp", "lp2"}
  /\ lst_done[w] = <<>>
  /\ Goto(w, IF pc[w] = "lp" THEN "wait" ELSE "put")
  /\ UNCHANGED <<hand, shutdown, epoll, batch, queues, lstSocket, content, kernel>>

-----------------------------------------------------------------------------
(* EPoll::perform.                                                         *)

\* epoll_wait reports what is ready, or nothing when the time is up or another
\* worker calls wakeAll.  A reported socket is disarmed.
EpollWait(w) ==
  /\ pc[w] = "wait"
  /\ LET reported == {s \in armed[w] : Ready(s)}
     IN  /\ batch' = [batch EXCEPT ![w] = reported]
         /\ armed' = [armed EXCEPT ![w] = @ \ reported]
  /\ Goto(w, "perform")
  /\ UNCHANGED <<hand, shutdown, lst_pending, lst_done, queues, lstSocket, content, kernel>>

\* Mutant: the listening socket is completed and not registered again.
AcceptAllDone(w, l) ==
  /\ state[l] = "Listening"
  /\ PushDone(w, l, lst_pending[w] \ {l}, lst_done[w])
  /\ UNCHANGED <<state, wr_buf, kernel>>

\* ESocket::accept: a new socket with a service like that of the listener.
Accepted(conns) ==
  state' = [s \in Socks |-> IF s \in conns THEN "Connected" ELSE state[s]]

\* A listening socket accepts all there is and is registered again.
AcceptAll(w, l) ==
  LET queued == {c \in Clients(l) : client[c] = "queued"}
  IN  /\ state[l] = "Listening"
      /\ Accepted(queued)
      /\ client' = [c \in Conns |-> IF c \in queued THEN "open" ELSE client[c]]
      /\ Accept(w, l, lst_pending[w], lst_done[w] \o SetToSeq(queued))
      /\ UNCHANGED <<wr_buf, asked, command, unread, full>>

\* lst_pending.remove(&sd).unwrap() and the work the state calls for.
Event(w) ==
  /\ pc[w] = "perform"
  /\ \E s \in batch[w] \cap lst_pending[w] :
       /\ batch' = [batch EXCEPT ![w] = @ \ {s}]
       /\ \/ s \in Listeners /\ AcceptAll(w, s)
          \/ /\ s \in Conns /\ state[s] = "Reading"
             /\ Read(w, s, lst_pending[w] \ {s}, lst_done[w])
          \/ /\ s \in Conns /\ state[s] = "Writing"
             /\ Write(w, s, wr_buf[s], lst_pending[w] \ {s}, lst_done[w])
  /\ UNCHANGED <<thread, queues, lstSocket, toRead_>>

\* Default.tick is true of connections older than a second, never of a listener.
MayBeOld(w) == IF MayTick THEN lst_pending[w] \cap Hello ELSE {}

\* When all is looked at, a socket for which tick() is true is completed, whatever
\* it waits for.
Tick(w) ==
  /\ pc[w] = "perform" /\ batch[w] = {}
  /\ \E old \in SUBSET MayBeOld(w) :
       /\ lst_pending' = [lst_pending EXCEPT ![w] = @ \ old]
       /\ armed' = [armed EXCEPT ![w] = @ \ old]
       /\ lst_done' = [lst_done EXCEPT ![w] = @ \o SetToSeq(old)]
  /\ Goto(w, "lp2")
  /\ UNCHANGED <<hand, shutdown, batch, queues, lstSocket, content, kernel>>

-----------------------------------------------------------------------------
(* After run(): sharing what is pending, and leaving.                      *)

PutAll(w) ==
  /\ pc[w] = "put"
  /\ Put(w)
  /\ Goto(w, "check")
  /\ UNCHANGED <<hand, shutdown, batch, queues, content, kernel>>

Stay(w) ==
  /\ pc[w] = "check" /\ ~shutdown[w]
  /\ Goto(w, "take")
  /\ UNCHANGED <<hand, shutdown, epoll, batch, queues, lstSocket, content, kernel>>

\* The Server and its EPoll are dropped with all they hold, and so is the socket
\* being served.  What a PipeService holds through s_ stays open.
Abandon(w) ==
  /\ Goto(w, "gone")
  /\ hand' = [hand EXCEPT ![w] = None]
  /\ lst_pending' = [lst_pending EXCEPT ![w] = {}]
  /\ armed' = [armed EXCEPT ![w] = {}]
  /\ lst_done' = [lst_done EXCEPT ![w] = <<>>]
  /\ state' = [s \in Socks |->
                 IF /\ s \in lst_pending[w] \cup ToSet(lst_done[w]) \cup {hand[w]}
                    /\ s \notin Pipe
                 THEN "closed" ELSE state[s]]
  /\ UNCHANGED <<shutdown, batch, queues, lstSocket, wr_buf, toRead_, kernel>>

\* A worker that was flagged by a command leaves; one that flags itself does so
\* only while others are available.
Retire(w) ==
  /\ pc[w] = "check"
  /\ shutdown[w] \/ (MayRetire /\ \E v \in Workers \ {w} : pc[v] # "gone")
  /\ Abandon(w)

\* service() panics: DefaultPipeServer.perform cannot start the child process, or
\* a start command has no number.
Panic(w) ==
  /\ pc[w] = "service"
  /\ \/ MayPanic /\ \E s \in Pipe : hand[w] = s /\ toRead_[s] = -1
     \/ \E s \in Control : hand[w] = s /\ command[s] = "start"
  /\ Abandon(w)

AllGone == \A w \in Workers : pc[w] = "gone"

\* can_exit finds lstCntrl_ empty: main returns, and the process ends.
End ==
  /\ AllGone
  /\ state' = [s \in Socks |-> "closed"]
  /\ UNCHANGED <<thread, epoll, batch, queues, lstSocket, wr_buf, toRead_, kernel>>

-----------------------------------------------------------------------------
Step(w) == \/ TakeJob(w) \/ TakeLow(w) \/ NoMore(w)
           \/ Execute(w) \/ ShutDown(w) \/ Perform(w) \/ Prepare(w) \/ Requeue(w) \/ PutServed(w)
           \/ Get(w) \/ Dispatch(w) \/ LpEnd(w)
           \/ EpollWait(w) \/ Event(w) \/ Tick(w)
           \/ PutAll(w) \/ Stay(w) \/ Retire(w) \/ Panic(w)

Next == \/ \E w \in Workers : Step(w)
        \/ End
        \/ \E c \in Conns : Connect(c) \/ Ask(c) \/ Hangup(c) \/ Drain(c)

SafeSpec == Init /\ [][Next]_vars

\* Every worker and the main thread run, and a client that waits for an answer
\* reads what comes.
Fairness == /\ \A w \in Workers : WF_vars(Step(w))
            /\ WF_vars(End)
            /\ \A c \in Conns : WF_vars(Drain(c))

Spec == SafeSpec /\ Fairness

-----------------------------------------------------------------------------
(* Properties.                                                             *)

\* The state of every worker, socket and client is one the program can be in.
TypeOK == /\ pc \in [Workers -> Points]
          /\ hand \in [Workers -> Conns \cup {None}]
          /\ shutdown \in [Workers -> BOOLEAN]
          /\ lst_pending \in [Workers -> SUBSET Socks]
          /\ armed \in [Workers -> SUBSET Socks]
          /\ batch \in [Workers -> SUBSET Socks]
          /\ lst_done \in [Workers -> Seq(Conns)]
          /\ lstSvc \in Seq(Conns) /\ lstSvcLow \in Seq(Pipe)
          /\ lstSocket \in Seq(Socks)
          /\ state \in [Socks -> States]
          /\ wr_buf \in [Conns -> {"nothing", "greeting", "reply"}]
          /\ toRead_ \in [Pipe -> {0, -1, -4}]
          /\ client \in [Conns -> {"new", "queued", "open", "asking", "served", "gone"}]
          /\ asked \in [Conns -> 0..MaxAsked]
          /\ command \in [Control -> {"status", "shutdown", "start"}]
          /\ unread \in [Conns -> BOOLEAN] /\ full \in [Conns -> BOOLEAN]

Occurs(seq, s) == {i \in DOMAIN seq : seq[i] = s}

\* The places that hold a socket.
Holders(s) ==
  UNION {{<<"pending", w>> : w \in {v \in Workers : s \in lst_pending[v]}},
         {<<"hand", w>> : w \in {v \in Workers : hand[v] = s}},
         UNION {{<<"done", w, i>> : i \in Occurs(lst_done[w], s)} : w \in Workers},
         {<<"svc", i>> : i \in Occurs(lstSvc, s)},
         {<<"low", i>> : i \in Occurs(lstSvcLow, s)},
         {<<"shared", i>> : i \in Occurs(lstSocket, s)}}

\* However sockets wander between lists and workers, no two places hold the same
\* one: two workers never use a socket (an Arc<RefCell<..>> without a lock) at once.
SingleOwner == \A s \in Socks : Cardinality(Holders(s)) <= 1

\* lst_pending.remove(&sd).unwrap(): what epoll reports is in lst_pending.
EventsMatched == \A w \in Workers : batch[w] \subseteq lst_pending[w]

\* lst_pending and the registrations in the kernel agree: a pending socket is armed
\* or has just been reported, so that its next event is not lost, and epoll never
\* reports a socket that has left.
Watched == \A w \in Workers : lst_pending[w] = armed[w] \cup batch[w]

\* The client of c has had a complete answer to its one request, or has gone.
Finished(c) == client[c] \in {"served", "gone"}

\* One of the workers panics in this step.
Panicking == \E w \in Workers : pc[w] = "service" /\ pc'[w] = "gone"

\* What the code cuts off: the client of Control that sends a shutdown, and those of
\* Control that the EPoll of a panicking worker or its hand holds; a client of
\* Default whose answer is only half written when a second has passed; everybody
\* when the process ends.
CutOff(c) ==
  \/ c \in Control /\ command[c] = "shutdown"
  \/ c \in Control /\ Panicking
  \/ c \in Hello /\ MayTick /\ wr_buf[c] = "reply"
  \/ AllGone

\* Nobody else is cut off: the server closes a connection only after a complete
\* answer or when its client has gone.  In particular a panic or a leaving worker
\* takes no client of Default with it, whichever worker has its socket.
ClosedWhenDone ==
  [][\A c \in Conns :
       state[c] # "closed" /\ state'[c] = "closed" => Finished(c) \/ CutOff(c)]_vars

\* The worker that had this PipeService connection has left or panicked with it (keep).
Stranded(c) == c \in Pipe /\ Holders(c) = {}

\* The service of c means to answer: Control answers neither a shutdown nor a start
\* without a number.
Answerable(c) == client[c] = "asking" /\ (c \in Control => command[c] = "status")

\* Each such request is answered in the end, although its socket may pass through
\* the hands of several workers that come, are flagged and go, unless the client
\* goes away, all workers leave, the connection is cut off (ClosedWhenDone says when)
\* or, for PipeService, the worker that must keep it leaves.
Answered ==
  \A c \in Conns :
    Answerable(c) ~> \/ client[c] # "asking" \/ AllGone
                     \/ state[c] = "closed" \/ Stranded(c)

\* A connection whose client has gone is closed in the end, if only with the process
\* (PipeService excepted, which keeps its socket alive through s_).
Freed == \A c \in Conns \ Pipe : Gone(c) ~> state[c] = "closed"

=============================================================================
