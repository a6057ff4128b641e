----------------------------- MODULE Connection -----------------------------
(***************************************************************************)
(* One accepted connection: its ESocket, plain or TLS, the operation it    *)
(* waits for, and the service behind it (service.rs, web_server.rs).       *)
(* PipeService lets the low queue carry the connection between             *)
(* prepare_request and perform of its PipeServer; while one worker does    *)
(* that, another has the socket registered or not, as toRead_ says.        *)
(*                                                                         *)
(* A callback with the read or write it starts is one action.  The workers *)
(* are those of module Sockets without their loop: each may at any time    *)
(* do whatever there is to do.                                             *)
(***************************************************************************)
EXTENDS Integers, FiniteSets

CONSTANTS Workers,      \* the threads in Server::call
          MaxSegments,  \* bound on the pieces a request arrives in
          MaxTurns      \* bound on how often the kernel is full or TLS negotiates

ASSUME BoundsAssumption == MaxSegments \in Nat \ {0} /\ MaxTurns \in Nat

VARIABLES
  kind,         \* the service; for PipeService the PipeServer behind it
  tls,          \* ESocket::SSLSocket, or ESocket::Socket
  state,        \* Socket.state
  events,       \* what the epoll of each worker waits for; {} if not in lst_pending
  lst_done,     \* how often the socket is in lst_done of each worker
  lstSvc,       \* how often it is in lstSvc_
  lstSvcLow,    \* how often it is in lstSvcLow_
  serving,      \* what each worker does with it as a job
  rc_, rccode_, \* the last TLS call did not complete, and what it waits for
  rd_buf,       \* the segments in rd_buf
  toRead_,      \* PipeService.toRead_
  buf_,         \* the segments in PipeService.buf_
  copy,         \* the segments in the clone that prepare_request received
  s_,           \* PipeService.s_ holds the socket
  performed,    \* history: calls of perform()
  client,       \* what the client is up to, or what has become of its request
  sent,         \* the segments it has sent
  total,        \* the segments its request has
  unread,       \* the segments in the kernel
  split,        \* history: a read returned only part of the request
  full,         \* the kernel takes no more output
  handshake,    \* what a negotiation inside the TLS layer waits for
  record,       \* the peer's part of that negotiation is in the kernel
  turns         \* history: complications so far

fixed == <<kind, tls, total>>
lists == <<events, lst_done>>
queues == <<lstSvc, lstSvcLow>>
socket == <<state, rc_, rccode_, rd_buf>>
service == <<toRead_, buf_, copy, s_, performed>>
tcp == <<unread, full, handshake, record, turns>>
peer == <<client, sent, split>>
vars == <<fixed, lists, queues, socket, serving, service, tcp, peer>>

PipeKinds == {"DefaultPipeServer", "WebServer"}

\* keep(): the socket stays with the worker that has it.
Keep == kind \in PipeKinds

\* main.rs gives only Default a TLS port.  A client sends its request in one segment
\* or more.
Init ==
  /\ kind \in {"Default", "Log"} \cup PipeKinds
  /\ tls \in (IF kind = "Default" THEN BOOLEAN ELSE {FALSE})
  /\ total \in 1..MaxSegments
  /\ state = "Connected"
  /\ events = [w \in Workers |-> {}]
  /\ \E first \in Workers : lst_done = [w \in Workers |-> IF w = first THEN 1 ELSE 0]
  /\ lstSvc = 0 /\ lstSvcLow = 0
  /\ serving = [w \in Workers |-> "no"]
  /\ rc_ = FALSE /\ rccode_ = "none" /\ rd_buf = 0
  /\ toRead_ = 0 /\ buf_ = 0 /\ copy = 0 /\ s_ = FALSE /\ performed = 0
  /\ client = "asking" /\ sent = 0 /\ unread = 0 /\ split = FALSE
  /\ full = FALSE /\ handshake = "none" /\ record = FALSE /\ turns = 0

Gone == client = "gone"

-----------------------------------------------------------------------------
(* The client, its TLS layer and the kernel.                               *)

Send ==
  /\ client = "asking" /\ sent < total
  /\ sent' = sent + 1
  /\ unread' = unread + 1
  /\ UNCHANGED <<fixed, lists, queues, socket, serving, service, client, split,
                 full, handshake, record, turns>>

\* The client answers what the TLS layer of the server asked it.
Negotiate ==
  /\ handshake = "in" /\ ~record /\ ~Gone
  /\ record' = TRUE
  /\ UNCHANGED <<fixed, lists, queues, socket, serving, service, peer,
                 unread, full, handshake, turns>>

Drain ==
  /\ full
  /\ full' = FALSE
  /\ UNCHANGED <<fixed, lists, queues, socket, serving, service, peer,
                 unread, handshake, record, turns>>

Leave ==
  /\ client = "asking"
  /\ client' = "gone"
  /\ UNCHANGED <<fixed, lists, queues, socket, serving, service, sent, split, tcp>>

\* What epoll_wait reports.
Ready(event) == \/ Gone
                \/ event = "in" /\ (unread > 0 \/ record)
                \/ event = "out" /\ ~full

-----------------------------------------------------------------------------
(* EPoll::read, EPoll::write and what they leave behind.                   *)

\* Mutant: the event follows the operation, as for a plain socket.
EventsByState(op, rc, code) == IF op = "Reading" THEN {"in"} ELSE {"out"}

\* EPoll::accept: what a registration asks for.
AskedEvents(op, rc, code) ==
  IF rc THEN {code} ELSE IF op = "Reading" THEN {"in"} ELSE {"out"}

\* The call did not complete: registered again, with what OpenSSL asks for.
Accept(w, op, want) ==
  /\ state' = op
  /\ rc_' = tls
  /\ rccode_' = IF tls THEN want ELSE rccode_
  /\ events' = [events EXCEPT ![w] = AskedEvents(op, rc_', rccode_')]

\* push_done.
PushDone(w, st, done) ==
  /\ state' = st
  /\ rc_' = FALSE
  /\ events' = [events EXCEPT ![w] = {}]
  /\ lst_done' = [lst_done EXCEPT ![w] = done + 1]
  /\ UNCHANGED rccode_

\* The negotiation still waits for something.
Stuck(h, f) == (h = "out" /\ f) \/ (h = "in" /\ ~record)

\* read_imm or write_imm on behalf of w, of whose lst_done so many entries are left.
\* By the time of the call the kernel may be full (in part) and the TLS layer may
\* have begun to negotiate.
Attempt(w, op, done) ==
  \E h \in {"none", "in", "out"}, f \in BOOLEAN :
    /\ \/ h = handshake /\ f = full /\ UNCHANGED turns
       \/ /\ turns < MaxTurns
          /\ turns' = turns + 1
          /\ full => f
          /\ h = handshake \/ (tls /\ handshake = "none")
    /\ full' = f
    /\ \/ /\ ~Gone /\ Stuck(h, f)
          /\ Accept(w, op, h)
          /\ handshake' = h
          /\ lst_done' = [lst_done EXCEPT ![w] = done]
          /\ UNCHANGED <<rd_buf, record, unread, split>>
       \/ /\ ~Gone /\ ~Stuck(h, f)
          /\ handshake' = "none" /\ record' = (record /\ h = "none")
          /\ IF op = "Reading" THEN unread = 0 ELSE f
          /\ Accept(w, op, IF op = "Reading" THEN "in" ELSE "out")
          /\ lst_done' = [lst_done EXCEPT ![w] = done]
          /\ UNCHANGED <<rd_buf, unread, split>>
       \/ /\ op = "Reading" /\ unread > 0
          /\ Gone \/ ~Stuck(h, f)
          /\ handshake' = "none" /\ record' = (record /\ h = "none")
          /\ PushDone(w, op, done)
          /\ rd_buf' = unread /\ unread' = 0
          /\ split' = (split \/ unread < total)
       \/ /\ op = "Writing" /\ ~Gone /\ ~Stuck(h, f) /\ ~f
          /\ handshake' = "none" /\ record' = (record /\ h = "none")
          /\ PushDone(w, op, done)
          /\ UNCHANGED <<rd_buf, unread, split>>
       \/ /\ Gone
          /\ \E st \in IF op = "Reading" THEN {"PeerClosed", "Error"} ELSE {"Error"} :
                PushDone(w, st, done)
          /\ UNCHANGED <<handshake, record, rd_buf, unread, split>>
  /\ UNCHANGED sent

-----------------------------------------------------------------------------
(* Callbacks.  A callback that returns the socket makes it a job, unless   *)
(* it is pending here: Callback::call.                                     *)

\* Mutant: the job is posted only if the socket is pending.
CallSwapped(w) == lstSvc' = IF events'[w] = {} THEN lstSvc ELSE lstSvc + 1

Call(w) == lstSvc' = IF events'[w] # {} THEN lstSvc ELSE lstSvc + 1

\* The socket leaves lst_done and nothing else holds it on behalf of w.
Drop(w, done) ==
  /\ lst_done' = [lst_done EXCEPT ![w] = done]
  /\ events' = [events EXCEPT ![w] = {}]
  /\ UNCHANGED <<socket, tcp, sent, split>>

\* PipeService.done_connected stores the socket in itself.
DoneConnected(w, done) ==
  /\ state = "Connected"
  /\ s_' = (kind \in PipeKinds)
  /\ Attempt(w, "Reading", done)
  /\ UNCHANGED <<lstSvc, toRead_, buf_, copy, performed, client>>

\* Default says hello, whether or not a request has come (Tick), and Log writes its
\* lines, be there any or none; the answer is on its way.
SayHello(w, done) ==
  /\ state = "Reading" /\ kind \notin PipeKinds
  /\ Attempt(w, "Writing", done)
  /\ UNCHANGED <<lstSvc, service, client>>

\* Mutant: the PipeServer sees what PipeService has read since.
CopyShared == copy' = buf_'

\* The clone that prepare_request was given does not grow.
CopyStays == UNCHANGED copy

\* PipeServer.doneReading of a request of which the clone holds so much.
ServerDoneReading(held) == kind = "DefaultPipeServer" \/ held = total

\* The first data of a request: toRead_ is not above zero.
FirstRead(w, done) ==
  /\ state = "Reading" /\ kind \in PipeKinds /\ toRead_ <= 0
  /\ buf_' = rd_buf
  /\ Drop(w, done)
  /\ Call(w)
  /\ UNCHANGED <<toRead_, copy, s_, performed, client>>

\* The PipeServer has asked for more: whatever it makes of it, the socket is
\* returned as well.
ReadMore(w, done) ==
  /\ state = "Reading" /\ kind \in PipeKinds /\ toRead_ > 0
  /\ buf_' = buf_ + rd_buf
  /\ CopyStays
  /\ LET complete == buf_' >= toRead_ /\ ServerDoneReading(copy')
     IN  /\ toRead_' = IF complete THEN -1 ELSE toRead_
         /\ IF complete THEN Drop(w, done) ELSE Attempt(w, "Reading", done)
  /\ Call(w)
  /\ UNCHANGED <<s_, performed, client>>

\* Mutant: PipeService keeps its reference to the socket.
KeepsItself == UNCHANGED s_

ForgetsItself == s_' = FALSE

\* What was to be written is written: end() is true of both PipeServers, and
\* doneWriting().  WebServer has written nothing, and its client sees the connection
\* close.
DoneWriting(w, done) ==
  /\ state = "Writing"
  /\ client' = IF client # "asking" THEN client
               ELSE IF kind = "WebServer" THEN "cut" ELSE "answered"
  /\ ForgetsItself
  /\ toRead_' = 0 /\ buf_' = 0
  /\ Drop(w, done)
  /\ UNCHANGED <<lstSvc, copy, performed>>

\* done_closed and handle_error leave s_ as it is.
DoneClosed(w, done) ==
  /\ state \in {"PeerClosed", "Error"}
  /\ Drop(w, done)
  /\ UNCHANGED <<lstSvc, service, client>>

\* EPoll::lp.
Dispatch(w) ==
  /\ lst_done[w] > 0
  /\ LET done == lst_done[w] - 1
     IN  \/ DoneConnected(w, done) \/ SayHello(w, done)
         \/ FirstRead(w, done) \/ ReadMore(w, done)
         \/ DoneWriting(w, done) \/ DoneClosed(w, done)
  /\ UNCHANGED <<fixed, lstSvcLow, serving>>

-----------------------------------------------------------------------------
(* Jobs: PipeService.service.                                              *)

TakeJob(w) ==
  /\ serving[w] = "no"
  /\ \/ lstSvc > 0 /\ lstSvc' = lstSvc - 1 /\ UNCHANGED lstSvcLow
     \/ lstSvc = 0 /\ lstSvcLow > 0 /\ lstSvcLow' = lstSvcLow - 1 /\ UNCHANGED lstSvc
  /\ serving' = [serving EXCEPT ![w] = "taken"]
  /\ UNCHANGED <<fixed, lists, socket, service, tcp, peer>>

\* service() is called with toRead_ = 0: prepare_request, on a clone.
Prepare(w) ==
  /\ serving[w] = "taken" /\ toRead_ = 0
  /\ copy' = buf_
  /\ serving' = [serving EXCEPT ![w] = "no"]
  /\ \/ /\ ServerDoneReading(copy')
        /\ toRead_' = -1
        /\ lstSvcLow' = lstSvcLow + 1
        /\ UNCHANGED <<lists, socket, tcp, peer>>
     \/ /\ ~ServerDoneReading(copy')
        /\ toRead_' = 1
        /\ Attempt(w, "Reading", lst_done[w])
        /\ UNCHANGED <<lstSvcLow, client>>
  /\ UNCHANGED <<fixed, lstSvc, buf_, s_, performed>>

\* With toRead_ = -1: perform() begins.
Perform(w) ==
  /\ serving[w] = "taken" /\ toRead_ = -1
  /\ serving' = [serving EXCEPT ![w] = "performing"]
  /\ performed' = performed + 1
  /\ UNCHANGED <<fixed, lists, queues, socket, toRead_, buf_, copy, s_, tcp, peer>>

\* It is over, -4, and the answer is written: the output of the child process, or,
\* for WebServer, nothing.
Performed(w) ==
  /\ serving[w] = "performing"
  /\ toRead_' = -4
  /\ serving' = [serving EXCEPT ![w] = "no"]
  /\ Attempt(w, "Writing", lst_done[w])
  /\ UNCHANGED <<fixed, queues, buf_, copy, s_, performed, client>>

\* With any other value service() does nothing.
Nothing(w) ==
  /\ serving[w] = "taken" /\ toRead_ \notin {0, -1}
  /\ serving' = [serving EXCEPT ![w] = "no"]
  /\ UNCHANGED <<fixed, lists, queues, socket, service, tcp, peer>>

Serve(w) == Prepare(w) \/ Perform(w) \/ Performed(w) \/ Nothing(w)

\* DefaultPipeServer.perform cannot start its child process: the worker panics, and
\* only s_ is left to hold the socket.
Panic(w) ==
  /\ serving[w] = "performing" /\ kind = "DefaultPipeServer"
  /\ serving' = [serving EXCEPT ![w] = "no"]
  /\ client' = IF client = "asking" THEN "lost" ELSE client
  /\ UNCHANGED <<fixed, lists, queues, socket, service, tcp, sent, split>>

-----------------------------------------------------------------------------
(* EPoll::perform, put and get, and the end of a worker.                   *)

Event(w) ==
  /\ \E x \in events[w] : Ready(x)
  /\ Attempt(w, state, lst_done[w])
  /\ UNCHANGED <<fixed, queues, serving, service, client>>

\* At the end of perform(), tick() is true of a connection to Default that is older
\* than a second: it is completed whatever it waits for, and rc_ stays as it is.  If
\* that is the kernel's taking the rest of an answer, the client will not get it.
Tick(w) ==
  /\ kind = "Default" /\ events[w] # {}
  /\ events' = [events EXCEPT ![w] = {}]
  /\ lst_done' = [lst_done EXCEPT ![w] = @ + 1]
  /\ client' = IF state = "Writing" /\ client = "asking" THEN "cut" ELSE client
  /\ UNCHANGED <<fixed, queues, socket, serving, service, tcp, sent, split>>

\* A worker leaves, or panics in a job of another connection, and its EPoll is dropped
\* with the sockets that must stay with it; only s_ is left to hold this one.  Another
\* worker goes by the same name afterwards.
Abandon(w) ==
  /\ Keep /\ s_ /\ serving[w] = "no"
  /\ events[w] # {} \/ lst_done[w] > 0
  /\ events' = [events EXCEPT ![w] = {}]
  /\ lst_done' = [lst_done EXCEPT ![w] = 0]
  /\ client' = IF client = "asking" THEN "lost" ELSE client
  /\ UNCHANGED <<fixed, queues, socket, serving, service, tcp, sent, split>>

\* put by one worker and get by another: registered anew, with the same rc_.
Handover(w, v) ==
  /\ w # v /\ ~Keep /\ events[w] # {}
  /\ events' = [events EXCEPT ![w] = {}, ![v] = AskedEvents(state, rc_, rccode_)]
  /\ UNCHANGED <<fixed, lst_done, queues, socket, serving, service, tcp, peer>>

Next == \/ Send \/ Negotiate \/ Drain \/ Leave
        \/ \E w \in Workers : \/ Dispatch(w) \/ TakeJob(w) \/ Serve(w) \/ Panic(w)
                              \/ Event(w) \/ Tick(w) \/ Abandon(w)
                              \/ \E v \in Workers : Handover(w, v)

\* Workers do what there is to do; between taking a socket over and leaving it to
\* the next, a worker looks at its events, so that a ready one is not passed on for
\* ever.  A client that waits reads what comes and takes its part in negotiations.
Fairness ==
  /\ WF_vars(\E w \in Workers : Dispatch(w))
  /\ WF_vars(\E w \in Workers : TakeJob(w))
  /\ \A w \in Workers : WF_vars(Serve(w))
  /\ WF_vars(\E w \in Workers : Event(w))
  /\ WF_vars(Negotiate) /\ WF_vars(Drain)

Spec == Init /\ [][Next]_vars /\ Fairness

-----------------------------------------------------------------------------
(* Properties.                                                             *)

\* Everything stays within its range: in particular toRead_ takes no other values
\* than 0, 1, -1 and -4 with the two PipeServers there are, and only lstSvc_ may hold
\* the socket several times.
TypeOK ==
  /\ kind \in {"Default", "Log"} \cup PipeKinds /\ tls \in BOOLEAN
  /\ total \in 1..MaxSegments
  /\ state \in {"Connected", "Reading", "Writing", "PeerClosed", "Error"}
  /\ events \in [Workers -> SUBSET {"in", "out"}]
  /\ lst_done \in [Workers -> 0..1]
  /\ lstSvc \in Nat /\ lstSvcLow \in 0..1
  /\ serving \in [Workers -> {"no", "taken", "performing"}]
  /\ rc_ \in BOOLEAN /\ rccode_ \in {"none", "in", "out"}
  /\ toRead_ \in {0, 1, -1, -4}
  /\ rd_buf \in 0..total /\ buf_ \in 0..total /\ copy \in 0..total
  /\ sent \in 0..total /\ unread \in 0..total
  /\ s_ \in BOOLEAN /\ split \in BOOLEAN /\ full \in BOOLEAN /\ record \in BOOLEAN
  /\ performed \in Nat
  /\ client \in {"asking", "answered", "gone", "cut", "lost"}
  /\ handshake \in {"none", "in", "out"} /\ turns \in 0..MaxTurns

\* Where the socket is.
Places == Cardinality({w \in Workers : events[w] # {}})
            + Cardinality({w \in Workers : lst_done[w] = 1})
            + 2 * Cardinality({w \in Workers : lst_done[w] > 1})
            + lstSvc + lstSvcLow
            + Cardinality({w \in Workers : serving[w] # "no"})

\* What the TLS layer or the kernel lets the pending operation do.
MayContinue == CASE handshake = "out" -> ~full
                 [] handshake = "in"  -> record
                 [] OTHER -> IF state = "Reading" THEN unread > 0 ELSE ~full

\* The event asked for is the one the operation waits for, also when a read waits
\* for output, a write for input, or another worker has registered the socket since:
\* whenever it could continue, epoll reports it.
EventAwaited ==
  \A w \in Workers :
    events[w] # {} /\ (MayContinue \/ Gone) => \E x \in events[w] : Ready(x)

\* done_reading may make a socket both pending or done and a job, for two workers.
\* This lasts only while the PipeServer waits for more, and then the job has no
\* effect: no request is performed twice and no two workers answer it.
DoubledOnlyWhileReading == Places > 1 => toRead_ = 1

PerformedOnce == performed <= 1

\* The request as the service sees it.  WebServer looks for the end of a request in
\* a clone that does not grow, so that only one that comes in a single read counts;
\* DefaultPipeServer, Default and Log take whatever comes first for the request.
Asked == IF kind = "WebServer" THEN sent = total /\ ~split ELSE sent > 0

Phase == CASE client # "asking" -> client
           [] OTHER -> IF Asked THEN "asked" ELSE "waiting"

\* The connection implements the exchange: who asks is answered once, or cut off, or
\* lost in the ways the service has of doing so; who does not ask is answered by
\* Default alone; and none that waits with a complete request waits for ever.
Promise == INSTANCE Exchange WITH phase <- Phase, service <- kind

ImplementsExchange == Promise!Spec

\* Nothing holds the socket: it is closed.
Closed == Places = 0 /\ ~s_

\* Once the answer has been written, or the client cut off, the connection is closed,
\* the reference that PipeService keeps to its own socket included.
ClosedAfterAnswer == client \in {"answered", "cut"} ~> Closed

=============================================================================
