---------------------------- MODULE WakeRegistry ----------------------------
(***************************************************************************)
(* Who wakes whom: lstEPoll_, the list of all EPolls, and the wake pipe of *)
(* each (sockets.rs), as Server::call, fini and can_exit use them          *)
(* (server.rs).  A worker that has queued a job wakes the others, one that *)
(* leaves wakes them to take over its sockets, and the main thread to see  *)
(* whether anybody is left.                                                *)
(*                                                                         *)
(* lstSvcLow_ is left out: nobody is woken for it, the worker that puts a  *)
(* job there looks for work next.                                          *)
(***************************************************************************)
EXTENDS Integers, Sequences, FiniteSets, SequencesExt

CONSTANTS Workers,      \* the threads of the pool
          First,        \* the one main starts
          Main,         \* the main thread, in can_exit
          Conns,        \* the connections that clients ever open
          Pipe,         \* those among them that PipeService gets
          Listener,     \* the listening socket of the others
          PipeListener, \* the listening socket of PipeService
          MaxEvents     \* bound on the events of the connections

ASSUME NamesAssumption ==
  /\ First \in Workers /\ Main \notin Workers
  /\ Pipe \subseteq Conns /\ {Listener, PipeListener} \cap Conns = {}
  /\ MaxEvents \in Nat

Threads == Workers \cup {Main}

Sockets == Conns \cup {Listener, PipeListener}

\* keep(): the sockets that stay with the worker that has them.
Kept == Pipe \cup {PipeListener}

VARIABLES
  pc,           \* where each thread stands
  created,      \* lstEPoll_ is Some
  lstEPoll,     \* whose EPolls are in it
  open,         \* whose EPolls have descriptors
  byte,         \* whose wake pipe holds a byte
  cntrl,        \* lstCntrl_
  lstSvc,       \* lstSvc_
  early,        \* history: the jobs queued by the first lp() of a round
  lstSocket,    \* lstSocket_
  pending,      \* lst_pending of each worker
  done,         \* lst_done of each worker
  hand,         \* the jobs in service()
  backlog,      \* the connections in the kernel, not accepted
  ready,        \* the connections with an event
  events        \* history: the events there have been

registry == <<created, lstEPoll, open>>
jobs == <<lstSvc, early>>
own == <<pending, done, hand>>
clients == <<backlog, ready, events>>
vars == <<pc, registry, byte, cntrl, jobs, lstSocket, own, clients>>

Goto(t, l) == pc' = [pc EXCEPT ![t] = l]

Init ==
  /\ pc = [t \in Threads |-> IF t \in {First, Main} THEN "test" ELSE "off"]
  /\ created = FALSE /\ lstEPoll = {} /\ open = {}
  /\ byte = {}
  /\ cntrl = {}
  /\ lstSvc = <<>> /\ early = {} /\ lstSocket = {}
  /\ pending = [w \in Workers |-> IF w = First THEN {Listener, PipeListener} ELSE {}]
  /\ done = [w \in Workers |-> {}] /\ hand = [w \in Workers |-> {}]
  /\ backlog = Conns /\ ready = {} /\ events = 0

Running == pc[Main] # "exited"

\* Something happens on a connection: data, or a client that connects or leaves.
Client(c) ==
  /\ c \notin ready /\ events < MaxEvents
  /\ ready' = ready \cup {c}
  /\ events' = events + 1
  /\ UNCHANGED <<pc, registry, byte, cntrl, jobs, lstSocket, own, backlog>>

-----------------------------------------------------------------------------
(* EPoll::new: the list is created, if it is not there, before the lock.   *)

\* Mutant: can_exit does not sleep.
AtOnce == TRUE

\* The second that can_exit sleeps is enough for the first thread to be in call().
Slept == pc[First] \notin {"test", "create", "list", "enter"}

Test(t) ==
  /\ pc[t] = "test" /\ (t = Main => Slept)
  /\ open' = open \cup {t}
  /\ Goto(t, IF created THEN "list" ELSE "create")
  /\ UNCHANGED <<created, lstEPoll, byte, cntrl, jobs, lstSocket, own, clients>>

Create(t) ==
  /\ pc[t] = "create"
  /\ created' = TRUE /\ lstEPoll' = {}
  /\ Goto(t, "list")
  /\ UNCHANGED <<open, byte, cntrl, jobs, lstSocket, own, clients>>

List(t) ==
  /\ pc[t] = "list"
  /\ lstEPoll' = lstEPoll \cup {t}
  /\ Goto(t, IF t = Main THEN "look" ELSE "enter")
  /\ UNCHANGED <<created, open, byte, cntrl, jobs, lstSocket, own, clients>>

-----------------------------------------------------------------------------
(* EPoll::wakeAll, one action: lstEPollM_ is held throughout.              *)

\* A byte for a pipe that its owner has closed goes wherever its number leads.
WakeAll(t) == byte' = byte \cup ((lstEPoll \ {t}) \cap open)

-----------------------------------------------------------------------------
(* Server::call.                                                           *)

Enter(w) ==
  /\ pc[w] = "enter"
  /\ cntrl' = cntrl \cup {w}
  /\ Goto(w, "take")
  /\ UNCHANGED <<registry, byte, jobs, lstSocket, own, clients>>

\* A job; the thread pool may grow.
Take(w) ==
  /\ pc[w] = "take" /\ lstSvc # <<>>
  /\ lstSvc' = Tail(lstSvc)
  /\ early' = early \ {Head(lstSvc)}
  /\ hand' = [hand EXCEPT ![w] = {Head(lstSvc)}]
  /\ \/ Goto(w, "service")
     \/ \E v \in Workers : pc[v] = "off" /\ pc' = [pc EXCEPT ![w] = "service", ![v] = "test"]
  /\ UNCHANGED <<registry, byte, cntrl, lstSocket, pending, done, clients>>

NoJob(w) ==
  /\ pc[w] = "take" /\ lstSvc = <<>>
  /\ Goto(w, "get")
  /\ UNCHANGED <<registry, byte, cntrl, jobs, lstSocket, own, clients>>

\* service() reads or writes: complete at once, or pending and put into lstSocket_ if
\* it is not kept, or neither.  It may panic.
Service(w) ==
  /\ pc[w] = "service"
  /\ hand' = [hand EXCEPT ![w] = {}]
  /\ \/ /\ Goto(w, "take")
        /\ \/ done' = [done EXCEPT ![w] = @ \cup hand[w]] /\ UNCHANGED <<pending, lstSocket>>
           \/ /\ pending' = [pending EXCEPT ![w] = @ \cup (hand[w] \cap Kept)]
              /\ lstSocket' = lstSocket \cup (hand[w] \ Kept)
              /\ UNCHANGED done
           \/ UNCHANGED <<done, pending, lstSocket>>
     \/ Goto(w, "fini") /\ UNCHANGED <<done, pending, lstSocket>>
  /\ UNCHANGED <<registry, byte, cntrl, jobs, clients>>

Get(w) ==
  /\ pc[w] = "get"
  /\ pending' = [pending EXCEPT ![w] = @ \cup lstSocket]
  /\ lstSocket' = {}
  /\ Goto(w, "lp")
  /\ UNCHANGED <<registry, byte, cntrl, jobs, done, hand, clients>>

\* A callback of lp() returns the socket, which makes it a job, or starts an operation
\* that does not complete, or lets go of it.
Callback(w, c) ==
  /\ pc[w] \in {"lp", "lp2"} /\ c \in done[w]
  /\ done' = [done EXCEPT ![w] = @ \ {c}]
  /\ \/ /\ lstSvc' = Append(lstSvc, c)
        /\ early' = IF pc[w] = "lp" THEN early \cup {c} ELSE early
        /\ UNCHANGED pending
     \/ /\ pending' = [pending EXCEPT ![w] = @ \cup {c}]
        /\ UNCHANGED jobs
     \/ UNCHANGED <<jobs, pending>>
  /\ UNCHANGED <<pc, registry, byte, cntrl, lstSocket, hand, clients>>

\* Mutant: epoll_wait without a timeout.
Never(t) == FALSE

\* epoll_wait gives up after a second.
TimedOut(t) == TRUE

\* The wake pipe of this EPoll is drained.
Drain(t) == byte' = byte \ {t}

\* What epoll_wait reports to w, a listening socket standing for its backlog.
Waiting(w) == {c \in backlog : (IF c \in Pipe THEN PipeListener ELSE Listener) \in pending[w]}

Reported(w) == (pending[w] \cup Waiting(w)) \cap ready

\* perform(): what is reported is read, written or accepted, and is done.
Perform(w) ==
  /\ pc[w] = "wait" /\ (w \in byte \/ Reported(w) # {} \/ TimedOut(w))
  /\ Drain(w)
  /\ done' = [done EXCEPT ![w] = @ \cup Reported(w)]
  /\ pending' = [pending EXCEPT ![w] = @ \ Reported(w)]
  /\ backlog' = backlog \ Reported(w)
  /\ ready' = ready \ Reported(w)
  /\ Goto(w, "lp2")
  /\ UNCHANGED <<registry, cntrl, jobs, lstSocket, hand, events>>

\* The end of the first lp().
NoneDone(w) ==
  /\ pc[w] = "lp" /\ done[w] = {}
  /\ Goto(w, "wait")
  /\ UNCHANGED <<registry, byte, cntrl, jobs, lstSocket, own, clients>>

\* Mutant: what is pending here is not shared.
Keeps(w) == UNCHANGED <<pending, lstSocket>>

\* EPoll::put.
Shares(w) ==
  /\ lstSocket' = lstSocket \cup (pending[w] \ Kept)
  /\ pending' = [pending EXCEPT ![w] = @ \cap Kept]

\* The end of the second.
Put(w) ==
  /\ pc[w] = "lp2" /\ done[w] = {}
  /\ Shares(w)
  /\ Goto(w, "notify")
  /\ UNCHANGED <<registry, byte, cntrl, jobs, done, hand, clients>>

\* With lstSvcM_ held throughout.
Wakes(w) == IF lstSvc # <<>> THEN WakeAll(w) ELSE UNCHANGED byte

\* The end of a round: the worker may have been told to go.
Notify(w) ==
  /\ pc[w] = "notify"
  /\ Wakes(w)
  /\ Goto(w, "take") \/ Goto(w, "fini")
  /\ UNCHANGED <<registry, cntrl, jobs, lstSocket, own, clients>>

-----------------------------------------------------------------------------
(* Server::fini and EPoll::drop.                                           *)

Fini(w) ==
  /\ pc[w] = "fini"
  /\ cntrl' = cntrl \ {w}
  /\ Goto(w, "wake")
  /\ UNCHANGED <<registry, byte, jobs, lstSocket, own, clients>>

\* Mutant: a leaving worker wakes nobody.
WakesNobody(w) == UNCHANGED byte

FiniWakes(w) == WakeAll(w)

WakeFini(w) ==
  /\ pc[w] = "wake"
  /\ FiniWakes(w)
  /\ Goto(w, "drop")
  /\ UNCHANGED <<registry, cntrl, jobs, lstSocket, own, clients>>

\* The descriptors are closed, before the lock.
Close(w) ==
  /\ pc[w] = "drop"
  /\ open' = open \ {w} /\ byte' = byte \ {w}
  /\ Goto(w, "unlist")
  /\ UNCHANGED <<created, lstEPoll, cntrl, jobs, lstSocket, own, clients>>

\* Then the sockets still here are dropped, those that were kept among them.
Unlist(w) ==
  /\ pc[w] = "unlist"
  /\ lstEPoll' = lstEPoll \ {w}
  /\ pending' = [pending EXCEPT ![w] = {}] /\ done' = [done EXCEPT ![w] = {}]
  /\ Goto(w, "gone")
  /\ UNCHANGED <<created, open, byte, cntrl, jobs, lstSocket, hand, clients>>

-----------------------------------------------------------------------------
(* can_exit.                                                               *)

Look ==
  /\ pc[Main] = "look"
  /\ Goto(Main, IF cntrl = {} THEN "exited" ELSE "wait")
  /\ UNCHANGED <<registry, byte, cntrl, jobs, lstSocket, own, clients>>

MainPerform ==
  /\ pc[Main] = "wait" /\ (Main \in byte \/ TimedOut(Main))
  /\ Drain(Main)
  /\ Goto(Main, "look")
  /\ UNCHANGED <<registry, cntrl, jobs, lstSocket, own, clients>>

Setup(t) == Test(t) \/ Create(t) \/ List(t)

Call(w) == \/ Enter(w) \/ Take(w) \/ NoJob(w) \/ Service(w) \/ Get(w)
           \/ Perform(w) \/ NoneDone(w) \/ Put(w) \/ Notify(w)
           \/ \E c \in Conns : Callback(w, c)

Leave(w) == Fini(w) \/ WakeFini(w) \/ Close(w) \/ Unlist(w)

Step(t) == \/ Setup(t)
           \/ t \in Workers /\ (Call(t) \/ Leave(t))
           \/ t = Main /\ (Look \/ MainPerform)

Next == Running /\ ((\E t \in Threads : Step(t)) \/ (\E c \in Conns : Client(c)))

\* The threads are scheduled, and epoll_wait returns after a second at the latest.
Spec == Init /\ [][Next]_vars /\ \A t \in Threads : WF_vars(Running /\ Step(t))

-----------------------------------------------------------------------------
(* Properties.                                                             *)

TypeOK ==
  /\ pc \in [Threads -> {"off", "test", "create", "list", "enter", "take",
                         "service", "get", "lp", "wait", "lp2", "notify",
                         "fini", "wake", "drop", "unlist", "gone", "look", "exited"}]
  /\ created \in BOOLEAN
  /\ {lstEPoll, open, byte} \subseteq SUBSET Threads
  /\ cntrl \subseteq Workers
  /\ lstSvc \in Seq(Conns) /\ early \subseteq ToSet(lstSvc)
  /\ {pending, done, hand} \subseteq [Workers -> SUBSET Sockets]
  /\ lstSocket \subseteq Sockets
  /\ backlog \subseteq Conns /\ ready \subseteq Conns /\ events \in 0..MaxEvents

Listed == {t \in Threads : pc[t] \notin {"off", "test", "create", "list", "gone"}}

\* The list of EPolls holds every thread that has one, so that wakeAll reaches it,
\* although the list is created without a lock; and it holds a closed EPoll only
\* while its worker is in drop, which is when a wake may be written to a descriptor
\* that means something else by then.
RegistryCurrent ==
  /\ lstEPoll = Listed
  /\ \A t \in lstEPoll \ open : pc[t] = "unlist"

Asleep(w) == pc[w] = "wait" /\ w \notin byte /\ Reported(w) = {}

\* The workers there are, those already past their last wakeAll excepted.
Staff == {w \in Workers : pc[w] \notin {"off", "drop", "unlist", "gone"}}

\* No lost wake-up: while somebody is there, a shared socket or a job waits only with
\* a worker awake that will take it or wake the others.  The exception is a job that
\* the first lp() of a round queues: its worker goes to sleep without waking anybody.
NoSleepOver ==
  Staff # {} /\ (lstSocket # {} \/ ToSet(lstSvc) \ early # {})
    => \E w \in Staff : ~Asleep(w)

\* can_exit need not wait for its timeout: when it sleeps and lstCntrl_ is empty, it
\* has been woken, or is about to be, by a worker that leaves.
ExitNoticed ==
  pc[Main] = "wait" /\ cntrl = {}
    => Main \in byte \/ \E w \in Workers : pc[w] = "wake"

\* The pool is empty or the process has ended.
Over == Staff = {} \/ ~Running

\* Every job is taken in the end, the slept-over ones thanks to the timeout, unless
\* nobody is left to.
JobsTaken ==
  \A c \in Conns : c \in ToSet(lstSvc) ~> c \notin ToSet(lstSvc) \/ Over

\* Whether somebody has to hear of c: whoever connects to Default, Control or Log may
\* count on it, whichever worker has the listening socket by then; whoever connects to
\* PipeService may do so only until the worker that keeps its listening socket leaves.
Held(c) == \/ c \in backlog /\ (c \in Pipe => \E w \in Workers : PipeListener \in pending[w])
           \/ c \in lstSocket \cup UNION {pending[w] : w \in Workers}

\* Every event of a connection is noticed by some worker, through all handovers of the
\* connection and of the listening socket, unless nobody is left, or the connection has
\* been let go of, or it was to PipeService and lost with its worker.
Heard == \A c \in Conns : c \in ready /\ Held(c) ~> c \notin ready \/ ~Held(c) \/ Over

=============================================================================
