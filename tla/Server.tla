------------------------------- MODULE Server -------------------------------
(***************************************************************************)
(* The thread pool of server.rs: the worker threads of Server::call, the   *)
(* two job queues, the count of available threads that decides when the    *)
(* pool grows and shrinks, the control service that starts and stops       *)
(* workers, and the main thread that waits for all of them to be gone.     *)
(*                                                                         *)
(* A job is the socket handed to a worker, reduced to what its service     *)
(* does to the pool.  A critical section is one action, except that of     *)
(* lines 246-259, which calls out to other locks while it holds            *)
(* lstCntrlM_: it is three actions with the holder kept in cntrlM.         *)
(***************************************************************************)
EXTENDS Integers, Sequences, FiniteSets

CONSTANTS Threads,      \* names for the worker threads; a name is used again
          NoThread,     \* nobody holds lstCntrlM_
          Kinds,        \* the kinds of job that clients send
          MayPanic,     \* the kinds of job whose service may panic
          MaxThreads,   \* rt < 100: no thread is added beyond
          Reserve,      \* threads_avail() > 3
          RetireAfter,  \* serviced_ > 2000
          HowMany,      \* largest n of a "start n" command
          MaxJobs       \* bound on the jobs submitted in a behaviour

\* "reply": Default or Control's statistics; "cgi": PipeService preparing a
\* request, which comes back as "perform"; "start", "shutdown": Control.
JobKinds == {"reply", "cgi", "perform", "start", "shutdown"}

ASSUME ThreadsAssumption == IsFiniteSet(Threads) /\ NoThread \notin Threads
ASSUME KindsAssumption   == Kinds \subseteq JobKinds \ {"perform"}
ASSUME PanicAssumption   == MayPanic \subseteq {"start", "perform"}
ASSUME BoundsAssumption  == /\ MaxThreads \in Nat \ {0}
                            /\ Reserve \in Nat
                            /\ RetireAfter \in Nat
                            /\ HowMany \in Nat
                            /\ MaxJobs \in Nat

NoJob == "none"

VARIABLES
  pc,           \* where each worker stands
  job,          \* the job a worker holds; after service(), what it returned
  shutdown,     \* StatusControl.shutdown of each worker
  serviced,     \* Server.serviced_, counted up to RetireAfter + 1
  lst_done,     \* whether EPoll.lst_done of the worker is non-empty
  toStart,      \* the threads Control.service has yet to start
  lstCntrl,     \* lstCntrl_: the registered workers
  cntrlM,       \* the worker inside lines 246-259, or NoThread
  lstSvc,       \* lstSvc_
  lstSvcLow,    \* lstSvcLow_
  threadsAvail, \* threadsAvail_
  rt,           \* rt
  main,         \* the main thread in can_exit
  started,      \* history: threads started by command
  submitted,    \* history: jobs submitted
  abandoned     \* history: credits of workers flagged by command while available

worker == <<job, shutdown, serviced, lst_done, toStart>>
queues == <<lstSvc, lstSvcLow>>
counts == <<threadsAvail, rt>>
cntrl == <<lstCntrl, cntrlM>>
history == <<started, submitted, abandoned>>
shared == <<cntrl, queues, counts, main, history>>
vars == <<pc, worker, shared>>

\* The program points between which other threads may run.
Points == {"none", "spawned", "register", "take", "claim", "grow", "retire",
           "service", "starting", "finish", "requeue", "run", "check",
           "fini", "leave", "exit"}

At(points) == {t \in Threads : pc[t] \in points}

\* The points at which a worker is counted in threadsAvail_.
CreditPoints == {"spawned", "register", "take", "claim", "requeue", "run", "check"}

\* The points at which it is counted in rt.
RunningPoints == Points \ {"none", "spawned", "exit"}

\* The points at which it is in lstCntrl_.
RegisteredPoints == RunningPoints \ {"register", "leave"}

Idle    == {t \in At(CreditPoints) : ~shutdown[t]}
Spawned == At({"spawned"})
Running == At(RunningPoints)

\* The process is alive and t stands at l.
Stands(t, l) == main # "exited" /\ pc[t] = l

Goto(t, l) == pc' = [pc EXCEPT ![t] = l]

\* lstCntrlM_ can be taken.
CntrlFree == cntrlM = NoThread

\* server::init and the first start_thread of main().
Init ==
  \E first \in Threads :
    /\ pc = [t \in Threads |-> IF t = first THEN "spawned" ELSE "none"]
    /\ job = [t \in Threads |-> NoJob]
    /\ shutdown = [t \in Threads |-> FALSE]
    /\ serviced = [t \in Threads |-> 0]
    /\ lst_done = [t \in Threads |-> FALSE]
    /\ toStart = [t \in Threads |-> 0]
    /\ lstCntrl = {}
    /\ cntrlM = NoThread
    /\ lstSvc = <<>>
    /\ lstSvcLow = <<>>
    /\ threadsAvail = 1
    /\ rt = 0
    /\ main = "sleeping"
    /\ started = 0
    /\ submitted = 0
    /\ abandoned = 0

-----------------------------------------------------------------------------
(* Entering Server::call.                                                  *)

\* rt += 1.
Enter(t) ==
  /\ Stands(t, "spawned")
  /\ rt' = rt + 1
  /\ Goto(t, "register")
  /\ UNCHANGED <<worker, cntrl, queues, threadsAvail, main, history>>

\* A fresh StatusControl, not flagged, joins lstCntrl_.  can_exit sleeps for one
\* second before it first looks at lstCntrl_, which is assumed to be enough for the
\* first worker to register: only then does main begin to wait.
Register(t) ==
  /\ Stands(t, "register")
  /\ CntrlFree
  /\ lstCntrl' = lstCntrl \cup {t}
  /\ main' = "waiting"
  /\ Goto(t, "take")
  /\ UNCHANGED <<worker, cntrlM, queues, counts, history>>

-----------------------------------------------------------------------------
(* Taking a job, under lstSvcM_, lstSvcLowM_ and rtM_.                     *)

TakeJob(t) ==
  /\ Stands(t, "take")
  /\ lstSvc # <<>>
  /\ job' = [job EXCEPT ![t] = Head(lstSvc)]
  /\ lstSvc' = Tail(lstSvc)
  /\ Goto(t, "claim")
  /\ UNCHANGED <<shutdown, serviced, lst_done, toStart, cntrl, lstSvcLow, counts, main, history>>

\* Mutant: only a pool that may still grow takes low jobs.
LowWhileGrowing == rt < MaxThreads

\* A job of the low queue waits for an empty high queue and a pool that may
\* still grow or has threads in reserve.
LowAllowed == rt < MaxThreads \/ threadsAvail > Reserve

TakeLow(t) ==
  /\ Stands(t, "take")
  /\ lstSvc = <<>> /\ lstSvcLow # <<>> /\ LowAllowed
  /\ job' = [job EXCEPT ![t] = Head(lstSvcLow)]
  /\ lstSvcLow' = Tail(lstSvcLow)
  /\ Goto(t, "claim")
  /\ UNCHANGED <<shutdown, serviced, lst_done, toStart, cntrl, lstSvc, counts, main, history>>

NoMore(t) ==
  /\ Stands(t, "take")
  /\ lstSvc = <<>> /\ (lstSvcLow = <<>> \/ ~LowAllowed)
  /\ Goto(t, "run")
  /\ UNCHANGED <<worker, shared>>

-----------------------------------------------------------------------------
(* Accounting for the job, lines 246-259, with lstCntrlM_ held throughout. *)

\* Mutant: the last available worker does not ask for another.
NeverLast(n) == FALSE

\* dec_threads_avail() == 0: nobody is available any more.
Last(n) == n = 0

\* dec_threads_avail, unless the worker is leaving the pool.
Claim(t) ==
  /\ Stands(t, "claim")
  /\ CntrlFree
  /\ cntrlM' = t
  /\ \/ /\ shutdown[t]
        /\ Goto(t, "retire")
        /\ UNCHANGED threadsAvail
     \/ /\ ~shutdown[t]
        /\ threadsAvail' = threadsAvail - 1
        /\ Goto(t, IF Last(threadsAvail') THEN "grow" ELSE "retire")
  /\ UNCHANGED <<worker, lstCntrl, queues, rt, main, history>>

\* Mutant: the number of running threads is not looked at.
GrowRegardless == TRUE

MayGrow == rt < MaxThreads

\* The last available worker starts another one, if rt allows it; start_thread
\* counts the new thread before it runs.
Grow(t) ==
  /\ Stands(t, "grow")
  /\ \/ /\ MayGrow
        /\ \E u \in At({"none"}) :
              pc' = [pc EXCEPT ![t] = "service", ![u] = "spawned"]
        /\ threadsAvail' = threadsAvail + 1
     \/ /\ ~MayGrow
        /\ Goto(t, "service")
        /\ UNCHANGED threadsAvail
  /\ cntrlM' = NoThread
  /\ UNCHANGED <<worker, lstCntrl, queues, rt, main, history>>

\* Mutant: a worker that served enough leaves whoever is left behind.
RetireRegardless(t) == serviced[t] > RetireAfter

MayRetire(t) == threadsAvail > Reserve /\ serviced[t] > RetireAfter

\* A worker that served enough flags itself when others are in reserve.
Retire(t) ==
  /\ Stands(t, "retire")
  /\ shutdown' = [shutdown EXCEPT ![t] = @ \/ MayRetire(t)]
  /\ cntrlM' = NoThread
  /\ Goto(t, "service")
  /\ UNCHANGED <<job, serviced, lst_done, toStart, lstCntrl, queues, counts, main, history>>

-----------------------------------------------------------------------------
(* Service::service.                                                       *)

\* EPoll::write completes at once and queues the socket in lst_done, or not.
Wrote(t) == lst_done' \in {lst_done, [lst_done EXCEPT ![t] = TRUE]}

\* Default, Control's statistics, or DefaultPipeServer.perform: an answer.  (What
\* Control reads under lstCntrlM_ for its statistics is not modelled.)
Reply(t) ==
  /\ Stands(t, "service")
  /\ job[t] \in {"reply", "perform"}
  /\ Wrote(t)
  /\ job' = [job EXCEPT ![t] = NoJob]
  /\ Goto(t, "finish")
  /\ UNCHANGED <<shutdown, serviced, toStart, shared>>

\* PipeService with toRead_ = 0: prepare_request returns -1, the socket is
\* returned and comes back to perform.
PrepareRequest(t) ==
  /\ Stands(t, "service")
  /\ job[t] = "cgi"
  /\ job' = [job EXCEPT ![t] = "perform"]
  /\ Goto(t, "finish")
  /\ UNCHANGED <<shutdown, serviced, lst_done, toStart, shared>>

\* Control: every registered worker is flagged, the caller included.
CommandShutdown(t) ==
  /\ Stands(t, "service")
  /\ CntrlFree
  /\ job[t] = "shutdown"
  /\ shutdown' = [u \in Threads |-> shutdown[u] \/ u \in lstCntrl]
  /\ abandoned' = abandoned + Cardinality(Idle \cap lstCntrl)
  /\ job' = [job EXCEPT ![t] = NoJob]
  /\ Goto(t, "finish")
  /\ UNCHANGED <<serviced, lst_done, toStart, cntrl, queues, counts, main, started, submitted>>

\* Control: "start n"; the threads are started after lstCntrlM_ is released.
CommandStart(t) ==
  /\ Stands(t, "service")
  /\ CntrlFree
  /\ job[t] = "start"
  /\ \E n \in 0..HowMany : toStart' = [toStart EXCEPT ![t] = n]
  /\ Goto(t, "starting")
  /\ UNCHANGED <<job, shutdown, serviced, lst_done, shared>>

StartOne(t) ==
  /\ Stands(t, "starting")
  /\ toStart[t] > 0
  /\ \E u \in At({"none"}) : pc' = [pc EXCEPT ![u] = "spawned"]
  /\ threadsAvail' = threadsAvail + 1
  /\ toStart' = [toStart EXCEPT ![t] = @ - 1]
  /\ started' = started + 1
  /\ UNCHANGED <<job, shutdown, serviced, lst_done, cntrl, queues, rt, main, submitted, abandoned>>

StartedAll(t) ==
  /\ Stands(t, "starting")
  /\ toStart[t] = 0
  /\ Wrote(t)
  /\ job' = [job EXCEPT ![t] = NoJob]
  /\ Goto(t, "finish")
  /\ UNCHANGED <<shutdown, serviced, toStart, shared>>

\* "start" without a number, or no child process to be had: catch_unwind drops
\* the job and start_thread goes on to fini.
Panic(t) ==
  /\ Stands(t, "service")
  /\ job[t] = "start" => CntrlFree
  /\ job[t] \in MayPanic
  /\ job' = [job EXCEPT ![t] = NoJob]
  /\ Goto(t, "fini")
  /\ UNCHANGED <<shutdown, serviced, lst_done, toStart, shared>>

-----------------------------------------------------------------------------
(* After service(), and the rest of the loop.                              *)

Least(m, n) == IF m < n THEN m ELSE n

\* Mutant: the worker is counted as available again, flagged or not.
CreditAlways(t) == 1

\* Mutant: the worker is not counted as available again.
CreditNever(t) == 0

Credit(t) == IF shutdown[t] THEN 0 ELSE 1

\* The worker is available again unless it has been flagged meanwhile.
Finish(t) ==
  /\ Stands(t, "finish")
  /\ CntrlFree
  /\ threadsAvail' = threadsAvail + Credit(t)
  /\ serviced' = [serviced EXCEPT ![t] = Least(@ + 1, RetireAfter + 1)]
  /\ Goto(t, IF job[t] = NoJob THEN "take" ELSE "requeue")
  /\ UNCHANGED <<job, shutdown, lst_done, toStart, cntrl, queues, rt, main, history>>

\* A socket that service() returned goes to the low queue.
Requeue(t) ==
  /\ Stands(t, "requeue")
  /\ lstSvcLow' = Append(lstSvcLow, job[t])
  /\ job' = [job EXCEPT ![t] = NoJob]
  /\ Goto(t, "take")
  /\ UNCHANGED <<shutdown, serviced, lst_done, toStart, cntrl, lstSvc, counts, main, history>>

\* Callback::call inside EPoll::run: a request has arrived on a socket of t.
Submit(t) ==
  /\ Stands(t, "run")
  /\ submitted < MaxJobs
  /\ \E k \in Kinds : lstSvc' = Append(lstSvc, k)
  /\ submitted' = submitted + 1
  /\ UNCHANGED <<pc, worker, cntrl, lstSvcLow, counts, main, started, abandoned>>

\* Mutant: what perform() completed is left for the next round.
Undrained(t) == lst_done

Drained(t) == [lst_done EXCEPT ![t] = FALSE]

\* EPoll::run returns, within the second it may wait, with lst_done drained.
Poll(t) ==
  /\ Stands(t, "run")
  /\ lst_done' = Drained(t)
  /\ Goto(t, "check")
  /\ UNCHANGED <<job, shutdown, serviced, toStart, shared>>

CheckShutdown(t) ==
  /\ Stands(t, "check")
  /\ CntrlFree
  /\ Goto(t, IF shutdown[t] THEN "fini" ELSE "take")
  /\ UNCHANGED <<worker, shared>>

-----------------------------------------------------------------------------
(* Server::fini and the end of the thread; Server::can_exit.               *)

\* Mutant: the entry of a worker is not found in lstCntrl_.
NotFound(t) == lstCntrl

Without(t) == lstCntrl \ {t}

Unregister(t) ==
  /\ Stands(t, "fini")
  /\ CntrlFree
  /\ lstCntrl' = Without(t)
  /\ Goto(t, "leave")
  /\ UNCHANGED <<worker, cntrlM, queues, counts, main, history>>

\* rt -= 1; what is left is the assertion on lst_done.
Leave(t) ==
  /\ Stands(t, "leave")
  /\ rt' = rt - 1
  /\ Goto(t, "exit")
  /\ UNCHANGED <<worker, cntrl, queues, threadsAvail, main, history>>

\* The thread is over, with or without the assertion; its name is free again.
Exit(t) ==
  /\ Stands(t, "exit")
  /\ shutdown' = [shutdown EXCEPT ![t] = FALSE]
  /\ serviced' = [serviced EXCEPT ![t] = 0]
  /\ lst_done' = [lst_done EXCEPT ![t] = FALSE]
  /\ Goto(t, "none")
  /\ UNCHANGED <<job, toStart, shared>>

\* can_exit finds lstCntrl_ empty, main returns and the process is gone.
CanExit ==
  /\ main = "waiting"
  /\ CntrlFree
  /\ lstCntrl = {}
  /\ main' = "exited"
  /\ UNCHANGED <<pc, worker, cntrl, queues, counts, history>>

-----------------------------------------------------------------------------
Service(t) == \/ Reply(t) \/ PrepareRequest(t) \/ CommandShutdown(t)
              \/ CommandStart(t) \/ StartOne(t) \/ StartedAll(t) \/ Panic(t)

\* What a worker does by itself.
Step(t) == \/ Enter(t) \/ Register(t)
           \/ TakeJob(t) \/ TakeLow(t) \/ NoMore(t)
           \/ Claim(t) \/ Grow(t) \/ Retire(t)
           \/ Service(t)
           \/ Finish(t) \/ Requeue(t) \/ Poll(t) \/ CheckShutdown(t)
           \/ Unregister(t) \/ Leave(t) \/ Exit(t)

Next == \/ \E t \in Threads : Step(t) \/ Submit(t)
        \/ CanExit

\* The scheduler runs every thread; clients need not send anything.  A lock that
\* is only taken a bounded number of times is got under weak fairness.
Fairness == /\ \A t \in Threads : WF_vars(Step(t))
            /\ WF_vars(CanExit)

SafeSpec == Init /\ [][Next]_vars

Spec == SafeSpec /\ Fairness

-----------------------------------------------------------------------------
(* Properties.                                                             *)

\* Every worker stands at a known point with a job to match, threadsAvail_ stays a
\* u32 (it never goes below zero) and rt counts the threads inside Server::call.
TypeOK == /\ pc \in [Threads -> Points]
          /\ job \in [Threads -> JobKinds \cup {NoJob}]
          /\ shutdown \in [Threads -> BOOLEAN]
          /\ serviced \in [Threads -> 0..RetireAfter + 1]
          /\ lst_done \in [Threads -> BOOLEAN]
          /\ toStart \in [Threads -> 0..HowMany]
          /\ lstCntrl \subseteq Threads
          /\ cntrlM \in Threads \cup {NoThread}
          /\ lstSvc \in Seq(JobKinds)
          /\ lstSvcLow \in Seq(JobKinds)
          /\ threadsAvail \in Nat
          /\ rt \in Nat
          /\ main \in {"sleeping", "waiting", "exited"}
          /\ started \in Nat
          /\ submitted \in 0..MaxJobs
          /\ abandoned \in Nat

\* threadsAvail_ is exact: retirement, panics, commands and every path through the
\* loop return each credit once.  Only a worker flagged by command while it is
\* available never returns its own, which stays in the count for good.  So
\* dec_threads_avail never underflows, and a count of zero really means that nobody
\* is left to take a job.
AvailCountsIdle == threadsAvail = Cardinality(Idle) + abandoned

\* rt < 100 bounds the pool although rt counts a thread only once it runs: at most
\* MaxThreads threads and those started by command.
ThreadBound == rt + Cardinality(Spawned) <= MaxThreads + started

\* While nobody has left the pool, a pool with no available worker is at its limit:
\* the last worker never starts a job without a replacement below the limit.
SpareOrFull ==
  cntrlM = NoThread /\ Idle = {} => rt + Cardinality(Spawned) >= MaxThreads

\* Unless a client says so or services panic, the process never runs out of
\* workers that are registered and not leaving: can_exit does not return although
\* workers come, go and retire.
PoolSurvives == main = "waiting" => \E t \in lstCntrl : ~shutdown[t]

\* assert!(self.pl_.lst_done.is_empty()) at the end of fini.
FiniAssertion == \A t \in At({"exit"}) : ~lst_done[t]

\* Every job is taken in the end, those of the low queue included.
JobsServed == <>[](lstSvc = <<>> /\ lstSvcLow = <<>>)

\* When, from some moment on, no thread exists that is not flagged, all of them
\* leave, whatever the queues still hold, and the process ends.
Unflagged == {t \in At(Points \ {"none"}) : ~shutdown[t]}

ShutdownDrains == <>[](Unflagged = {}) => <>(main = "exited")

\* What "shutting down" says, the text that Control::service composes after flagging
\* (and does not send).
ShutdownTerminates == (\E t \in Threads : shutdown[t]) ~> (main = "exited")
=============================================================================
