----------------------------- MODULE LockOrder ------------------------------
(***************************************************************************)
(* The mutexes of the server and the order in which its threads nest them. *)
(* Only locks are modelled: a passage of the code is the sequence of what  *)
(* it does to them, in all the ways its conditions allow, and the passages *)
(* follow one another as in Server::call.  AutoLock releases in the        *)
(* reverse order of acquisition, so "release" means the lock taken last.   *)
(***************************************************************************)
EXTENDS Integers, Sequences, FiniteSets

CONSTANTS Workers,      \* the threads of the pool
          Main          \* the main thread

ASSUME ThreadsAssumption == IsFiniteSet(Workers) /\ Main \notin Workers

Threads == Workers \cup {Main}

\* "l" is ServiceInfo.l, "buf_" the mutex around the lines of the log.
Locks == {"lstCntrlM_", "lstSvcM_", "lstSvcLowM_", "lstSocketM_", "threadsAvailM_",
          "rtM_", "lstEPollM_", "l", "buf_"}

VARIABLES passage,      \* the passage each thread is in
          todo,         \* what is left of it
          held          \* the locks the thread holds, the last one taken first

vars == <<passage, todo, held>>

\* Taking lock a, doing what is nested in it, releasing it.
Guarded(a, inside) == <<a>> \o inside \o <<"release">>

Brief(a) == Guarded(a, <<>>)

\* "start" is start_thread, "conn", "call" and "log" are what callbacks do inside
\* EPoll::run, "drop" is EPoll::drop, "end" the end of a thread; the last five are
\* the main thread's.
Passages == {"new", "enter", "register", "take", "claim", "control", "service",
             "start", "accum", "finish", "requeue", "put", "get", "status", "run",
             "conn", "call", "log", "report", "putAll", "wakeAll", "check", "fini",
             "wakeFini", "leave", "drop", "end",
             "begin", "main", "perform", "relock", "exit"}

\* rt < 100 || threads_avail() > 3.
Take == {Guarded("lstSvcM_", Guarded("lstSvcLowM_", Guarded("rtM_", inside))) :
           inside \in {<<>>, Brief("threadsAvailM_")}}

\* dec_threads_avail, then start_thread under rtM_ or a look at threads_avail().
Claim ==
  {Guarded("lstCntrlM_", inside) :
     inside \in {Brief("threadsAvailM_") \o Brief("rtM_"),
                 Brief("threadsAvailM_") \o Guarded("rtM_", Brief("threadsAvailM_")),
                 Brief("threadsAvailM_") \o <<"test">> \o Brief("threadsAvailM_"),
                 Brief("threadsAvailM_")}}

\* Mutant: nothing releases the lock when the command cannot be parsed.
ControlKeeps == {<<"lstCntrlM_">>}

\* Control.service; the five looks at ServiceInfo are one.  "start" without a number
\* panics before it looks at anything.
ControlWays == {Guarded("lstCntrlM_", Brief("threadsAvailM_") \o Brief("l")),
                Brief("lstCntrlM_")}

\* Mutant: inc_threads_avail holds its lock while the worker is looked up.
FinishSwapped == {Guarded("threadsAvailM_", Brief("lstCntrlM_"))}

Finish == {Guarded("lstCntrlM_", Brief("threadsAvailM_")), Brief("lstCntrlM_")}

WakeAll == {Brief("lstSvcM_"), Guarded("lstSvcM_", Brief("lstEPollM_"))}

\* Mutant: looking at the flag again takes the lock that is already held.
CheckRelocks == {Guarded("lstCntrlM_", Brief("lstCntrlM_"))}

Check == {Brief("lstCntrlM_"), Guarded("lstCntrlM_", Brief("lstSocketM_"))}

\* Mutant: can_exit keeps the lock while it waits for workers to leave.
PerformHolding == {<<>>}

\* can_exit: lcm.unlock() before perform.
PerformWays == {<<"release">>}

\* What a passage may do to the locks.
Ways == [p \in Passages |->
  CASE p \in {"new", "drop", "wakeFini"} -> {Brief("lstEPollM_")}
    [] p \in {"enter", "leave"}          -> {Brief("rtM_")}
    [] p \in {"register", "status", "report", "fini"} -> {Brief("lstCntrlM_")}
    [] p = "take"                        -> Take
    [] p = "claim"                       -> Claim
    [] p = "control"                     -> ControlWays
    [] p = "start"                       -> {Brief("threadsAvailM_")}
    [] p \in {"accum", "conn"}           -> {Brief("l")}
    [] p = "finish"                      -> Finish
    [] p = "requeue"                     -> {Brief("lstSvcLowM_")}
    [] p \in {"put", "get", "putAll"}    -> {Brief("lstSocketM_")}
    [] p = "call"                        -> {Brief("l") \o Brief("lstSvcM_")}
    [] p = "log"                         -> {Brief("buf_")}
    [] p = "wakeAll"                     -> WakeAll
    [] p = "check"                       -> Check
    [] p = "main"    -> {Brief("threadsAvailM_") \o Brief("lstEPollM_") \o <<"lstCntrlM_">>}
    [] p = "perform"                     -> PerformWays
    [] p = "relock"                      -> {<<"lstCntrlM_">>}
    [] p = "exit"                        -> {<<"release">> \o Brief("lstEPollM_")}
    [] p \in {"service", "run", "end", "begin"} -> {<<>>}]

\* The passages that may come after a passage; a service that panics goes to "fini".
\* After its "end" a thread stands for one that is started later.
Then == [p \in Passages |->
  CASE p = "new"      -> {"enter"}
    [] p = "enter"    -> {"register"}
    [] p = "register" -> {"take"}
    [] p = "take"     -> {"claim", "get"}
    [] p = "claim"    -> {"control", "service"}
    [] p = "control"  -> {"start", "accum", "fini"}
    [] p = "service"  -> {"accum", "fini"}
    [] p = "start"    -> {"start", "accum"}
    [] p = "accum"    -> {"finish"}
    [] p = "finish"   -> {"requeue", "put"}
    [] p \in {"requeue", "put"} -> {"take"}
    [] p = "get"      -> {"status"}
    [] p = "status"   -> {"run"}
    [] p \in {"run", "conn", "call", "log"} -> {"conn", "call", "log", "report"}
    [] p = "report"   -> {"putAll"}
    [] p = "putAll"   -> {"wakeAll"}
    [] p = "wakeAll"  -> {"check"}
    [] p = "check"    -> {"take", "fini"}
    [] p = "fini"     -> {"wakeFini"}
    [] p = "wakeFini" -> {"leave"}
    [] p = "leave"    -> {"drop"}
    [] p = "drop"     -> {"end"}
    [] p = "end"      -> {"new"}
    [] p = "begin"    -> {"main"}
    [] p \in {"main", "relock"} -> {"perform", "exit"}
    [] p = "perform"  -> {"relock"}
    [] p = "exit"     -> {}]

-----------------------------------------------------------------------------
Holders(a) == {t \in Threads : \E i \in DOMAIN held[t] : held[t][i] = a}

\* What t does to a lock next, if anything.
Upcoming(t) == IF todo[t] = <<>> THEN "nothing" ELSE Head(todo[t])

Wants(t, a) == Upcoming(t) = a

Proceed(t) == todo' = [todo EXCEPT ![t] = Tail(@)]

Init == /\ passage = [t \in Threads |-> IF t = Main THEN "begin" ELSE "end"]
        /\ todo = [t \in Threads |-> <<>>]
        /\ held = [t \in Threads |-> <<>>]

\* The thread comes to a passage among those given.
Enter(t, passages) ==
  /\ todo[t] = <<>>
  /\ \E p \in Then[passage[t]] \cap passages :
       /\ passage' = [passage EXCEPT ![t] = p]
       /\ \E way \in Ways[p] : todo' = [todo EXCEPT ![t] = way]
  /\ UNCHANGED held

Acquire(t, a) ==
  /\ Wants(t, a)
  /\ Holders(a) = {}
  /\ held' = [held EXCEPT ![t] = <<a>> \o @]
  /\ Proceed(t)
  /\ UNCHANGED passage

Release(t) ==
  /\ Upcoming(t) = "release"
  /\ held' = [held EXCEPT ![t] = Tail(@)]
  /\ Proceed(t)
  /\ UNCHANGED passage

\* What the code does between two locks, with no lock of its own.
Test(t) ==
  /\ Upcoming(t) = "test"
  /\ Proceed(t)
  /\ UNCHANGED <<passage, held>>

Next == \E t \in Threads : \/ Enter(t, Passages)
                          \/ \E a \in Locks : Acquire(t, a)
                          \/ Release(t)
                          \/ Test(t)

SafeSpec == Init /\ [][Next]_vars

\* Threads that hold what they need run on, the loops over "start n" and over the
\* callbacks of one run have finitely many rounds, and a free lock that is wanted is
\* given to somebody: nobody is promised a turn (AbstractLock).
Fairness ==
  /\ \A t \in Threads : /\ WF_vars(Release(t) \/ Test(t) \/ Enter(t, Passages))
                         /\ SF_vars(Enter(t, {"accum", "report"}))
  /\ \A a \in Locks : WF_vars(\E t \in Threads : Acquire(t, a))

Spec == SafeSpec /\ Fairness

-----------------------------------------------------------------------------
(* Properties.                                                             *)

\* Threads are in known passages and hold and take known locks.
TypeOK == /\ passage \in [Threads -> Passages]
          /\ todo \in [Threads -> Seq(Locks \cup {"release", "test"})]
          /\ held \in [Threads -> Seq(Locks)]

\* No set of threads waits for one another in a circle, in whatever passages they
\* stand: among any threads there is one that waits for none of the others' locks.
NoCircle ==
  \A S \in (SUBSET Threads) \ {{}} :
    \E t \in S : \A a \in Locks : Wants(t, a) => Holders(a) \cap S = {}

\* A thread that has left a passage holds no lock, the main thread excepted, which
\* keeps lstCntrlM_ while it looks at lstCntrl_: no path, a panic included, leaks one.
NothingLeaks ==
  \A t \in Threads :
    todo[t] = <<>> =>
      held[t] = IF passage[t] \in {"main", "relock"} THEN <<"lstCntrlM_">> ELSE <<>>

\* Whoever holds locks gives them all back, even if it must first get others for
\* which there is no queue.
Released == \A t \in Threads : held[t] # <<>> ~> held[t] = <<>>

\* The threads use every lock as AbstractLock says: nobody asks for a lock it has.
Lock(a) == INSTANCE AbstractLock
             WITH holders <- Holders(a),
                  wanting <- {t \in Threads : Wants(t, a)}

LocksUsed ==
  /\ \A a \in Locks : Lock(a)!Init
  /\ [][\A a \in Locks : UNCHANGED Lock(a)!vars \/ Lock(a)!Next]_vars

=============================================================================
