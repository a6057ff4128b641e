------------------------- MODULE WakeRegistryProofs -------------------------
(***************************************************************************)
(* Safety of waking and sleeping for any set of workers and connections:   *)
(* the list of EPolls is current, no job and no shared socket is slept     *)
(* over, and the main thread is woken when the last worker has left.       *)
(***************************************************************************)
EXTENDS WakeRegistry, SequenceTheorems, TLAPS

\* Before its list the main thread has no EPoll, and it never becomes a worker.
Roles ==
  /\ pc[Main] \in {"test", "create", "list", "look", "wait", "exited"}
  /\ \A w \in Workers : pc[w] \notin {"look", "exited"}
  /\ pc[First] # "off"

\* The second that can_exit sleeps: as long as there is no list, the first worker is
\* alone, so that nobody overwrites the list of another.
CreatedOnce ==
  /\ \A t \in Threads : pc[t] = "create" => ~created
  /\ ~created =>
       /\ pc[First] \in {"test", "create"} /\ pc[Main] = "test"
       /\ \A t \in Threads \ {First, Main} : pc[t] = "off"

\* Descriptors are open from EPoll::new until the first half of EPoll::drop.
Opened ==
  \A t \in Threads : pc[t] \notin {"off", "test", "unlist", "gone"} => t \in open

\* A worker on its way to epoll_wait may sleep over what waits there, unless it has
\* been woken.
Heading(w, points) == pc[w] \in points /\ w \notin byte

\* While a socket is shared, or a job waits, a worker is elsewhere or has been woken.
\* Unlike NoSleepOver this does not count on events.
SocketSeen ==
  Staff # {} /\ lstSocket # {} => \E w \in Staff : ~Heading(w, {"lp", "wait"})

JobSeen ==
  Staff # {} /\ ToSet(lstSvc) \ early # {}
    => \E w \in Staff : ~Heading(w, {"get", "lp", "wait"})

Registry == Roles /\ CreatedOnce /\ Opened /\ RegistryCurrent

IInv == TypeOK /\ Registry /\ ExitNoticed /\ SocketSeen /\ JobSeen

-----------------------------------------------------------------------------
(* What sequences hold.                                                    *)

LEMMA ToSetOfTail ==
  ASSUME NEW S, NEW s \in Seq(S), s # <<>>
  PROVE  /\ Head(s) \in S /\ Tail(s) \in Seq(S)
         /\ ToSet(s) = {Head(s)} \cup ToSet(Tail(s))
  <1>1. /\ Head(s) \in S /\ Tail(s) \in Seq(S) /\ Head(s) = s[1]
        /\ Len(s) \in Nat \ {0} /\ DOMAIN s = 1..Len(s)
        /\ DOMAIN Tail(s) = 1..Len(s) - 1
        /\ \A i \in 1..Len(s) - 1 : Tail(s)[i] = s[i + 1]
    BY HeadTailProperties, EmptySeq, LenProperties
  <1>2. ASSUME NEW x \in ToSet(s) PROVE x \in {Head(s)} \cup ToSet(Tail(s))
    <2>1. PICK i \in 1..Len(s) : x = s[i]
      BY <1>1, <1>2 DEF ToSet
    <2>2. CASE i = 1
      BY <1>1, <2>1, <2>2
    <2>3. CASE i # 1
      <3>1. i - 1 \in 1..Len(s) - 1 /\ x = Tail(s)[i - 1]
        BY <1>1, <2>1, <2>3
      <3> QED
        BY <1>1, <3>1 DEF ToSet
    <2> QED
      BY <2>2, <2>3
  <1>3. ToSet(Tail(s)) \subseteq ToSet(s) /\ Head(s) \in ToSet(s)
    BY <1>1 DEF ToSet
  <1> QED
    BY <1>1, <1>2, <1>3

LEMMA ToSetOfAppend ==
  ASSUME NEW S, NEW s \in Seq(S), NEW x \in S
  PROVE  Append(s, x) \in Seq(S) /\ ToSet(Append(s, x)) = ToSet(s) \cup {x}
  <1>1. /\ Append(s, x) \in Seq(S) /\ Len(s) \in Nat /\ DOMAIN s = 1..Len(s)
        /\ DOMAIN Append(s, x) = 1..Len(s) + 1
        /\ \A i \in 1..Len(s) : Append(s, x)[i] = s[i]
        /\ Append(s, x)[Len(s) + 1] = x
    BY AppendProperties, LenProperties
  <1>2. ASSUME NEW i \in 1..Len(s) + 1
        PROVE  i \in 1..Len(s) \/ i = Len(s) + 1
    BY <1>1
  <1> QED
    BY <1>1, <1>2 DEF ToSet

-----------------------------------------------------------------------------
LEMMA InitIInv == Init => IInv
  <1> SUFFICES ASSUME Init PROVE IInv
    OBVIOUS
  <1> USE NamesAssumption DEF Init, Threads
  <1>1. ToSet(lstSvc) = {} /\ lstSvc \in Seq(Conns)
    BY DEF ToSet
  <1>2. TypeOK
    <2>1. pc \in [Threads -> {"off", "test"}]
      OBVIOUS
    <2>2. /\ {pending, done, hand} \subseteq [Workers -> SUBSET Sockets]
          /\ {lstEPoll, open, byte} \subseteq SUBSET Threads
      BY DEF Sockets
    <2>3. events = 0 /\ 0 \in 0..MaxEvents
      OBVIOUS
    <2>4. /\ created \in BOOLEAN /\ cntrl \subseteq Workers /\ early \subseteq ToSet(lstSvc)
          /\ lstSocket \subseteq Sockets
          /\ backlog \subseteq Conns /\ ready \subseteq Conns
      BY Zenon
    <2> HIDE DEF Init
    <2> QED
      BY <1>1, <2>1, <2>2, <2>3, <2>4 DEF TypeOK
  <1>3. Registry
    BY DEF Registry, Roles, CreatedOnce, Opened, RegistryCurrent, Listed
  <1>4. ExitNoticed
    BY DEF ExitNoticed
  <1>5. SocketSeen /\ JobSeen
    BY <1>1, Zenon DEF SocketSeen, JobSeen
  <1> QED
    BY <1>2, <1>3, <1>4, <1>5 DEF IInv
-----------------------------------------------------------------------------
(* One step per action.                                                    *)

LEMMA NextTypeOK == TypeOK /\ [Next]_vars => TypeOK'
  <1> SUFFICES ASSUME TypeOK, [Next]_vars PROVE TypeOK'
    OBVIOUS
  <1> USE NamesAssumption DEF TypeOK, Threads, registry, jobs, own, clients, Goto
  <1>0. Conns \subseteq Sockets
    BY DEF Sockets
  <1>1. ASSUME NEW c \in Conns, Client(c) PROVE TypeOK'
    BY <1>1 DEF Client
  <1>2. ASSUME NEW t \in Threads, Setup(t) PROVE TypeOK'
    <2>1. CASE Test(t)
      BY <2>1 DEF Test
    <2>2. CASE Create(t)
      BY <2>2 DEF Create
    <2>3. CASE List(t)
      BY <2>3 DEF List
    <2> QED
      BY <1>2, <2>1, <2>2, <2>3 DEF Setup
  <1>3. ASSUME NEW w \in Workers, Enter(w) \/ NoJob(w) \/ NoneDone(w) PROVE TypeOK'
    BY <1>3 DEF Enter, NoJob, NoneDone
  <1>4. ASSUME NEW w \in Workers, Take(w) PROVE TypeOK'
    <2>1. /\ Head(lstSvc) \in Conns /\ lstSvc' \in Seq(Conns)
          /\ early' \subseteq ToSet(lstSvc')
      BY <1>4, ToSetOfTail DEF Take
    <2> QED
      BY <1>0, <1>4, <2>1 DEF Take
  <1>5. ASSUME NEW w \in Workers, Service(w) PROVE TypeOK'
    BY <1>5 DEF Service
  <1>6. ASSUME NEW w \in Workers, Get(w) PROVE TypeOK'
    BY <1>6 DEF Get
  <1>7. ASSUME NEW w \in Workers, NEW c \in Conns, Callback(w, c) PROVE TypeOK'
    <2>1. lstSvc' \in Seq(Conns) /\ early' \subseteq ToSet(lstSvc')
      <3>1. CASE lstSvc' = Append(lstSvc, c) /\ early' \subseteq early \cup {c}
        BY <3>1, ToSetOfAppend
      <3>2. CASE UNCHANGED jobs
        BY <3>2
      <3> QED
        BY <1>7, <3>1, <3>2 DEF Callback
    <2> QED
      BY <1>0, <1>7, <2>1 DEF Callback
  <1>8. ASSUME NEW w \in Workers, Perform(w) PROVE TypeOK'
    <2>1. Reported(w) \subseteq Sockets
      BY <1>0 DEF Reported, Waiting
    <2> QED
      BY <1>8, <2>1 DEF Perform, Drain
  <1>9. ASSUME NEW w \in Workers, Put(w) \/ Notify(w) PROVE TypeOK'
    BY <1>9 DEF Put, Shares, Notify, Wakes, WakeAll
  <1>10. ASSUME NEW w \in Workers, Leave(w) PROVE TypeOK'
    BY <1>10 DEF Leave, Fini, WakeFini, FiniWakes, WakeAll, Close, Unlist
  <1>11. CASE Look \/ MainPerform
    BY <1>11 DEF Look, MainPerform, Drain
  <1>12. CASE UNCHANGED vars
    BY <1>12 DEF vars
  <1> QED
    BY <1>1, <1>2, <1>3, <1>4, <1>5, <1>6, <1>7, <1>8, <1>9, <1>10, <1>11, <1>12
       DEF Next, Step, Call

LEMMA NextRegistry == TypeOK /\ Registry /\ [Next]_vars => Registry'
  <1> SUFFICES ASSUME TypeOK, Registry, [Next]_vars PROVE Registry'
    OBVIOUS
  <1> USE NamesAssumption
      DEF TypeOK, Registry, Roles, CreatedOnce, Opened, RegistryCurrent, Listed,
          Threads, registry, jobs, own, clients, Goto
  <1>1. ASSUME NEW c \in Conns, Client(c) PROVE Registry'
    BY <1>1 DEF Client
  <1>2. ASSUME NEW t \in Threads, Test(t) PROVE Registry'
    BY <1>2 DEF Test, Slept
  <1>3. ASSUME NEW t \in Threads, Create(t) PROVE Registry'
    BY <1>3 DEF Create
  <1>4. ASSUME NEW t \in Threads, List(t) PROVE Registry'
    BY <1>4 DEF List
  <1>5. ASSUME NEW w \in Workers, Enter(w) \/ NoJob(w) \/ Get(w) \/ NoneDone(w)
        PROVE  Registry'
    BY <1>5 DEF Enter, NoJob, Get, NoneDone
  <1>6. ASSUME NEW w \in Workers, Take(w) PROVE Registry'
    <2>1. CASE Goto(w, "service")
      BY <1>6, <2>1 DEF Take
    <2>2. ASSUME NEW v \in Workers, pc[v] = "off",
                 pc' = [pc EXCEPT ![w] = "service", ![v] = "test"]
          PROVE  Registry'
      <3>1. /\ pc[w] = "take" /\ w # v
            /\ \A t \in Threads : pc'[t] = CASE t = w -> "service"
                                           [] t = v -> "test"
                                           [] OTHER -> pc[t]
            /\ UNCHANGED <<created, lstEPoll, open>>
        BY <1>6, <2>2 DEF Take
      <3>2. created
        BY <3>1
      <3> QED
        BY <2>2, <3>1, <3>2
    <2> QED
      BY <1>6, <2>1, <2>2 DEF Take
  <1>7. ASSUME NEW w \in Workers, Service(w) PROVE Registry'
    BY <1>7 DEF Service
  <1>8. ASSUME NEW w \in Workers, NEW c \in Conns, Callback(w, c) PROVE Registry'
    BY <1>8 DEF Callback
  <1>9. ASSUME NEW w \in Workers, Perform(w) \/ Put(w) \/ Notify(w) PROVE Registry'
    BY <1>9 DEF Perform, Put, Notify
  <1>10. ASSUME NEW w \in Workers, Fini(w) \/ WakeFini(w) PROVE Registry'
    BY <1>10 DEF Fini, WakeFini
  <1>11. ASSUME NEW w \in Workers, Close(w) PROVE Registry'
    BY <1>11 DEF Close
  <1>12. ASSUME NEW w \in Workers, Unlist(w) PROVE Registry'
    BY <1>12 DEF Unlist
  <1>13. CASE Look \/ MainPerform
    BY <1>13 DEF Look, MainPerform
  <1>14. CASE UNCHANGED vars
    BY <1>14 DEF vars
  <1> QED
    BY <1>1, <1>2, <1>3, <1>4, <1>5, <1>6, <1>7, <1>8, <1>9, <1>10, <1>11, <1>12,
       <1>13, <1>14
       DEF Next, Step, Setup, Call, Leave

LEMMA NextExitNoticed ==
  TypeOK /\ Registry /\ ExitNoticed /\ [Next]_vars => ExitNoticed'
  <1> SUFFICES ASSUME TypeOK, Registry, ExitNoticed, [Next]_vars PROVE ExitNoticed'
    OBVIOUS
  <1> USE NamesAssumption
      DEF TypeOK, Registry, Roles, ExitNoticed, Threads, registry, jobs, own, clients,
          Goto
  <1>1. ASSUME NEW c \in Conns, Client(c) PROVE ExitNoticed'
    BY <1>1 DEF Client
  <1>2. ASSUME NEW t \in Threads, Setup(t) PROVE ExitNoticed'
    BY <1>2 DEF Setup, Test, Create, List
  <1>3. ASSUME NEW w \in Workers, Enter(w) PROVE ExitNoticed'
    BY <1>3 DEF Enter
  <1>4. ASSUME NEW w \in Workers, Take(w) PROVE ExitNoticed'
    BY <1>4 DEF Take
  <1>5. ASSUME NEW w \in Workers,
               NoJob(w) \/ Service(w) \/ Get(w) \/ NoneDone(w) \/ Put(w)
        PROVE  ExitNoticed'
    BY <1>5 DEF NoJob, Service, Get, NoneDone, Put
  <1>6. ASSUME NEW w \in Workers, NEW c \in Conns, Callback(w, c) PROVE ExitNoticed'
    BY <1>6 DEF Callback
  <1>7. ASSUME NEW w \in Workers, Perform(w) PROVE ExitNoticed'
    BY <1>7 DEF Perform, Drain
  <1>8. ASSUME NEW w \in Workers, Notify(w) PROVE ExitNoticed'
    BY <1>8 DEF Notify, Wakes, WakeAll
  <1>9. ASSUME NEW w \in Workers, Fini(w) PROVE ExitNoticed'
    BY <1>9 DEF Fini
  <1>10. ASSUME NEW w \in Workers, WakeFini(w) PROVE ExitNoticed'
    \* The main thread is on the list while it sleeps, and its pipe is open.
    <2>1. pc[Main] = "wait" => Main \in lstEPoll \cap open
      BY DEF RegistryCurrent, Listed
    <2> QED
      BY <1>10, <2>1 DEF WakeFini, FiniWakes, WakeAll
  <1>11. ASSUME NEW w \in Workers, Close(w) \/ Unlist(w) PROVE ExitNoticed'
    BY <1>11 DEF Close, Unlist
  <1>12. CASE Look \/ MainPerform
    BY <1>12 DEF Look, MainPerform
  <1>13. CASE UNCHANGED vars
    BY <1>13 DEF vars
  <1> QED
    BY <1>1, <1>2, <1>3, <1>4, <1>5, <1>6, <1>7, <1>8, <1>9, <1>10, <1>11, <1>12,
       <1>13
       DEF Next, Step, Call, Leave

\* A leaving worker has woken everybody who may sleep, the others being about to
\* look for work anyway.
LEMMA LeaverWakes ==
  ASSUME TypeOK, Registry, NEW w \in Workers, WakeFini(w)
  PROVE  \A v \in Staff' : ~Heading(v, {"get", "lp", "wait"})'
  <1> USE NamesAssumption DEF TypeOK, Threads, Goto
  <1> SUFFICES ASSUME NEW v \in Workers, v \in Staff', pc'[v] \in {"get", "lp", "wait"}
               PROVE  v \in byte'
    BY DEF Heading, Staff
  <1>1. v # w /\ pc[v] = pc'[v]
    BY DEF WakeFini
  <1>2. v \in lstEPoll /\ v \in open
    BY <1>1 DEF Registry, RegistryCurrent, Listed
  <1> QED
    BY <1>1, <1>2 DEF WakeFini, FiniWakes, WakeAll

LEMMA NextSocketSeen ==
  TypeOK /\ Registry /\ SocketSeen /\ [Next]_vars => SocketSeen'
  <1> SUFFICES ASSUME TypeOK, Registry, SocketSeen, [Next]_vars PROVE SocketSeen'
    OBVIOUS
  <1> USE NamesAssumption
      DEF TypeOK, SocketSeen, Staff, Heading, Threads, registry, jobs, own, clients,
          Goto
  <1>1. ASSUME NEW c \in Conns, Client(c) PROVE SocketSeen'
    BY <1>1 DEF Client
  <1>2. ASSUME NEW t \in Threads, Setup(t) PROVE SocketSeen'
    BY <1>2 DEF Setup, Test, Create, List
  <1>3. ASSUME NEW w \in Workers, Enter(w) \/ NoJob(w) \/ Service(w) PROVE SocketSeen'
    BY <1>3 DEF Enter, NoJob, Service
  <1>4. ASSUME NEW w \in Workers, Take(w) PROVE SocketSeen'
    BY <1>4 DEF Take
  <1>5. ASSUME NEW w \in Workers, Get(w) PROVE SocketSeen'
    BY <1>5 DEF Get
  <1>6. ASSUME NEW w \in Workers, NEW c \in Conns, Callback(w, c) PROVE SocketSeen'
    BY <1>6 DEF Callback
  <1>7. ASSUME NEW w \in Workers, Perform(w) PROVE SocketSeen'
    BY <1>7 DEF Perform, Drain
  <1>8. ASSUME NEW w \in Workers, NoneDone(w) \/ Put(w) PROVE SocketSeen'
    BY <1>8 DEF NoneDone, Put
  <1>9. ASSUME NEW w \in Workers, Notify(w) \/ Fini(w) PROVE SocketSeen'
    BY <1>9 DEF Notify, Fini
  <1>10. ASSUME NEW w \in Workers, WakeFini(w) PROVE SocketSeen'
    BY <1>10, LeaverWakes
  <1>11. ASSUME NEW w \in Workers, Close(w) \/ Unlist(w) PROVE SocketSeen'
    BY <1>11 DEF Close, Unlist
  <1>12. CASE Look \/ MainPerform
    BY <1>12 DEF Look, MainPerform, Drain
  <1>13. CASE UNCHANGED vars
    BY <1>13 DEF vars
  <1> QED
    BY <1>1, <1>2, <1>3, <1>4, <1>5, <1>6, <1>7, <1>8, <1>9, <1>10, <1>11, <1>12,
       <1>13
       DEF Next, Step, Call, Leave

LEMMA NextJobSeen ==
  TypeOK /\ Registry /\ JobSeen /\ [Next]_vars => JobSeen'
  <1> SUFFICES ASSUME TypeOK, Registry, JobSeen, [Next]_vars PROVE JobSeen'
    OBVIOUS
  <1> USE NamesAssumption
      DEF TypeOK, JobSeen, Staff, Heading, Threads, registry, jobs, own, clients,
          Goto
  <1>1. ASSUME NEW c \in Conns, Client(c) PROVE JobSeen'
    BY <1>1 DEF Client
  <1>2. ASSUME NEW t \in Threads, Setup(t) PROVE JobSeen'
    BY <1>2 DEF Setup, Test, Create, List
  <1>3. ASSUME NEW w \in Workers, Enter(w) \/ Service(w) \/ Get(w) PROVE JobSeen'
    BY <1>3 DEF Enter, Service, Get
  <1>4. ASSUME NEW w \in Workers, Take(w) PROVE JobSeen'
    BY <1>4 DEF Take
  <1>5. ASSUME NEW w \in Workers, NoJob(w) PROVE JobSeen'
    <2>1. ToSet(lstSvc') = {}
      BY <1>5 DEF NoJob, ToSet
    <2> QED
      BY <2>1
  <1>6. ASSUME NEW w \in Workers, NEW c \in Conns, Callback(w, c) PROVE JobSeen'
    <2>1. CASE pc[w] = "lp2"
      BY <1>6, <2>1 DEF Callback
    <2>2. CASE pc[w] = "lp"
      <3>1. ToSet(lstSvc') \ early' \subseteq ToSet(lstSvc) \ early
        <4>1. CASE lstSvc' = Append(lstSvc, c) /\ early' = early \cup {c}
          BY <4>1, ToSetOfAppend
        <4> QED
          BY <1>6, <2>2, <4>1 DEF Callback
      <3>2. UNCHANGED <<pc, byte>>
        BY <1>6 DEF Callback
      <3> QED
        BY <3>1, <3>2
    <2> QED
      BY <1>6, <2>1, <2>2 DEF Callback
  <1>7. ASSUME NEW w \in Workers, Perform(w) PROVE JobSeen'
    BY <1>7 DEF Perform, Drain
  <1>8. ASSUME NEW w \in Workers, NoneDone(w) \/ Put(w) PROVE JobSeen'
    BY <1>8 DEF NoneDone, Put
  <1>9. ASSUME NEW w \in Workers, Notify(w) \/ Fini(w) PROVE JobSeen'
    BY <1>9 DEF Notify, Fini
  <1>10. ASSUME NEW w \in Workers, WakeFini(w) PROVE JobSeen'
    BY <1>10, LeaverWakes
  <1>11. ASSUME NEW w \in Workers, Close(w) \/ Unlist(w) PROVE JobSeen'
    BY <1>11 DEF Close, Unlist
  <1>12. CASE Look \/ MainPerform
    BY <1>12 DEF Look, MainPerform, Drain
  <1>13. CASE UNCHANGED vars
    BY <1>13 DEF vars
  <1> QED
    BY <1>1, <1>2, <1>3, <1>4, <1>5, <1>6, <1>7, <1>8, <1>9, <1>10, <1>11, <1>12,
       <1>13
       DEF Next, Step, Call, Leave

-----------------------------------------------------------------------------
\* The inductive invariant of the registry and of waking.
THEOREM Invariant == Spec => []IInv
  <1>1. IInv /\ [Next]_vars => IInv'
    BY NextTypeOK, NextRegistry, NextExitNoticed, NextSocketSeen, NextJobSeen DEF IInv
  <1> QED
    BY InitIInv, <1>1, PTL DEF Spec

\* sockets.rs: types, the jobs of the first lp() being among those queued.
THEOREM TypeCorrect == Spec => []TypeOK
  <1>1. IInv => TypeOK
    BY DEF IInv
  <1> QED
    BY <1>1, Invariant, PTL

\* EPoll::new and EPoll::drop: wakeAll reaches every thread that has an EPoll, and a
\* closed wake pipe is listed only while its worker is in drop.
THEOREM RegistryIsCurrent == Spec => []RegistryCurrent
  <1>1. IInv => RegistryCurrent
    BY DEF IInv, Registry
  <1> QED
    BY <1>1, Invariant, PTL

\* can_exit: the main thread does not sleep over the end of the pool.
THEOREM ExitIsNoticed == Spec => []ExitNoticed
  <1>1. IInv => ExitNoticed
    BY DEF IInv
  <1> QED
    BY <1>1, Invariant, PTL

\* Server::call: whatever number of workers share sockets and queue jobs, somebody is
\* awake to see them, the jobs of a first lp() excepted.
THEOREM NobodySleepsOver == Spec => []NoSleepOver
  <1>1. IInv => NoSleepOver
    BY DEF IInv, SocketSeen, JobSeen, NoSleepOver, Heading, Asleep
  <1> QED
    BY <1>1, Invariant, PTL

=============================================================================
