---------------------------- MODULE ServerProofs ----------------------------
(***************************************************************************)
(* Safety of the thread pool for any number of threads and any bounds:     *)
(* threadsAvail_ never underflows and counts the idle workers exactly,     *)
(* lstCntrlM_ has one holder, lstCntrl_ and rt describe the live workers,  *)
(* and the pool is bounded.                                                *)
(***************************************************************************)
EXTENDS Server, FiniteSetTheorems, TLAPS

\* lstCntrlM_ is held across calls exactly by the worker inside lines 246-259.
CntrlHeld == \A t \in Threads : pc[t] \in {"grow", "retire"} <=> cntrlM = t

\* A worker is not flagged before it has registered.
Fresh == \A t \in Threads :
           pc[t] \in {"none", "spawned", "register"} => ~shutdown[t]

\* A worker that puts a socket back has one.
Returned == \A t \in Threads : pc[t] = "requeue" => job[t] # NoJob

\* lstCntrl_ holds the workers between their registration and fini.
Registered == lstCntrl = At(RegisteredPoints)

\* rt counts the workers inside Server::call and fini.
RtCounts == rt = Cardinality(Running)

\* threadsAvail_ covers the idle workers: a count of zero means that there are none.
AvailCoversIdle == threadsAvail >= Cardinality(Idle)

\* A worker about to start another one has seen the count at zero: the only
\* threads that have yet to run were started by command since.
LastSpawned ==
  (\E t \in Threads : pc[t] = "grow") => Cardinality(Spawned) <= started

Control == TypeOK /\ CntrlHeld /\ Fresh /\ Returned /\ Registered

IInv == /\ Control
        /\ AvailCountsIdle
        /\ RtCounts
        /\ LastSpawned
        /\ ThreadBound

-----------------------------------------------------------------------------
(* Counting workers.                                                       *)

LEMMA CountAdd ==
  ASSUME NEW S \in SUBSET Threads, NEW t \in Threads, t \notin S
  PROVE  Cardinality(S \cup {t}) = Cardinality(S) + 1
  <1>1. IsFiniteSet(S)
    BY ThreadsAssumption, FS_Subset
  <1> QED
    BY <1>1, FS_AddElement

LEMMA CountRemove ==
  ASSUME NEW S \in SUBSET Threads, NEW t \in S
  PROVE  Cardinality(S \ {t}) = Cardinality(S) - 1
  <1>1. IsFiniteSet(S)
    BY ThreadsAssumption, FS_Subset
  <1> QED
    BY <1>1, FS_RemoveElement

LEMMA CountType ==
  ASSUME NEW S \in SUBSET Threads
  PROVE  /\ Cardinality(S) \in Nat
         /\ Cardinality(S) = 0 <=> S = {}
  <1>1. IsFiniteSet(S)
    BY ThreadsAssumption, FS_Subset
  <1> QED
    BY <1>1, FS_CardinalityType, FS_EmptySet

LEMMA CountSubset ==
  ASSUME NEW S \in SUBSET Threads, NEW R \in SUBSET S
  PROVE  Cardinality(R) <= Cardinality(S)
  BY ThreadsAssumption, FS_Subset

-----------------------------------------------------------------------------
(* The control part: one step per action.                                  *)

LEMMA InitControl == Init => Control
  BY ThreadsAssumption, BoundsAssumption
     DEF Init, Control, TypeOK, CntrlHeld, Fresh, Returned, Registered, At, Points,
         RegisteredPoints, RunningPoints, JobKinds

\* The exact count covers the idle workers.
LEMMA CountsCover ==
  ASSUME Control, AvailCountsIdle
  PROVE  AvailCoversIdle
  <1>1. Idle \in SUBSET Threads
    BY DEF Idle, At
  <1>2. Cardinality(Idle) \in Nat /\ abandoned \in Nat
    BY <1>1, CountType DEF Control, TypeOK
  <1> QED
    BY <1>2 DEF AvailCountsIdle, AvailCoversIdle

\* A count that a worker of Idle lowers is positive.
LEMMA ClaimPositive ==
  ASSUME Control, AvailCoversIdle, NEW t \in Threads, Claim(t), ~shutdown[t]
  PROVE  threadsAvail >= 1
  <1>1. t \in Idle /\ Idle \in SUBSET Threads
    BY DEF Claim, Stands, Idle, At, CreditPoints
  <1>2. Cardinality(Idle) \in Nat /\ Cardinality(Idle) # 0
    BY <1>1, CountType
  <1>3. threadsAvail \in Nat /\ threadsAvail >= Cardinality(Idle)
    BY DEF AvailCoversIdle, Control, TypeOK
  <1> QED
    BY <1>2, <1>3

\* The same for rt and a worker that leaves.
LEMMA LeavePositive ==
  ASSUME Control, RtCounts, NEW t \in Threads, Leave(t)
  PROVE  rt >= 1
  <1>1. t \in Running /\ Running \in SUBSET Threads
    BY DEF Leave, Stands, Running, At, RunningPoints, Points
  <1> QED
    BY <1>1, CountType DEF RtCounts

LEMMA NextControl ==
  Control /\ AvailCoversIdle /\ RtCounts /\ [Next]_vars => Control'
  <1> SUFFICES ASSUME Control, AvailCoversIdle, RtCounts, [Next]_vars
               PROVE  Control'
    OBVIOUS
  <1> USE ThreadsAssumption, BoundsAssumption
      DEF Control, TypeOK, CntrlHeld, Fresh, Returned, Registered, At, Goto,
          Stands, CntrlFree, Points, RegisteredPoints, RunningPoints, JobKinds,
          NoJob, worker, queues, counts, cntrl, history, shared
  <1>1. ASSUME NEW t \in Threads, Enter(t) PROVE Control'
    BY <1>1 DEF Enter
  <1>2. ASSUME NEW t \in Threads, Register(t) PROVE Control'
    BY <1>2 DEF Register
  <1>3. ASSUME NEW t \in Threads, TakeJob(t) PROVE Control'
    BY <1>3 DEF TakeJob
  <1>4. ASSUME NEW t \in Threads, TakeLow(t) PROVE Control'
    BY <1>4 DEF TakeLow, LowAllowed
  <1>5. ASSUME NEW t \in Threads, NoMore(t) PROVE Control'
    BY <1>5 DEF NoMore, LowAllowed
  <1>6. ASSUME NEW t \in Threads, Claim(t) PROVE Control'
    <2>1. CASE shutdown[t]
      BY <1>6, <2>1 DEF Claim
    <2>2. CASE ~shutdown[t]
      <3>1. threadsAvail - 1 \in Nat
        <4>1. threadsAvail >= 1
          BY <1>6, <2>2, ClaimPositive
        <4> QED
          BY <4>1
      <3>2. CASE threadsAvail - 1 = 0
        BY <1>6, <2>2, <3>1, <3>2 DEF Claim, Last
      <3>3. CASE threadsAvail - 1 # 0
        BY <1>6, <2>2, <3>1, <3>3 DEF Claim, Last
      <3> QED
        BY <3>2, <3>3
    <2> QED
      BY <2>1, <2>2
  <1>7. ASSUME NEW t \in Threads, Grow(t) PROVE Control'
    <2>1. ASSUME NEW u \in Threads, pc[u] = "none",
                 pc' = [pc EXCEPT ![t] = "service", ![u] = "spawned"],
                 threadsAvail' = threadsAvail + 1
          PROVE  Control'
      <3>1. /\ t # u /\ pc' \in [Threads -> Points]
            /\ pc'[t] = "service" /\ pc'[u] = "spawned"
            /\ \A v \in Threads \ {t, u} : pc'[v] = pc[v]
        BY <1>7, <2>1 DEF Grow
      <3>2. pc[t] = "grow" /\ cntrlM = t /\ cntrlM' = NoThread
        BY <1>7 DEF Grow
      <3>3. /\ UNCHANGED <<worker, lstCntrl, queues, rt, main, history>>
            /\ threadsAvail' \in Nat
        BY <1>7, <2>1 DEF Grow
      <3>4. TypeOK'
        BY <3>1, <3>2, <3>3
      <3>5. CntrlHeld'
        BY <3>1, <3>2
      <3>6. Fresh' /\ Returned'
        BY <2>1, <3>1, <3>3
      <3>7. Registered'
        BY <2>1, <3>1, <3>2, <3>3
      <3> QED
        BY <3>4, <3>5, <3>6, <3>7
    <2>2. CASE Goto(t, "service") /\ UNCHANGED threadsAvail
      BY <1>7, <2>2 DEF Grow
    <2> QED
      BY <1>7, <2>1, <2>2 DEF Grow
  <1>8. ASSUME NEW t \in Threads, Retire(t) PROVE Control'
    BY <1>8 DEF Retire, MayRetire
  <1>9. ASSUME NEW t \in Threads, Reply(t) PROVE Control'
    BY <1>9 DEF Reply, Wrote
  <1>10. ASSUME NEW t \in Threads, PrepareRequest(t) PROVE Control'
    BY <1>10 DEF PrepareRequest
  <1>11. ASSUME NEW t \in Threads, CommandShutdown(t) PROVE Control'
    <2>1. Cardinality(Idle \cap lstCntrl) \in Nat
      BY CountType DEF Idle
    <2> QED
      BY <1>11, <2>1 DEF CommandShutdown
  <1>12. ASSUME NEW t \in Threads, CommandStart(t) PROVE Control'
    BY <1>12 DEF CommandStart
  <1>13. ASSUME NEW t \in Threads, StartOne(t) PROVE Control'
    BY <1>13 DEF StartOne
  <1>14. ASSUME NEW t \in Threads, StartedAll(t) PROVE Control'
    BY <1>14 DEF StartedAll, Wrote
  <1>15. ASSUME NEW t \in Threads, Panic(t) PROVE Control'
    BY <1>15 DEF Panic
  <1>16. ASSUME NEW t \in Threads, Finish(t) PROVE Control'
    BY <1>16 DEF Finish, Credit, Least
  <1>17. ASSUME NEW t \in Threads, Requeue(t) PROVE Control'
    BY <1>17 DEF Requeue
  <1>18. ASSUME NEW t \in Threads, Poll(t) PROVE Control'
    BY <1>18 DEF Poll, Drained
  <1>19. ASSUME NEW t \in Threads, CheckShutdown(t) PROVE Control'
    BY <1>19 DEF CheckShutdown
  <1>20. ASSUME NEW t \in Threads, Unregister(t) PROVE Control'
    BY <1>20 DEF Unregister, Without
  <1>21. ASSUME NEW t \in Threads, Leave(t) PROVE Control'
    <2>1. rt >= 1
      BY <1>21, LeavePositive
    <2> QED
      BY <1>21, <2>1 DEF Leave
  <1>22. ASSUME NEW t \in Threads, Exit(t) PROVE Control'
    BY <1>22 DEF Exit
  <1>23. ASSUME NEW t \in Threads, Submit(t) PROVE Control'
    BY <1>23, KindsAssumption DEF Submit
  <1>24. CASE CanExit
    BY <1>24 DEF CanExit
  <1>25. CASE UNCHANGED vars
    BY <1>25 DEF vars
  <1> QED
    BY <1>1, <1>2, <1>3, <1>4, <1>5, <1>6, <1>7, <1>8, <1>9, <1>10, <1>11, <1>12, <1>13, <1>14, <1>15, <1>16, <1>17, <1>18, <1>19, <1>20, <1>21, <1>22, <1>23, <1>24, <1>25 DEF Next, Step, Service

-----------------------------------------------------------------------------
(* rt.                                                                     *)

LEMMA NextRt ==
  Control /\ RtCounts /\ [Next]_vars => RtCounts'
  <1> SUFFICES ASSUME Control, RtCounts, [Next]_vars
               PROVE  RtCounts'
    OBVIOUS
  <1> USE DEF Running, RunningPoints, Points, At, Goto, Stands, Control, TypeOK,
              worker, queues, counts, cntrl, history, shared
  <1>1. ASSUME NEW t \in Threads, Enter(t) PROVE RtCounts'
    <2>1. Running' = Running \cup {t} /\ t \notin Running /\ rt' = rt + 1
      BY <1>1 DEF Enter
    <2> QED
      BY <2>1, CountAdd DEF RtCounts
  <1>2. ASSUME NEW t \in Threads, Register(t) PROVE RtCounts'
    <2>1. Running' = Running /\ rt' = rt
      BY <1>2 DEF Register
    <2> QED
      BY <2>1 DEF RtCounts
  <1>3. ASSUME NEW t \in Threads, TakeJob(t) PROVE RtCounts'
    <2>1. Running' = Running /\ rt' = rt
      BY <1>3 DEF TakeJob
    <2> QED
      BY <2>1 DEF RtCounts
  <1>4. ASSUME NEW t \in Threads, TakeLow(t) PROVE RtCounts'
    <2>1. Running' = Running /\ rt' = rt
      BY <1>4 DEF TakeLow
    <2> QED
      BY <2>1 DEF RtCounts
  <1>5. ASSUME NEW t \in Threads, NoMore(t) PROVE RtCounts'
    <2>1. Running' = Running /\ rt' = rt
      BY <1>5 DEF NoMore
    <2> QED
      BY <2>1 DEF RtCounts
  <1>6. ASSUME NEW t \in Threads, Claim(t) PROVE RtCounts'
    <2>1. Running' = Running /\ rt' = rt
      BY <1>6 DEF Claim
    <2> QED
      BY <2>1 DEF RtCounts
  <1>7. ASSUME NEW t \in Threads, Grow(t) PROVE RtCounts'
    <2>1. Running' = Running /\ rt' = rt
      BY <1>7 DEF Grow
    <2> QED
      BY <2>1 DEF RtCounts
  <1>8. ASSUME NEW t \in Threads, Retire(t) PROVE RtCounts'
    <2>1. Running' = Running /\ rt' = rt
      BY <1>8 DEF Retire
    <2> QED
      BY <2>1 DEF RtCounts
  <1>9. ASSUME NEW t \in Threads, Reply(t) PROVE RtCounts'
    <2>1. Running' = Running /\ rt' = rt
      BY <1>9 DEF Reply
    <2> QED
      BY <2>1 DEF RtCounts
  <1>10. ASSUME NEW t \in Threads, PrepareRequest(t) PROVE RtCounts'
    <2>1. Running' = Running /\ rt' = rt
      BY <1>10 DEF PrepareRequest
    <2> QED
      BY <2>1 DEF RtCounts
  <1>11. ASSUME NEW t \in Threads, CommandShutdown(t) PROVE RtCounts'
    <2>1. Running' = Running /\ rt' = rt
      BY <1>11 DEF CommandShutdown
    <2> QED
      BY <2>1 DEF RtCounts
  <1>12. ASSUME NEW t \in Threads, CommandStart(t) PROVE RtCounts'
    <2>1. Running' = Running /\ rt' = rt
      BY <1>12 DEF CommandStart
    <2> QED
      BY <2>1 DEF RtCounts
  <1>13. ASSUME NEW t \in Threads, StartOne(t) PROVE RtCounts'
    <2>1. Running' = Running /\ rt' = rt
      BY <1>13 DEF StartOne
    <2> QED
      BY <2>1 DEF RtCounts
  <1>14. ASSUME NEW t \in Threads, StartedAll(t) PROVE RtCounts'
    <2>1. Running' = Running /\ rt' = rt
      BY <1>14 DEF StartedAll
    <2> QED
      BY <2>1 DEF RtCounts
  <1>15. ASSUME NEW t \in Threads, Panic(t) PROVE RtCounts'
    <2>1. Running' = Running /\ rt' = rt
      BY <1>15 DEF Panic
    <2> QED
      BY <2>1 DEF RtCounts
  <1>16. ASSUME NEW t \in Threads, Finish(t) PROVE RtCounts'
    <2>1. Running' = Running /\ rt' = rt
      BY <1>16 DEF Finish
    <2> QED
      BY <2>1 DEF RtCounts
  <1>17. ASSUME NEW t \in Threads, Requeue(t) PROVE RtCounts'
    <2>1. Running' = Running /\ rt' = rt
      BY <1>17 DEF Requeue
    <2> QED
      BY <2>1 DEF RtCounts
  <1>18. ASSUME NEW t \in Threads, Poll(t) PROVE RtCounts'
    <2>1. Running' = Running /\ rt' = rt
      BY <1>18 DEF Poll
    <2> QED
      BY <2>1 DEF RtCounts
  <1>19. ASSUME NEW t \in Threads, CheckShutdown(t) PROVE RtCounts'
    <2>1. Running' = Running /\ rt' = rt
      BY <1>19 DEF CheckShutdown
    <2> QED
      BY <2>1 DEF RtCounts
  <1>20. ASSUME NEW t \in Threads, Unregister(t) PROVE RtCounts'
    <2>1. Running' = Running /\ rt' = rt
      BY <1>20 DEF Unregister
    <2> QED
      BY <2>1 DEF RtCounts
  <1>21. ASSUME NEW t \in Threads, Leave(t) PROVE RtCounts'
    <2>1. Running' = Running \ {t} /\ t \in Running /\ rt' = rt - 1
      BY <1>21 DEF Leave
    <2> QED
      BY <2>1, CountRemove DEF RtCounts
  <1>22. ASSUME NEW t \in Threads, Exit(t) PROVE RtCounts'
    <2>1. Running' = Running /\ rt' = rt
      BY <1>22 DEF Exit
    <2> QED
      BY <2>1 DEF RtCounts
  <1>23. ASSUME NEW t \in Threads, Submit(t) PROVE RtCounts'
    <2>1. Running' = Running /\ rt' = rt
      BY <1>23 DEF Submit
    <2> QED
      BY <2>1 DEF RtCounts
  <1>24. CASE CanExit
    <2>1. Running' = Running /\ rt' = rt
      BY <1>24 DEF CanExit
    <2> QED
      BY <2>1 DEF RtCounts
  <1>25. CASE UNCHANGED vars
    BY <1>25 DEF vars, RtCounts
  <1> QED
    BY <1>1, <1>2, <1>3, <1>4, <1>5, <1>6, <1>7, <1>8, <1>9, <1>10,
       <1>11, <1>12, <1>13, <1>14, <1>15, <1>16, <1>17, <1>18,
       <1>19, <1>20, <1>21, <1>22, <1>23, <1>24, <1>25
       DEF Next, Step, Service

-----------------------------------------------------------------------------
(* threadsAvail_.                                                          *)

LEMMA CountedSame ==
  ASSUME AvailCountsIdle, Idle' = Idle, abandoned' = abandoned,
         threadsAvail' = threadsAvail
  PROVE  AvailCountsIdle'
  BY DEF AvailCountsIdle

LEMMA CountedAdd ==
  ASSUME Control, AvailCountsIdle, NEW u \in Threads, u \notin Idle,
         Idle' = Idle \cup {u}, abandoned' = abandoned,
         threadsAvail' = threadsAvail + 1
  PROVE  AvailCountsIdle'
  <1>1. Idle \in SUBSET Threads
    BY DEF Idle, At
  <1>2. Cardinality(Idle') = Cardinality(Idle) + 1 /\ Cardinality(Idle) \in Nat
    BY <1>1, CountAdd, CountType
  <1>3. threadsAvail \in Nat /\ abandoned \in Nat
    BY DEF Control, TypeOK
  <1> QED
    BY <1>2, <1>3 DEF AvailCountsIdle

LEMMA CountedRemove ==
  ASSUME Control, AvailCountsIdle, NEW t \in Idle,
         Idle' = Idle \ {t}, abandoned' = abandoned,
         threadsAvail' = threadsAvail - 1
  PROVE  AvailCountsIdle'
  <1>1. Idle \in SUBSET Threads
    BY DEF Idle, At
  <1>2. Cardinality(Idle') = Cardinality(Idle) - 1 /\ Cardinality(Idle) \in Nat
    BY <1>1, CountRemove, CountType
  <1>3. threadsAvail \in Nat /\ abandoned \in Nat
    BY DEF Control, TypeOK
  <1> QED
    BY <1>2, <1>3 DEF AvailCountsIdle

\* The credits of the idle workers that a command flags are written off.
LEMMA CountedAbandon ==
  ASSUME Control, AvailCountsIdle, NEW L \in SUBSET Threads, Idle' = Idle \ L,
         abandoned' = abandoned + Cardinality(Idle \cap L),
         threadsAvail' = threadsAvail
  PROVE  AvailCountsIdle'
  <1>1. Idle \in SUBSET Threads /\ IsFiniteSet(Idle)
    <2>1. Idle \in SUBSET Threads
      BY DEF Idle, At
    <2> QED
      BY <2>1, ThreadsAssumption, FS_Subset
  <1>2. Cardinality(Idle') = Cardinality(Idle) - Cardinality(Idle \cap L)
    BY <1>1, FS_Difference
  <1>3. Cardinality(Idle) \in Nat /\ Cardinality(Idle \cap L) \in Nat
    BY <1>1, CountType
  <1>4. threadsAvail \in Nat /\ abandoned \in Nat
    BY DEF Control, TypeOK
  <1> QED
    BY <1>2, <1>3, <1>4 DEF AvailCountsIdle

LEMMA NextAvail ==
  Control /\ AvailCountsIdle /\ [Next]_vars => AvailCountsIdle'
  <1> SUFFICES ASSUME Control, AvailCountsIdle, [Next]_vars
               PROVE  AvailCountsIdle'
    OBVIOUS
  <1> USE DEF Idle, CreditPoints, Points, At, Goto, Stands, Control, TypeOK, Fresh,
              worker, queues, counts, cntrl, history, shared
  <1>1. ASSUME NEW t \in Threads, Enter(t) PROVE AvailCountsIdle'
    <2>1. /\ Idle' = Idle /\ abandoned' = abandoned
          /\ threadsAvail' = threadsAvail
      BY <1>1 DEF Enter
    <2> QED
      BY <2>1, CountedSame
  <1>2. ASSUME NEW t \in Threads, Register(t) PROVE AvailCountsIdle'
    <2>1. /\ Idle' = Idle /\ abandoned' = abandoned
          /\ threadsAvail' = threadsAvail
      BY <1>2 DEF Register
    <2> QED
      BY <2>1, CountedSame
  <1>3. ASSUME NEW t \in Threads, TakeJob(t) PROVE AvailCountsIdle'
    <2>1. /\ Idle' = Idle /\ abandoned' = abandoned
          /\ threadsAvail' = threadsAvail
      BY <1>3 DEF TakeJob
    <2> QED
      BY <2>1, CountedSame
  <1>4. ASSUME NEW t \in Threads, TakeLow(t) PROVE AvailCountsIdle'
    <2>1. /\ Idle' = Idle /\ abandoned' = abandoned
          /\ threadsAvail' = threadsAvail
      BY <1>4 DEF TakeLow
    <2> QED
      BY <2>1, CountedSame
  <1>5. ASSUME NEW t \in Threads, NoMore(t) PROVE AvailCountsIdle'
    <2>1. /\ Idle' = Idle /\ abandoned' = abandoned
          /\ threadsAvail' = threadsAvail
      BY <1>5 DEF NoMore
    <2> QED
      BY <2>1, CountedSame
  <1>6. ASSUME NEW t \in Threads, Claim(t) PROVE AvailCountsIdle'
    <2>1. CASE shutdown[t]
      <3>1. /\ Idle' = Idle /\ abandoned' = abandoned
            /\ threadsAvail' = threadsAvail
        BY <1>6, <2>1 DEF Claim
      <3> QED
        BY <3>1, CountedSame
    <2>2. CASE ~shutdown[t]
      <3>1. pc' = [pc EXCEPT ![t] = pc'[t]] /\ pc'[t] \in {"grow", "retire"}
        BY <1>6, <2>2 DEF Claim
      <3>2. /\ Idle' = Idle \ {t} /\ t \in Idle /\ abandoned' = abandoned
            /\ threadsAvail' = threadsAvail - 1
        BY <1>6, <2>2, <3>1 DEF Claim
      <3> QED
        BY <3>2, CountedRemove
    <2> QED
      BY <2>1, <2>2
  <1>7. ASSUME NEW t \in Threads, Grow(t) PROVE AvailCountsIdle'
    <2>1. ASSUME NEW u \in At({"none"}), threadsAvail' = threadsAvail + 1,
                 pc' = [pc EXCEPT ![t] = "service", ![u] = "spawned"]
          PROVE  AvailCountsIdle'
      <3>1. Idle' = Idle \cup {u} /\ u \notin Idle /\ abandoned' = abandoned
        BY <1>7, <2>1 DEF Grow
      <3> QED
        BY <2>1, <3>1, CountedAdd
    <2>2. CASE Goto(t, "service") /\ UNCHANGED threadsAvail
      <3>1. Idle' = Idle /\ abandoned' = abandoned
        BY <1>7, <2>2 DEF Grow
      <3> QED
        BY <2>2, <3>1, CountedSame
    <2> QED
      BY <1>7, <2>1, <2>2 DEF Grow
  <1>8. ASSUME NEW t \in Threads, Retire(t) PROVE AvailCountsIdle'
    <2>1. /\ Idle' = Idle /\ abandoned' = abandoned
          /\ threadsAvail' = threadsAvail
      BY <1>8 DEF Retire, MayRetire
    <2> QED
      BY <2>1, CountedSame
  <1>9. ASSUME NEW t \in Threads, Reply(t) PROVE AvailCountsIdle'
    <2>1. /\ Idle' = Idle /\ abandoned' = abandoned
          /\ threadsAvail' = threadsAvail
      BY <1>9 DEF Reply
    <2> QED
      BY <2>1, CountedSame
  <1>10. ASSUME NEW t \in Threads, PrepareRequest(t) PROVE AvailCountsIdle'
    <2>1. /\ Idle' = Idle /\ abandoned' = abandoned
          /\ threadsAvail' = threadsAvail
      BY <1>10 DEF PrepareRequest
    <2> QED
      BY <2>1, CountedSame
  <1>11. ASSUME NEW t \in Threads, CommandShutdown(t) PROVE AvailCountsIdle'
    <2>1. /\ Idle' = Idle \ lstCntrl /\ threadsAvail' = threadsAvail
          /\ abandoned' = abandoned + Cardinality(Idle \cap lstCntrl)
      BY <1>11 DEF CommandShutdown
    <2>2. lstCntrl \in SUBSET Threads
      OBVIOUS
    <2> QED
      BY <2>1, <2>2, CountedAbandon
  <1>12. ASSUME NEW t \in Threads, CommandStart(t) PROVE AvailCountsIdle'
    <2>1. /\ Idle' = Idle /\ abandoned' = abandoned
          /\ threadsAvail' = threadsAvail
      BY <1>12 DEF CommandStart
    <2> QED
      BY <2>1, CountedSame
  <1>13. ASSUME NEW t \in Threads, StartOne(t) PROVE AvailCountsIdle'
    <2>1. PICK u \in At({"none"}) : pc' = [pc EXCEPT ![u] = "spawned"]
      BY <1>13 DEF StartOne
    <2>2. /\ Idle' = Idle \cup {u} /\ u \notin Idle /\ abandoned' = abandoned
          /\ threadsAvail' = threadsAvail + 1
      BY <1>13, <2>1 DEF StartOne
    <2> QED
      BY <2>1, <2>2, CountedAdd
  <1>14. ASSUME NEW t \in Threads, StartedAll(t) PROVE AvailCountsIdle'
    <2>1. /\ Idle' = Idle /\ abandoned' = abandoned
          /\ threadsAvail' = threadsAvail
      BY <1>14 DEF StartedAll
    <2> QED
      BY <2>1, CountedSame
  <1>15. ASSUME NEW t \in Threads, Panic(t) PROVE AvailCountsIdle'
    <2>1. /\ Idle' = Idle /\ abandoned' = abandoned
          /\ threadsAvail' = threadsAvail
      BY <1>15 DEF Panic
    <2> QED
      BY <2>1, CountedSame
  <1>16. ASSUME NEW t \in Threads, Finish(t) PROVE AvailCountsIdle'
    <2>1. pc' = [pc EXCEPT ![t] = pc'[t]] /\ pc'[t] \in {"take", "requeue"}
      BY <1>16 DEF Finish
    <2>2. CASE shutdown[t]
      <3>1. /\ Idle' = Idle /\ abandoned' = abandoned
            /\ threadsAvail' = threadsAvail
        BY <1>16, <2>1, <2>2 DEF Finish, Credit
      <3> QED
        BY <3>1, CountedSame
    <2>3. CASE ~shutdown[t]
      <3>1. /\ Idle' = Idle \cup {t} /\ t \notin Idle /\ abandoned' = abandoned
            /\ threadsAvail' = threadsAvail + 1
        BY <1>16, <2>1, <2>3 DEF Finish, Credit
      <3> QED
        BY <3>1, CountedAdd
    <2> QED
      BY <2>2, <2>3
  <1>17. ASSUME NEW t \in Threads, Requeue(t) PROVE AvailCountsIdle'
    <2>1. /\ Idle' = Idle /\ abandoned' = abandoned
          /\ threadsAvail' = threadsAvail
      BY <1>17 DEF Requeue
    <2> QED
      BY <2>1, CountedSame
  <1>18. ASSUME NEW t \in Threads, Poll(t) PROVE AvailCountsIdle'
    <2>1. /\ Idle' = Idle /\ abandoned' = abandoned
          /\ threadsAvail' = threadsAvail
      BY <1>18 DEF Poll, Drained
    <2> QED
      BY <2>1, CountedSame
  <1>19. ASSUME NEW t \in Threads, CheckShutdown(t) PROVE AvailCountsIdle'
    <2>1. /\ Idle' = Idle /\ abandoned' = abandoned
          /\ threadsAvail' = threadsAvail
      BY <1>19 DEF CheckShutdown
    <2> QED
      BY <2>1, CountedSame
  <1>20. ASSUME NEW t \in Threads, Unregister(t) PROVE AvailCountsIdle'
    <2>1. /\ Idle' = Idle /\ abandoned' = abandoned
          /\ threadsAvail' = threadsAvail
      BY <1>20 DEF Unregister
    <2> QED
      BY <2>1, CountedSame
  <1>21. ASSUME NEW t \in Threads, Leave(t) PROVE AvailCountsIdle'
    <2>1. /\ Idle' = Idle /\ abandoned' = abandoned
          /\ threadsAvail' = threadsAvail
      BY <1>21 DEF Leave
    <2> QED
      BY <2>1, CountedSame
  <1>22. ASSUME NEW t \in Threads, Exit(t) PROVE AvailCountsIdle'
    <2>1. /\ Idle' = Idle /\ abandoned' = abandoned
          /\ threadsAvail' = threadsAvail
      BY <1>22 DEF Exit
    <2> QED
      BY <2>1, CountedSame
  <1>23. ASSUME NEW t \in Threads, Submit(t) PROVE AvailCountsIdle'
    <2>1. /\ Idle' = Idle /\ abandoned' = abandoned
          /\ threadsAvail' = threadsAvail
      BY <1>23 DEF Submit
    <2> QED
      BY <2>1, CountedSame
  <1>24. CASE CanExit
    <2>1. /\ Idle' = Idle /\ abandoned' = abandoned
          /\ threadsAvail' = threadsAvail
      BY <1>24 DEF CanExit
    <2> QED
      BY <2>1, CountedSame
  <1>25. CASE UNCHANGED vars
    BY <1>25 DEF vars, AvailCountsIdle
  <1> QED
    BY <1>1, <1>2, <1>3, <1>4, <1>5, <1>6, <1>7, <1>8, <1>9, <1>10,
       <1>11, <1>12, <1>13, <1>14, <1>15, <1>16, <1>17, <1>18,
       <1>19, <1>20, <1>21, <1>22, <1>23, <1>24, <1>25
       DEF Next, Step, Service

-----------------------------------------------------------------------------
(* The bound on the pool.                                                  *)

Bounded == LastSpawned /\ ThreadBound

Growing == At({"grow"})

\* A step that starts no thread, counts none and lets no worker start to grow.
LEMMA BoundKept ==
  ASSUME Control, Bounded, Spawned' = Spawned, Growing' \subseteq Growing,
         rt' = rt, started' = started
  PROVE  Bounded'
  BY DEF Bounded, LastSpawned, ThreadBound, Growing, At

LEMMA SpawnedType ==
  Control => /\ Spawned \in SUBSET Threads
             /\ Cardinality(Spawned) \in Nat /\ rt \in Nat /\ started \in Nat
             /\ MaxThreads \in Nat
  BY CountType, BoundsAssumption DEF Control, TypeOK, Spawned, At

\* The same for a step that starts or counts no more threads than it allows for.
LEMMA BoundMoved ==
  ASSUME Control, Control', Bounded, Growing' \subseteq Growing,
         Cardinality(Spawned') - started' <= Cardinality(Spawned) - started,
         rt' + Cardinality(Spawned') - started' <= rt + Cardinality(Spawned) - started
  PROVE  Bounded'
  <1>1. /\ Cardinality(Spawned) \in Nat /\ rt \in Nat /\ started \in Nat
        /\ Cardinality(Spawned') \in Nat /\ rt' \in Nat /\ started' \in Nat
        /\ MaxThreads \in Nat
    <2>1. Spawned' \in SUBSET Threads
      BY DEF Spawned, At
    <2> QED
      BY <2>1, SpawnedType, CountType DEF Control, TypeOK
  <1>2. LastSpawned'
    <2>1. ASSUME NEW t \in Threads, pc'[t] = "grow"
          PROVE  Cardinality(Spawned') <= started'
      <3>1. Cardinality(Spawned) <= started
        BY <2>1 DEF Bounded, LastSpawned, Growing, At
      <3> QED
        BY <1>1, <3>1
    <2> QED
      BY <2>1 DEF LastSpawned
  <1>3. ThreadBound'
    <2>1. rt + Cardinality(Spawned) <= MaxThreads + started
      BY DEF Bounded, ThreadBound
    <2> QED
      BY <1>1, <2>1 DEF ThreadBound
  <1> QED
    BY <1>2, <1>3 DEF Bounded

LEMMA SpawnedAdd ==
  ASSUME NEW u \in Threads, u \notin Spawned, Spawned' = Spawned \cup {u}
  PROVE  Cardinality(Spawned') = Cardinality(Spawned) + 1
  <1>1. Spawned \in SUBSET Threads
    BY DEF Spawned, At
  <1> QED
    BY <1>1, CountAdd

LEMMA SpawnedRemove ==
  ASSUME NEW u \in Spawned, Spawned' = Spawned \ {u}
  PROVE  Cardinality(Spawned') = Cardinality(Spawned) - 1
  <1>1. Spawned \in SUBSET Threads
    BY DEF Spawned, At
  <1> QED
    BY <1>1, CountRemove

LEMMA NextBounded ==
  Control /\ Control' /\ AvailCoversIdle' /\ Bounded /\ [Next]_vars => Bounded'
  <1> SUFFICES ASSUME Control, Control', AvailCoversIdle', Bounded, [Next]_vars
               PROVE  Bounded'
    OBVIOUS
  <1>0. /\ Spawned \in SUBSET Threads /\ Spawned' \in SUBSET Threads
        /\ Cardinality(Spawned) \in Nat /\ Cardinality(Spawned') \in Nat
        /\ rt \in Nat /\ started \in Nat /\ MaxThreads \in Nat
    BY SpawnedType, CountType DEF Spawned, At
  <1>a. pc \in [Threads -> Points]
    BY DEF Control, TypeOK
  <1> USE DEF Points, Goto, Stands,
              worker, queues, counts, cntrl, history, shared
  <1>1. ASSUME NEW t \in Threads, Enter(t) PROVE Bounded'
    <2>1. /\ Spawned' = Spawned \ {t} /\ t \in Spawned
          /\ rt' = rt + 1 /\ started' = started /\ Growing' \subseteq Growing
      BY <1>a, <1>1 DEF Spawned, Growing, At, Enter
    <2>2. Cardinality(Spawned') = Cardinality(Spawned) - 1
      BY <2>1, SpawnedRemove
    <2>3. /\ Cardinality(Spawned') - started' <= Cardinality(Spawned) - started
          /\ rt' + Cardinality(Spawned') - started'
               <= rt + Cardinality(Spawned) - started
      BY <1>0, <2>1, <2>2
    <2> QED
      BY <2>1, <2>3, BoundMoved
  <1>2. ASSUME NEW t \in Threads, Register(t) PROVE Bounded'
    <2>1. /\ Spawned' = Spawned /\ Growing' \subseteq Growing
          /\ rt' = rt /\ started' = started
      BY <1>a, <1>2 DEF Spawned, Growing, At, Register
    <2> QED
      BY <2>1, BoundKept
  <1>3. ASSUME NEW t \in Threads, TakeJob(t) PROVE Bounded'
    <2>1. /\ Spawned' = Spawned /\ Growing' \subseteq Growing
          /\ rt' = rt /\ started' = started
      BY <1>a, <1>3 DEF Spawned, Growing, At, TakeJob
    <2> QED
      BY <2>1, BoundKept
  <1>4. ASSUME NEW t \in Threads, TakeLow(t) PROVE Bounded'
    <2>1. /\ Spawned' = Spawned /\ Growing' \subseteq Growing
          /\ rt' = rt /\ started' = started
      BY <1>a, <1>4 DEF Spawned, Growing, At, TakeLow
    <2> QED
      BY <2>1, BoundKept
  <1>5. ASSUME NEW t \in Threads, NoMore(t) PROVE Bounded'
    <2>1. /\ Spawned' = Spawned /\ Growing' \subseteq Growing
          /\ rt' = rt /\ started' = started
      BY <1>a, <1>5 DEF Spawned, Growing, At, NoMore
    <2> QED
      BY <2>1, BoundKept
  <1>6. ASSUME NEW t \in Threads, Claim(t) PROVE Bounded'
    <2>1. Spawned' = Spawned /\ rt' = rt /\ started' = started
      BY <1>a, <1>6 DEF Spawned, Growing, At, Claim
    <2>2. CASE Growing' \subseteq Growing
      BY <2>1, <2>2, BoundKept
    <2>3. CASE threadsAvail' = 0
      <3>1. Spawned' \subseteq Idle'
        BY DEF Control, Idle, CreditPoints, Fresh, Spawned, At
      <3>2. Idle' \in SUBSET Threads /\ Cardinality(Idle') = 0
        <4>1. Idle' \in SUBSET Threads
          BY DEF Idle, At
        <4>2. Cardinality(Idle') \in Nat
          BY <4>1, CountType
        <4> QED
          BY <4>1, <4>2, <2>3 DEF AvailCoversIdle
      <3>3. Cardinality(Spawned') = 0
        BY <1>0, <3>1, <3>2, CountType
      <3> QED
        BY <1>0, <2>1, <3>3 DEF Bounded, LastSpawned, ThreadBound
    <2> QED
      <3>1. Growing' \subseteq Growing \/ threadsAvail' = 0
        BY <1>a, <1>6 DEF Claim, Last, Growing, At
      <3> QED
        BY <2>2, <2>3, <3>1
  <1>7. ASSUME NEW t \in Threads, Grow(t) PROVE Bounded'
    <2>1. ASSUME NEW u \in At({"none"}), rt < MaxThreads,
                 pc' = [pc EXCEPT ![t] = "service", ![u] = "spawned"]
          PROVE  Bounded'
      <3>1. /\ Spawned' = Spawned \cup {u} /\ u \notin Spawned
            /\ rt' = rt /\ started' = started
        BY <1>a, <1>7, <2>1 DEF Spawned, Growing, At, Grow
      <3>2. Growing' = {}
        <4>1. CntrlHeld /\ cntrlM \in Threads \cup {NoThread}
          BY DEF Control, TypeOK
        <4>2. pc[t] = "grow"
          BY <1>7 DEF Grow
        <4>3. \A v \in Threads : pc[v] = "grow" => v = t
          BY <4>1, <4>2 DEF CntrlHeld
        <4> QED
          BY <1>a, <2>1, <4>2, <4>3 DEF Growing, At
      <3>3. Cardinality(Spawned') = Cardinality(Spawned) + 1
        BY <2>1, <3>1, SpawnedAdd DEF At
      <3>4. Cardinality(Spawned) <= started
        BY <1>7 DEF Grow, Bounded, LastSpawned
      <3>5. rt' + Cardinality(Spawned') <= MaxThreads + started'
        BY <1>0, <2>1, <3>1, <3>3, <3>4
      <3>6. LastSpawned'
        BY <3>2 DEF LastSpawned, Growing, At
      <3> QED
        BY <3>5, <3>6 DEF Bounded, ThreadBound
    <2>2. CASE Goto(t, "service")
      <3>1. /\ Spawned' = Spawned /\ Growing' \subseteq Growing
            /\ rt' = rt /\ started' = started
        BY <1>a, <1>7, <2>2 DEF Spawned, Growing, At, Grow
      <3> QED
        BY <3>1, BoundKept
    <2> QED
      BY <1>7, <2>1, <2>2 DEF Grow, MayGrow
  <1>8. ASSUME NEW t \in Threads, Retire(t) PROVE Bounded'
    <2>1. /\ Spawned' = Spawned /\ Growing' \subseteq Growing
          /\ rt' = rt /\ started' = started
      BY <1>a, <1>8 DEF Spawned, Growing, At, Retire
    <2> QED
      BY <2>1, BoundKept
  <1>9. ASSUME NEW t \in Threads, Reply(t) PROVE Bounded'
    <2>1. /\ Spawned' = Spawned /\ Growing' \subseteq Growing
          /\ rt' = rt /\ started' = started
      BY <1>a, <1>9 DEF Spawned, Growing, At, Reply
    <2> QED
      BY <2>1, BoundKept
  <1>10. ASSUME NEW t \in Threads, PrepareRequest(t) PROVE Bounded'
    <2>1. /\ Spawned' = Spawned /\ Growing' \subseteq Growing
          /\ rt' = rt /\ started' = started
      BY <1>a, <1>10 DEF Spawned, Growing, At, PrepareRequest
    <2> QED
      BY <2>1, BoundKept
  <1>11. ASSUME NEW t \in Threads, CommandShutdown(t) PROVE Bounded'
    <2>1. /\ Spawned' = Spawned /\ Growing' \subseteq Growing
          /\ rt' = rt /\ started' = started
      BY <1>a, <1>11 DEF Spawned, Growing, At, CommandShutdown
    <2> QED
      BY <2>1, BoundKept
  <1>12. ASSUME NEW t \in Threads, CommandStart(t) PROVE Bounded'
    <2>1. /\ Spawned' = Spawned /\ Growing' \subseteq Growing
          /\ rt' = rt /\ started' = started
      BY <1>a, <1>12 DEF Spawned, Growing, At, CommandStart
    <2> QED
      BY <2>1, BoundKept
  <1>13. ASSUME NEW t \in Threads, StartOne(t) PROVE Bounded'
    <2>1. PICK u \in At({"none"}) : pc' = [pc EXCEPT ![u] = "spawned"]
      BY <1>a, <1>13 DEF Spawned, Growing, At, StartOne
    <2>2. /\ Spawned' = Spawned \cup {u} /\ u \notin Spawned
          /\ rt' = rt /\ started' = started + 1 /\ Growing' \subseteq Growing
      BY <1>a, <1>13, <2>1 DEF Spawned, Growing, At, StartOne
    <2>3. Cardinality(Spawned') = Cardinality(Spawned) + 1
      BY <2>1, <2>2, SpawnedAdd DEF At
    <2>4. /\ Cardinality(Spawned') - started' <= Cardinality(Spawned) - started
          /\ rt' + Cardinality(Spawned') - started'
               <= rt + Cardinality(Spawned) - started
      BY <1>0, <2>2, <2>3
    <2> QED
      BY <2>2, <2>4, BoundMoved
  <1>14. ASSUME NEW t \in Threads, StartedAll(t) PROVE Bounded'
    <2>1. /\ Spawned' = Spawned /\ Growing' \subseteq Growing
          /\ rt' = rt /\ started' = started
      BY <1>a, <1>14 DEF Spawned, Growing, At, StartedAll
    <2> QED
      BY <2>1, BoundKept
  <1>15. ASSUME NEW t \in Threads, Panic(t) PROVE Bounded'
    <2>1. /\ Spawned' = Spawned /\ Growing' \subseteq Growing
          /\ rt' = rt /\ started' = started
      BY <1>a, <1>15 DEF Spawned, Growing, At, Panic
    <2> QED
      BY <2>1, BoundKept
  <1>16. ASSUME NEW t \in Threads, Finish(t) PROVE Bounded'
    <2>1. pc' = [pc EXCEPT ![t] = pc'[t]] /\ pc'[t] \in {"take", "requeue"}
      BY <1>a, <1>16 DEF Spawned, Growing, At, Finish
    <2>2. Spawned' = Spawned /\ Growing' \subseteq Growing
          /\ rt' = rt /\ started' = started
      BY <1>a, <1>16, <2>1 DEF Spawned, Growing, At, Finish
    <2> QED
      BY <2>2, BoundKept
  <1>17. ASSUME NEW t \in Threads, Requeue(t) PROVE Bounded'
    <2>1. /\ Spawned' = Spawned /\ Growing' \subseteq Growing
          /\ rt' = rt /\ started' = started
      BY <1>a, <1>17 DEF Spawned, Growing, At, Requeue
    <2> QED
      BY <2>1, BoundKept
  <1>18. ASSUME NEW t \in Threads, Poll(t) PROVE Bounded'
    <2>1. /\ Spawned' = Spawned /\ Growing' \subseteq Growing
          /\ rt' = rt /\ started' = started
      BY <1>a, <1>18 DEF Spawned, Growing, At, Poll
    <2> QED
      BY <2>1, BoundKept
  <1>19. ASSUME NEW t \in Threads, CheckShutdown(t) PROVE Bounded'
    <2>1. /\ Spawned' = Spawned /\ Growing' \subseteq Growing
          /\ rt' = rt /\ started' = started
      BY <1>a, <1>19 DEF Spawned, Growing, At, CheckShutdown
    <2> QED
      BY <2>1, BoundKept
  <1>20. ASSUME NEW t \in Threads, Unregister(t) PROVE Bounded'
    <2>1. /\ Spawned' = Spawned /\ Growing' \subseteq Growing
          /\ rt' = rt /\ started' = started
      BY <1>a, <1>20 DEF Spawned, Growing, At, Unregister
    <2> QED
      BY <2>1, BoundKept
  <1>21. ASSUME NEW t \in Threads, Leave(t) PROVE Bounded'
    <2>1. /\ Spawned' = Spawned /\ Growing' \subseteq Growing
          /\ rt' = rt - 1 /\ started' = started
      BY <1>a, <1>21 DEF Spawned, Growing, At, Leave
    <2>2. /\ Cardinality(Spawned') - started' <= Cardinality(Spawned) - started
          /\ rt' + Cardinality(Spawned') - started'
               <= rt + Cardinality(Spawned) - started
      BY <1>0, <2>1
    <2> QED
      BY <2>1, <2>2, BoundMoved
  <1>22. ASSUME NEW t \in Threads, Exit(t) PROVE Bounded'
    <2>1. /\ Spawned' = Spawned /\ Growing' \subseteq Growing
          /\ rt' = rt /\ started' = started
      BY <1>a, <1>22 DEF Spawned, Growing, At, Exit
    <2> QED
      BY <2>1, BoundKept
  <1>23. ASSUME NEW t \in Threads, Submit(t) PROVE Bounded'
    <2>1. /\ Spawned' = Spawned /\ Growing' \subseteq Growing
          /\ rt' = rt /\ started' = started
      BY <1>a, <1>23 DEF Spawned, Growing, At, Submit
    <2> QED
      BY <2>1, BoundKept
  <1>24. CASE CanExit
    <2>1. /\ Spawned' = Spawned /\ Growing' \subseteq Growing
          /\ rt' = rt /\ started' = started
      BY <1>a, <1>24 DEF Spawned, Growing, At, CanExit
    <2> QED
      BY <2>1, BoundKept
  <1>25. CASE UNCHANGED vars
    BY <1>25, BoundKept DEF vars, Spawned, Growing, At
  <1> QED
    BY <1>1, <1>2, <1>3, <1>4, <1>5, <1>6, <1>7, <1>8, <1>9, <1>10, <1>11, <1>12,
       <1>13, <1>14, <1>15, <1>16, <1>17, <1>18, <1>19, <1>20, <1>21, <1>22, <1>23,
       <1>24, <1>25
       DEF Next, Step, Service

-----------------------------------------------------------------------------
(* The theorems.                                                           *)

LEMMA InitIInv == Init => IInv
  <1> SUFFICES ASSUME Init PROVE IInv
    OBVIOUS
  <1>1. Control
    BY InitControl
  <1>2. PICK first \in Threads :
          pc = [t \in Threads |-> IF t = first THEN "spawned" ELSE "none"]
    BY DEF Init
  <1>3. Idle = {first} /\ Spawned = {first} /\ Running = {}
    BY <1>2 DEF Init, Idle, Spawned, Running, At, CreditPoints, RunningPoints, Points
  <1>4. Cardinality({first}) = 1 /\ Cardinality({}) = 0
    BY FS_Singleton, FS_EmptySet
  <1>5. AvailCountsIdle /\ RtCounts
    BY <1>3, <1>4 DEF AvailCountsIdle, RtCounts, Init
  <1>6. LastSpawned
    BY <1>2 DEF LastSpawned
  <1>7. ThreadBound
    BY <1>3, <1>4, BoundsAssumption DEF ThreadBound, Init
  <1> QED
    BY <1>1, <1>5, <1>6, <1>7 DEF IInv

LEMMA CoversNext == Control' /\ AvailCountsIdle' => AvailCoversIdle'
  BY CountsCover, PTL

LEMMA NextIInv == IInv /\ [Next]_vars => IInv'
  <1> SUFFICES ASSUME IInv, [Next]_vars PROVE IInv'
    OBVIOUS
  <1>1. AvailCoversIdle
    BY CountsCover DEF IInv
  <1>2. Control' /\ RtCounts' /\ AvailCountsIdle'
    BY <1>1, NextControl, NextRt, NextAvail DEF IInv
  <1>3. AvailCoversIdle'
    BY <1>2, CoversNext
  <1>4. Bounded'
    BY <1>2, <1>3, NextBounded DEF IInv, Bounded
  <1> QED
    BY <1>2, <1>4 DEF IInv, Bounded

\* Every behaviour of the thread pool keeps the inductive invariant.
THEOREM Invariant == SafeSpec => []IInv
  BY InitIInv, NextIInv, PTL DEF SafeSpec

\* server.rs: the statics of the pool and the state of every worker keep their
\* types; in particular the u32 threadsAvail_ never underflows.
THEOREM TypeCorrect == SafeSpec => []TypeOK
  <1>1. IInv => TypeOK
    BY DEF IInv, Control
  <1> QED
    BY <1>1, Invariant, PTL

\* inc_threads_avail, dec_threads_avail: threadsAvail_ is the number of workers that
\* wait for a job and of those that a shutdown command flagged while they did; no
\* other path through Server::call loses or doubles a credit.
THEOREM AvailExact == SafeSpec => []AvailCountsIdle
  <1>1. IInv => AvailCountsIdle
    BY DEF IInv
  <1> QED
    BY <1>1, Invariant, PTL

\* Server::call, rt < 100: the pool never has more threads than MaxThreads and those
\* started by command, although a new thread is not in rt until it runs.
THEOREM PoolBounded == SafeSpec => []ThreadBound
  <1>1. IInv => ThreadBound
    BY DEF IInv
  <1> QED
    BY <1>1, Invariant, PTL

-----------------------------------------------------------------------------
(* Leaving with nothing left to do.                                        *)

\* From the end of EPoll::run() until the thread is over, lst_done stays empty.
Emptied ==
  \A t \in Threads : pc[t] \in {"check", "fini", "leave", "exit"} => ~lst_done[t]

LEMMA NextEmptied ==
  ASSUME MayPanic = {}, Control, Emptied, [Next]_vars
  PROVE  Emptied'
  <1> USE DEF Control, TypeOK, Emptied, At, Goto, Stands, Points,
              worker, queues, counts, cntrl, history, shared
  <1>1. ASSUME NEW t \in Threads, Enter(t) \/ Register(t) PROVE Emptied'
    BY <1>1 DEF Enter, Register
  <1>2. ASSUME NEW t \in Threads, TakeJob(t) \/ TakeLow(t) \/ NoMore(t) PROVE Emptied'
    BY <1>2 DEF TakeJob, TakeLow, NoMore
  <1>3. ASSUME NEW t \in Threads, Claim(t) PROVE Emptied'
    <2>1. pc' = [pc EXCEPT ![t] = pc'[t]] /\ pc'[t] \in {"grow", "retire"}
      BY <1>3 DEF Claim
    <2> QED
      BY <1>3, <2>1 DEF Claim
  <1>4. ASSUME NEW t \in Threads, Grow(t) PROVE Emptied'
    <2>1. \A u \in Threads : pc'[u] = pc[u] \/ pc'[u] \in {"service", "spawned"}
      BY <1>4 DEF Grow
    <2> QED
      BY <1>4, <2>1 DEF Grow
  <1>5. ASSUME NEW t \in Threads, Retire(t) \/ PrepareRequest(t) PROVE Emptied'
    BY <1>5 DEF Retire, PrepareRequest
  <1>6. ASSUME NEW t \in Threads, Reply(t) \/ StartedAll(t) PROVE Emptied'
    BY <1>6 DEF Reply, StartedAll, Wrote
  <1>7. ASSUME NEW t \in Threads, CommandShutdown(t) \/ CommandStart(t) PROVE Emptied'
    BY <1>7 DEF CommandShutdown, CommandStart
  <1>8. ASSUME NEW t \in Threads, StartOne(t) PROVE Emptied'
    BY <1>8 DEF StartOne
  <1>9. ASSUME NEW t \in Threads, Panic(t) PROVE Emptied'
    BY <1>9 DEF Panic
  <1>10. ASSUME NEW t \in Threads, Finish(t) PROVE Emptied'
    <2>1. pc' = [pc EXCEPT ![t] = pc'[t]] /\ pc'[t] \in {"take", "requeue"}
      BY <1>10 DEF Finish
    <2> QED
      BY <1>10, <2>1 DEF Finish
  <1>11. ASSUME NEW t \in Threads, Requeue(t) \/ Submit(t) PROVE Emptied'
    BY <1>11 DEF Requeue, Submit
  <1>12. ASSUME NEW t \in Threads, Poll(t) PROVE Emptied'
    BY <1>12 DEF Poll, Drained
  <1>13. ASSUME NEW t \in Threads, CheckShutdown(t) PROVE Emptied'
    BY <1>13 DEF CheckShutdown
  <1>14. ASSUME NEW t \in Threads, Unregister(t) \/ Leave(t) PROVE Emptied'
    BY <1>14 DEF Unregister, Leave
  <1>15. ASSUME NEW t \in Threads, Exit(t) PROVE Emptied'
    BY <1>15 DEF Exit
  <1>16. CASE CanExit
    BY <1>16 DEF CanExit
  <1>17. CASE UNCHANGED vars
    BY <1>17 DEF vars
  <1> QED
    BY <1>1, <1>2, <1>3, <1>4, <1>5, <1>6, <1>7, <1>8, <1>9, <1>10, <1>11, <1>12,
       <1>13, <1>14, <1>15, <1>16, <1>17
       DEF Next, Step, Service

\* Server::fini, assert!(self.pl_.lst_done.is_empty()): as long as no service panics,
\* a worker that leaves has nothing in lst_done, whoever flagged it and whenever.
THEOREM NothingLeft == ASSUME MayPanic = {} PROVE SafeSpec => []FiniAssertion
  <1>1. Init => Emptied
    BY DEF Init, Emptied
  <1>2. IInv /\ Emptied /\ [Next]_vars => Emptied'
    BY NextEmptied DEF IInv
  <1>3. Emptied => FiniAssertion
    BY DEF Emptied, FiniAssertion, At
  <1> QED
    BY <1>1, <1>2, <1>3, Invariant, PTL DEF SafeSpec

-----------------------------------------------------------------------------
(* Workers in reserve.                                                     *)

\* No worker has left, and no command has flagged one that was available.
Staying == abandoned = 0 /\ At({"exit"}) = {}

\* Unless somebody is about to start a thread, a pool without an available worker is
\* at its limit.
SpareKept == Idle = {} /\ At({"grow"}) = {} => rt >= MaxThreads

LEMMA SpareMoved ==
  ASSUME SpareKept, Idle \subseteq Idle', At({"grow"}) \subseteq At({"grow"})',
         rt' >= rt, rt \in Nat, rt' \in Nat, MaxThreads \in Nat
  PROVE  SpareKept'
  <1> SUFFICES ASSUME Idle' = {}, At({"grow"})' = {} PROVE rt' >= MaxThreads
    BY DEF SpareKept
  <1>1. rt >= MaxThreads
    BY DEF SpareKept
  <1> QED
    BY <1>1

LEMMA NextSpare ==
  ASSUME IInv, IInv', Staying, Staying', SpareKept, [Next]_vars
  PROVE  SpareKept'
  <1>1. /\ pc \in [Threads -> Points] /\ shutdown \in [Threads -> BOOLEAN]
        /\ rt \in Nat /\ rt' \in Nat /\ MaxThreads \in Nat
    BY BoundsAssumption DEF IInv, Control, TypeOK
  <1> DEFINE Kept == /\ Idle \subseteq Idle' /\ At({"grow"}) \subseteq At({"grow"})'
                     /\ rt' >= rt
  <1>2. Kept => SpareKept'
    BY <1>1, SpareMoved
  <1> USE DEF Points, Goto, Stands, worker, queues, counts, cntrl, history, shared
  <1>3. ASSUME NEW t \in Threads, Enter(t) \/ Register(t) PROVE Kept
    BY <1>1, <1>3 DEF Enter, Register, Idle, At, CreditPoints
  <1>4. ASSUME NEW t \in Threads, TakeJob(t) \/ TakeLow(t) \/ NoMore(t) PROVE Kept
    BY <1>1, <1>4 DEF TakeJob, TakeLow, NoMore, Idle, At, CreditPoints
  <1>5. ASSUME NEW t \in Threads, Claim(t) PROVE SpareKept'
    <2>1. CASE shutdown[t]
      BY <1>1, <1>2, <1>5, <2>1 DEF Claim, Idle, At, CreditPoints
    <2>2. CASE ~shutdown[t] /\ threadsAvail' = 0
      <3>1. pc'[t] = "grow"
        BY <1>1, <1>5, <2>2 DEF Claim, Last
      <3> QED
        BY <3>1 DEF SpareKept, At
    <2>3. CASE threadsAvail' # 0
      <3>1. threadsAvail' = Cardinality(Idle')
        <4>1. Idle' \in SUBSET Threads
          BY DEF Idle, At
        <4>2. Cardinality(Idle') \in Nat
          BY <4>1, CountType
        <4> QED
          BY <4>2 DEF IInv, AvailCountsIdle, Staying
      <3>2. Idle' # {}
        BY <2>3, <3>1, FS_EmptySet
      <3> QED
        BY <3>2 DEF SpareKept
    <2> QED
      BY <1>5, <2>1, <2>2, <2>3 DEF Claim
  <1>6. ASSUME NEW t \in Threads, Grow(t) PROVE SpareKept'
    <2>1. CASE MayGrow
      <3>1. PICK u \in At({"none"}) : pc' = [pc EXCEPT ![t] = "service", ![u] = "spawned"]
        BY <1>6, <2>1 DEF Grow
      <3>2. u \in Idle'
        BY <1>1, <1>6, <3>1 DEF Grow, Idle, At, CreditPoints, IInv, Control, Fresh
      <3> QED
        BY <3>2 DEF SpareKept
    <2>2. CASE ~MayGrow
      BY <1>1, <1>6, <2>2 DEF Grow, MayGrow, SpareKept
    <2> QED
      BY <2>1, <2>2
  <1>7. ASSUME NEW t \in Threads, Retire(t) PROVE Kept
    BY <1>1, <1>7 DEF Retire, Idle, At, CreditPoints
  <1>8. ASSUME NEW t \in Threads, Reply(t) \/ PrepareRequest(t) \/ Panic(t) PROVE Kept
    BY <1>1, <1>8 DEF Reply, PrepareRequest, Panic, Idle, At, CreditPoints
  <1>9. ASSUME NEW t \in Threads, CommandShutdown(t) PROVE Kept
    <2>1. Idle \cap lstCntrl = {}
      <3>1. Idle \cap lstCntrl \in SUBSET Threads
        BY DEF Idle, At
      <3>2. Cardinality(Idle \cap lstCntrl) \in Nat
        BY <3>1, CountType
      <3>3. Cardinality(Idle \cap lstCntrl) = 0
        BY <1>9, <3>2 DEF CommandShutdown, Staying
      <3> QED
        BY <3>1, <3>3, CountType
    <2> QED
      BY <1>1, <1>9, <2>1 DEF CommandShutdown, Idle, At, CreditPoints
  <1>10. ASSUME NEW t \in Threads, CommandStart(t) \/ StartedAll(t) PROVE Kept
    BY <1>1, <1>10 DEF CommandStart, StartedAll, Idle, At, CreditPoints
  <1>11. ASSUME NEW t \in Threads, StartOne(t) PROVE Kept
    BY <1>1, <1>11 DEF StartOne, Idle, At, CreditPoints
  <1>12. ASSUME NEW t \in Threads, Finish(t) PROVE Kept
    <2>1. pc' = [pc EXCEPT ![t] = pc'[t]] /\ pc'[t] \in {"take", "requeue"}
      BY <1>1, <1>12 DEF Finish
    <2> QED
      BY <1>1, <1>12, <2>1 DEF Finish, Idle, At, CreditPoints
  <1>13. ASSUME NEW t \in Threads, Requeue(t) \/ Submit(t) \/ Poll(t) PROVE Kept
    BY <1>1, <1>13 DEF Requeue, Submit, Poll, Idle, At, CreditPoints
  <1>14. ASSUME NEW t \in Threads, CheckShutdown(t) PROVE Kept
    BY <1>1, <1>14 DEF CheckShutdown, Idle, At, CreditPoints
  <1>15. ASSUME NEW t \in Threads, Unregister(t) \/ Exit(t) PROVE Kept
    BY <1>1, <1>15 DEF Unregister, Exit, Idle, At, CreditPoints
  <1>16. ASSUME NEW t \in Threads, Leave(t) PROVE FALSE
    BY <1>1, <1>16 DEF Leave, Staying, At
  <1>17. CASE CanExit
    BY <1>1, <1>2, <1>17 DEF CanExit, Idle, At
  <1>18. CASE UNCHANGED vars
    BY <1>1, <1>2, <1>18 DEF vars, Idle, At
  <1> QED
    BY <1>2, <1>3, <1>4, <1>5, <1>6, <1>7, <1>8, <1>9, <1>10, <1>11, <1>12, <1>13, <1>14,
       <1>15, <1>16, <1>17, <1>18, Zenon
       DEF Next, Step, Service

\* Server::call, dec_threads_avail() == 0: as long as no worker has left and none was
\* flagged while available, a pool in which nobody is available is at its limit, so
\* that the last one never starts a job without a replacement.
THEOREM SpareWhileAllStay == SafeSpec /\ []Staying => []SpareOrFull
  <1>1. Init => SpareKept
    BY DEF Init, SpareKept, Idle, At, CreditPoints
  <1>2. IInv /\ IInv' /\ Staying /\ Staying' /\ SpareKept /\ [Next]_vars => SpareKept'
    BY NextSpare
  <1>3. IInv /\ SpareKept => SpareOrFull
    <2> SUFFICES ASSUME IInv, SpareKept, cntrlM = NoThread, Idle = {}
                 PROVE  rt + Cardinality(Spawned) >= MaxThreads
      BY DEF SpareOrFull
    <2>1. At({"grow"}) = {}
      BY ThreadsAssumption DEF IInv, Control, CntrlHeld, At
    <2>2. rt >= MaxThreads /\ rt \in Nat /\ MaxThreads \in Nat /\ Cardinality(Spawned) \in Nat
      BY <2>1, BoundsAssumption, SpawnedType DEF SpareKept, IInv
    <2> QED
      BY <2>2
  <1> QED
    BY <1>1, <1>2, <1>3, Invariant, PTL DEF SafeSpec

-----------------------------------------------------------------------------
(* Retirement.                                                             *)

\* No client commands the pool, and no service panics.
Ordinary == {"reply", "cgi", "perform"}

Peaceful == Kinds \subseteq Ordinary /\ MayPanic = {} /\ Reserve >= 1

\* Then no job commands the pool, and no credit is written off.
Calm == /\ \A t \in Threads : job[t] \in Ordinary \cup {NoJob} /\ pc[t] # "starting"
        /\ lstSvc \in Seq(Ordinary) /\ lstSvcLow \in Seq(Ordinary)
        /\ abandoned = 0

\* A thread that is not registered yet: at most one is on its way, as the pool grows
\* only when nobody is available.
New == At({"spawned", "register"})

OneNew == \A t, u \in New : t = u

LastGrows == \A t \in Threads : pc[t] = "grow" => threadsAvail = 0

\* Only a flagged worker leaves.
LeavingFlagged == \A t \in Threads : pc[t] \in {"fini", "leave", "exit"} => shutdown[t]

Survival == Calm /\ OneNew /\ LastGrows /\ LeavingFlagged /\ PoolSurvives

\* A worker that retires sees two others available, one of which has registered.
LEMMA RetireLeavesOne ==
  ASSUME Peaceful, IInv, Survival, NEW t \in Threads, pc[t] = "retire", MayRetire(t)
  PROVE  \E u \in lstCntrl \ {t} : ~shutdown[u]
  <1>1. Idle \in SUBSET Threads /\ IsFiniteSet(Idle)
    <2>1. Idle \in SUBSET Threads
      BY DEF Idle, At
    <2> QED
      BY <2>1, ThreadsAssumption, FS_Subset
  <1>2. Cardinality(Idle) \in Nat /\ Cardinality(Idle) >= 2
    <2>1. threadsAvail = Cardinality(Idle)
      BY <1>1, CountType DEF IInv, AvailCountsIdle, Survival, Calm
    <2>2. Cardinality(Idle) \in Nat
      BY <1>1, CountType
    <2> QED
      BY <2>1, <2>2, BoundsAssumption DEF MayRetire, Peaceful
  <1>3. PICK a \in Idle : TRUE
    BY <1>2, FS_EmptySet
  <1>4. PICK b \in Idle : b # a
    <2>1. CASE Idle = {a}
      BY <1>2, <2>1, FS_Singleton
    <2> QED
      BY <1>3, <2>1
  <1>5. PICK u \in {a, b} : u \notin New
    BY <1>3, <1>4 DEF Survival, OneNew
  <1>6. u \in Threads /\ ~shutdown[u] /\ pc[u] \in CreditPoints \ {"spawned", "register"}
    BY <1>1, <1>5 DEF Idle, At, New
  <1>7. u \in lstCntrl
    BY <1>6 DEF IInv, Control, Registered, At, RegisteredPoints, RunningPoints, Points,
                CreditPoints
  <1>8. u # t
    BY <1>6 DEF CreditPoints
  <1> QED
    BY <1>6, <1>7, <1>8

\* A step that registers and flags nobody, and takes no unflagged worker away.
LEMMA Survives ==
  ASSUME PoolSurvives, main' = main,
         \A t \in lstCntrl : ~shutdown[t] => t \in lstCntrl' /\ ~shutdown'[t]
  PROVE  PoolSurvives'
  BY Zenon DEF PoolSurvives

LEMMA NextCalm ==
  ASSUME Peaceful, Control, Calm, [Next]_vars
  PROVE  Calm'
  <1> USE DEF Peaceful, Control, TypeOK, Calm, Ordinary, NoJob, At, Goto, Stands, Points,
              worker, queues, counts, cntrl, history, shared
  <1>1. ASSUME NEW t \in Threads, Enter(t) \/ Register(t) PROVE Calm'
    BY <1>1 DEF Enter, Register
  <1>2. ASSUME NEW t \in Threads, TakeJob(t) PROVE Calm'
    BY <1>2 DEF TakeJob
  <1>3. ASSUME NEW t \in Threads, TakeLow(t) PROVE Calm'
    BY <1>3 DEF TakeLow
  <1>4. ASSUME NEW t \in Threads, NoMore(t) PROVE Calm'
    BY <1>4 DEF NoMore
  <1>5. ASSUME NEW t \in Threads, Claim(t) PROVE Calm'
    <2>1. \A u \in Threads : pc'[u] = pc[u] \/ pc'[u] \in {"grow", "retire"}
      BY <1>5 DEF Claim
    <2> QED
      BY <1>5, <2>1 DEF Claim
  <1>6. ASSUME NEW t \in Threads, Grow(t) PROVE Calm'
    <2>1. \A u \in Threads : pc'[u] = pc[u] \/ pc'[u] \in {"service", "spawned"}
      BY <1>6 DEF Grow
    <2> QED
      BY <1>6, <2>1 DEF Grow
  <1>7. ASSUME NEW t \in Threads, Retire(t) \/ PrepareRequest(t) \/ Reply(t) PROVE Calm'
    BY <1>7 DEF Retire, PrepareRequest, Reply
  <1>8. ASSUME NEW t \in Threads, CommandShutdown(t) \/ CommandStart(t) PROVE FALSE
    BY <1>8 DEF CommandShutdown, CommandStart
  <1>9. ASSUME NEW t \in Threads, StartOne(t) \/ StartedAll(t) \/ Panic(t) PROVE FALSE
    BY <1>9 DEF StartOne, StartedAll, Panic
  <1>10. ASSUME NEW t \in Threads, Finish(t) PROVE Calm'
    <2>1. \A u \in Threads : pc'[u] = pc[u] \/ pc'[u] \in {"take", "requeue"}
      BY <1>10 DEF Finish
    <2> QED
      BY <1>10, <2>1 DEF Finish
  <1>11. ASSUME NEW t \in Threads, Returned, Requeue(t) PROVE Calm'
    BY <1>11 DEF Requeue, Returned
  <1>12. ASSUME NEW t \in Threads, Submit(t) PROVE Calm'
    BY <1>12 DEF Submit
  <1>13. ASSUME NEW t \in Threads, Poll(t) \/ CheckShutdown(t) PROVE Calm'
    BY <1>13 DEF Poll, CheckShutdown
  <1>14. ASSUME NEW t \in Threads, Unregister(t) \/ Leave(t) \/ Exit(t) PROVE Calm'
    BY <1>14 DEF Unregister, Leave, Exit
  <1>15. CASE CanExit
    BY <1>15 DEF CanExit
  <1>16. CASE UNCHANGED vars
    BY <1>16 DEF vars
  <1> QED
    BY <1>1, <1>2, <1>3, <1>4, <1>5, <1>6, <1>7, <1>8, <1>9, <1>10, <1>11, <1>12,
       <1>13, <1>14, <1>15, <1>16
       DEF Next, Step, Service

\* OneNew, LastGrows and LeavingFlagged.
Orderly == OneNew /\ LastGrows /\ LeavingFlagged

LEMMA NextOrderly ==
  ASSUME Peaceful, IInv, Calm, Orderly, [Next]_vars
  PROVE  Orderly'
  <1>1. /\ pc \in [Threads -> Points] /\ shutdown \in [Threads -> BOOLEAN]
        /\ threadsAvail \in Nat /\ CntrlHeld /\ Fresh
        /\ cntrlM \in Threads \cup {NoThread} /\ NoThread \notin Threads
    BY ThreadsAssumption DEF IInv, Control, TypeOK
  <1>2. \A t \in Threads : pc[t] = "grow" => cntrlM = t
    BY <1>1 DEF CntrlHeld
  <1> USE DEF Orderly, OneNew, LastGrows, LeavingFlagged, New, At, Goto, Stands, Points,
              worker, queues, counts, cntrl, history, shared
  <1>3. ASSUME NEW t \in Threads, Enter(t) \/ Register(t) PROVE Orderly'
    BY <1>1, <1>3 DEF Enter, Register
  <1>4. ASSUME NEW t \in Threads, TakeJob(t) \/ TakeLow(t) \/ NoMore(t) PROVE Orderly'
    BY <1>1, <1>4 DEF TakeJob, TakeLow, NoMore
  <1>5. ASSUME NEW t \in Threads, Claim(t) PROVE Orderly'
    <2>1. \A u \in Threads : pc[u] # "grow"
      BY <1>1, <1>2, <1>5 DEF Claim, CntrlFree
    <2>2. /\ pc' = [pc EXCEPT ![t] = pc'[t]] /\ pc'[t] \in {"grow", "retire"}
          /\ pc'[t] = "grow" => threadsAvail' = 0
          /\ shutdown' = shutdown
      BY <1>1, <1>5 DEF Claim, Last
    <2> QED
      BY <1>1, <2>1, <2>2
  <1>6. ASSUME NEW t \in Threads, Grow(t) PROVE Orderly'
    <2>1. /\ pc[t] = "grow" /\ threadsAvail = 0 /\ shutdown' = shutdown
          /\ \A u \in Threads \ {t} : pc[u] # "grow"
      BY <1>1, <1>2, <1>6 DEF Grow
    <2>2. Idle = {}
      <3>1. Idle \in SUBSET Threads
        BY DEF Idle
      <3>2. Cardinality(Idle) \in Nat
        BY <3>1, CountType
      <3> QED
        BY <2>1, <3>1, <3>2, CountType DEF IInv, AvailCountsIdle, Calm
    <2>3. \A u \in Threads : pc[u] \notin {"spawned", "register"}
      BY <1>1, <2>2 DEF Idle, CreditPoints, Fresh
    <2>4. CASE \E u \in At({"none"}) : pc' = [pc EXCEPT ![t] = "service", ![u] = "spawned"]
      BY <1>1, <2>1, <2>3, <2>4
    <2>5. CASE pc' = [pc EXCEPT ![t] = "service"]
      BY <1>1, <2>1, <2>3, <2>5
    <2> QED
      BY <1>6, <2>4, <2>5 DEF Grow
  <1>7. ASSUME NEW t \in Threads, Retire(t) PROVE Orderly'
    BY <1>1, <1>7 DEF Retire
  <1>8. ASSUME NEW t \in Threads, PrepareRequest(t) \/ Reply(t) PROVE Orderly'
    BY <1>1, <1>8 DEF PrepareRequest, Reply
  <1>9. ASSUME NEW t \in Threads, Service(t), ~(PrepareRequest(t) \/ Reply(t)) PROVE FALSE
    BY <1>9 DEF Service, CommandShutdown, CommandStart, StartOne, StartedAll, Panic, Peaceful,
                Calm, Ordinary, NoJob
  <1>10. ASSUME NEW t \in Threads, Finish(t) PROVE Orderly'
    <2>1. \A u \in Threads : pc[u] # "grow"
      BY <1>1, <1>2, <1>10 DEF Finish, CntrlFree
    <2>2. /\ pc' = [pc EXCEPT ![t] = pc'[t]] /\ pc'[t] \in {"take", "requeue"}
          /\ shutdown' = shutdown
      BY <1>1, <1>10 DEF Finish
    <2> QED
      BY <1>1, <2>1, <2>2
  <1>11. ASSUME NEW t \in Threads, Requeue(t) \/ Submit(t) \/ Poll(t) PROVE Orderly'
    BY <1>1, <1>11 DEF Requeue, Submit, Poll
  <1>12. ASSUME NEW t \in Threads, CheckShutdown(t) PROVE Orderly'
    BY <1>1, <1>12 DEF CheckShutdown
  <1>13. ASSUME NEW t \in Threads, Unregister(t) \/ Leave(t) PROVE Orderly'
    BY <1>1, <1>13 DEF Unregister, Leave
  <1>14. ASSUME NEW t \in Threads, Exit(t) PROVE Orderly'
    BY <1>1, <1>14 DEF Exit
  <1>15. CASE CanExit
    BY <1>1, <1>15 DEF CanExit
  <1>16. CASE UNCHANGED vars
    BY <1>16 DEF vars
  <1> QED
    BY <1>3, <1>4, <1>5, <1>6, <1>7, <1>8, <1>9, <1>10, <1>11, <1>12, <1>13, <1>14, <1>15,
       <1>16, Zenon
       DEF Next, Step

LEMMA NextSurvives ==
  ASSUME Peaceful, IInv, Survival, [Next]_vars
  PROVE  PoolSurvives'
  <1>1. /\ pc \in [Threads -> Points] /\ shutdown \in [Threads -> BOOLEAN]
        /\ lstCntrl = At(RegisteredPoints) /\ Fresh /\ lstCntrl \subseteq Threads
        /\ PoolSurvives /\ LeavingFlagged /\ Calm
    BY DEF IInv, Control, TypeOK, Registered, Survival
  <1>2. ASSUME main' = main, lstCntrl' = lstCntrl, shutdown' = shutdown PROVE PoolSurvives'
    BY <1>1, <1>2, Survives
  <1> USE DEF Goto, Stands, worker, queues, counts, cntrl, history, shared
  <1>3. ASSUME NEW t \in Threads, Register(t) PROVE PoolSurvives'
    <2>1. t \in lstCntrl' /\ shutdown' = shutdown
      BY <1>3 DEF Register
    <2>2. ~shutdown[t]
      BY <1>1, <1>3 DEF Register, Fresh
    <2> QED
      BY <2>1, <2>2 DEF PoolSurvives
  <1>4. ASSUME NEW t \in Threads, Retire(t) PROVE PoolSurvives'
    <2>1. /\ pc[t] = "retire" /\ lstCntrl' = lstCntrl /\ main' = main
          /\ shutdown' = [shutdown EXCEPT ![t] = @ \/ MayRetire(t)]
      BY <1>4 DEF Retire
    <2>2. CASE MayRetire(t)
      <3>1. PICK u \in lstCntrl \ {t} : ~shutdown[u]
        BY <2>1, <2>2, RetireLeavesOne
      <3>2. ~shutdown'[u]
        BY <1>1, <2>1, <3>1
      <3> QED
        BY <2>1, <3>1, <3>2 DEF PoolSurvives
    <2>3. CASE ~MayRetire(t)
      <3>1. \A u \in Threads : ~shutdown[u] => ~shutdown'[u]
        BY <1>1, <2>1, <2>3
      <3> QED
        BY <1>1, <2>1, <3>1, Survives
    <2> QED
      BY <2>2, <2>3
  <1>5. ASSUME NEW t \in Threads, Unregister(t) PROVE PoolSurvives'
    <2>1. /\ lstCntrl' = lstCntrl \ {t} /\ main' = main /\ shutdown' = shutdown
          /\ pc[t] = "fini"
      BY <1>5 DEF Unregister, Without
    <2>2. shutdown[t]
      BY <1>1, <2>1 DEF LeavingFlagged
    <2> QED
      BY <1>1, <2>1, <2>2, Survives
  <1>6. ASSUME NEW t \in Threads, Exit(t) PROVE PoolSurvives'
    <2>1. /\ lstCntrl' = lstCntrl /\ main' = main
          /\ shutdown' = [shutdown EXCEPT ![t] = FALSE]
      BY <1>6 DEF Exit
    <2>2. \A u \in Threads : ~shutdown[u] => ~shutdown'[u]
      BY <1>1, <2>1
    <2> QED
      BY <1>1, <2>1, <2>2, Survives
  <1>7. CASE CanExit
    BY <1>1, <1>7 DEF CanExit, PoolSurvives
  <1>8. ASSUME NEW t \in Threads, Service(t), ~(PrepareRequest(t) \/ Reply(t)) PROVE FALSE
    BY <1>1, <1>8 DEF Service, CommandShutdown, CommandStart, StartOne, StartedAll, Panic,
                      Peaceful, Calm, Ordinary, NoJob
  <1>9. ASSUME NEW t \in Threads,
               \/ Enter(t) \/ TakeJob(t) \/ TakeLow(t) \/ NoMore(t) \/ Claim(t) \/ Grow(t)
               \/ PrepareRequest(t) \/ Reply(t) \/ Finish(t) \/ Requeue(t) \/ Poll(t)
               \/ CheckShutdown(t) \/ Leave(t) \/ Submit(t)
        PROVE  PoolSurvives'
    <2>1. main' = main /\ lstCntrl' = lstCntrl /\ shutdown' = shutdown
      BY <1>9 DEF Enter, TakeJob, TakeLow, NoMore, Claim, Grow, PrepareRequest, Reply, Finish,
                  Requeue, Poll, CheckShutdown, Leave, Submit
    <2> QED
      BY <1>2, <2>1
  <1>10. CASE UNCHANGED vars
    BY <1>2, <1>10 DEF vars
  <1> QED
    BY <1>3, <1>4, <1>5, <1>6, <1>7, <1>8, <1>9, <1>10, Zenon DEF Next, Step

\* WebServer never ends by itself: as long as no client commands the pool and no
\* service panics, a registered worker that is not leaving is there whenever can_exit
\* looks, although workers retire.  With no Reserve, or with threads started by command
\* that have yet to register, the last registered worker could retire.
THEOREM PoolLives == ASSUME Peaceful PROVE SafeSpec => []PoolSurvives
  <1>1. Init => Survival
    <2> SUFFICES ASSUME Init PROVE Survival
      OBVIOUS
    <2>1. Calm
      BY DEF Init, Calm, Ordinary, NoJob
    <2>2. OneNew /\ LastGrows /\ LeavingFlagged /\ PoolSurvives
      BY DEF Init, OneNew, LastGrows, LeavingFlagged, PoolSurvives, New, At
    <2> QED
      BY <2>1, <2>2 DEF Survival
  <1>2. IInv /\ Survival /\ [Next]_vars => Survival'
    BY NextCalm, NextOrderly, NextSurvives DEF Survival, Orderly, IInv
  <1>3. Survival => PoolSurvives
    BY DEF Survival
  <1> QED
    BY <1>1, <1>2, <1>3, Invariant, PTL DEF SafeSpec

=============================================================================
