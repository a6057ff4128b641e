-------------------------- MODULE FutexMutexProofs --------------------------
(***************************************************************************)
(* Safety of the futex mutex for any set of threads.                       *)
(***************************************************************************)
EXTENDS FutexMutex, TLAPS

\* The inductive invariant: the word tells whether there is an holders, which is
\* what makes a successful compare-and-swap exclusive, and what turns "the word
\* was 1 when I went to sleep" into "somebody will wake me".
IInv == TypeOK /\ MutualExclusion /\ WordTellsOwner /\ NoLostWakeup

LEMMA InitIInv == Init => IInv
  BY DEF Init, IInv, TypeOK, MutualExclusion, WordTellsOwner, NoLostWakeup, At,
         Locations

LEMMA NextIInv == IInv /\ [Next]_vars => IInv'
  <1> SUFFICES ASSUME IInv, [Next]_vars PROVE IInv'
    OBVIOUS
  <1> USE DEF IInv, TypeOK, MutualExclusion, WordTellsOwner, NoLostWakeup, At,
              Goto, Locations
  <1>1. ASSUME NEW t \in Threads, Lock(t) PROVE IInv'
    BY <1>1 DEF Lock
  <1>2. ASSUME NEW t \in Threads, CompareExchange(t) PROVE IInv'
    <2>1. CASE m_ = 0
      BY <1>2, <2>1 DEF CompareExchange
    <2>2. CASE m_ = 1
      BY <1>2, <2>2 DEF CompareExchange
    <2> QED
      BY <2>1, <2>2
  <1>3. ASSUME NEW t \in Threads, Wait(t) PROVE IInv'
    <2>1. CASE m_ = 0
      BY <1>3, <2>1 DEF Wait
    <2>2. CASE m_ = 1
      BY <1>3, <2>2 DEF Wait
    <2> QED
      BY <2>1, <2>2
  <1>4. ASSUME NEW t \in Threads, SpuriousReturn(t) PROVE IInv'
    BY <1>4 DEF SpuriousReturn
  <1>5. ASSUME NEW t \in Threads, Clear(t) PROVE IInv'
    BY <1>5 DEF Clear
  <1>6. ASSUME NEW t \in Threads, Wake(t) PROVE IInv'
    <2>1. ASSUME NEW s \in At("asleep"),
                 pc' = [pc EXCEPT ![t] = "idle", ![s] = "cas"]
          PROVE  IInv'
      BY <1>6, <2>1 DEF Wake
    <2>2. CASE At("asleep") = {} /\ Goto(t, "idle")
      BY <1>6, <2>2 DEF Wake
    <2> QED
      BY <1>6, <2>1, <2>2 DEF Wake
  <1>7. CASE UNCHANGED vars
    BY <1>7 DEF vars
  <1> QED
    BY <1>1, <1>2, <1>3, <1>4, <1>5, <1>6, <1>7 DEF Next, Step

\* Every behaviour of the mutex keeps the inductive invariant.
THEOREM Invariant == SafeSpec => []IInv
  BY InitIInv, NextIInv, PTL DEF SafeSpec

\* mutex.asm: at most one thread is inside an AutoLock at any time.
THEOREM Exclusion == SafeSpec => []MutualExclusion
  <1>1. IInv => MutualExclusion
    BY DEF IInv
  <1> QED
    BY <1>1, Invariant, PTL

\* mutex.asm: no thread is left asleep on a free mutex with nobody to wake it.
THEOREM WakeupsReachSleepers == SafeSpec => []NoLostWakeup
  <1>1. IInv => NoLostWakeup
    BY DEF IInv
  <1> QED
    BY <1>1, Invariant, PTL

-----------------------------------------------------------------------------
(* The safety half of the refinement.                                      *)

LEMMA HoldersSingle ==
  ASSUME IInv, NEW t \in Threads, pc[t] = "held"
  PROVE  At("held") = {t}
  BY DEF IInv, MutualExclusion, At

LEMMA InitRefines == Init => Abstract!Init
  BY DEF Init, Abstract!Init, holders, wanting, At

LEMMA StepRefines == IInv /\ IInv' /\ [Next]_vars => [Abstract!Next]_Abstract!vars
  <1> SUFFICES ASSUME IInv, IInv', [Next]_vars
               PROVE  [Abstract!Next]_Abstract!vars
    OBVIOUS
  <1> USE DEF Abstract!Next, Abstract!vars
  <1>1. ASSUME NEW t \in Threads, Lock(t)
        PROVE  [Abstract!Next]_Abstract!vars
    <2>1. holders' = holders /\ t \notin holders
      BY <1>1 DEF Lock, Goto, holders, At, IInv, TypeOK
    <2>2. wanting' = wanting \cup {t} /\ t \notin wanting
      BY <1>1 DEF Lock, Goto, wanting, IInv, TypeOK
    <2> QED
      BY <2>1, <2>2 DEF Abstract!Request
  <1>2. ASSUME NEW t \in Threads, CompareExchange(t)
        PROVE  [Abstract!Next]_Abstract!vars
    <2>1. CASE m_ = 0
      <3>1. holders = {}
        BY <2>1 DEF holders, IInv, WordTellsOwner
      <3>2. holders' = {t}
        <4>1. pc'[t] = "held"
          BY <1>2, <2>1 DEF CompareExchange, Goto, IInv, TypeOK
        <4> QED
          BY <4>1 DEF holders, At, IInv, MutualExclusion
      <3>3. wanting' = wanting \ {t} /\ t \in wanting
        BY <1>2, <2>1 DEF CompareExchange, Goto, wanting, IInv, TypeOK
      <3> QED
        BY <3>1, <3>2, <3>3 DEF Abstract!Acquire
    <2>2. CASE m_ # 0
      BY <1>2, <2>2 DEF CompareExchange, Goto, holders, wanting, At, IInv, TypeOK
    <2> QED
      BY <2>1, <2>2
  <1>3. ASSUME NEW t \in Threads, Wait(t) \/ SpuriousReturn(t)
        PROVE  [Abstract!Next]_Abstract!vars
    BY <1>3 DEF Wait, SpuriousReturn, Goto, holders, wanting, At, IInv, TypeOK
  <1>4. ASSUME NEW t \in Threads, Clear(t)
        PROVE  [Abstract!Next]_Abstract!vars
    <2>1. holders = {t}
      BY <1>4, HoldersSingle DEF Clear, holders
    <2>2. holders' = {}
      BY <1>4, <2>1 DEF Clear, Goto, holders, At, IInv, TypeOK
    <2>3. wanting' = wanting
      BY <1>4 DEF Clear, Goto, wanting, IInv, TypeOK
    <2> QED
      BY <2>1, <2>2, <2>3 DEF Abstract!Release
  <1>5. ASSUME NEW t \in Threads, Wake(t)
        PROVE  [Abstract!Next]_Abstract!vars
    BY <1>5 DEF Wake, Goto, holders, wanting, At, IInv, TypeOK
  <1>6. CASE UNCHANGED vars
    BY <1>6 DEF vars, holders, wanting, At
  <1> QED
    BY <1>1, <1>2, <1>3, <1>4, <1>5, <1>6 DEF Next, Step

\* threads::Mutex and mutex.asm implement the abstract lock, safety part.
THEOREM Refinement == SafeSpec => Abstract!SafeSpec
  BY InitRefines, StepRefines, Invariant, PTL DEF SafeSpec, Abstract!SafeSpec

=============================================================================
