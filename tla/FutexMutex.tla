----------------------------- MODULE FutexMutex -----------------------------
(***************************************************************************)
(* threads::Mutex over the routines of mutex.asm: futex_acquire loops over *)
(* a compare-and-swap and a FUTEX_WAIT, futex_release clears the word and  *)
(* then calls FUTEX_WAKE.  One action is one instruction or system call    *)
(* that another thread can tell apart; register moves are left out.        *)
(***************************************************************************)
EXTENDS Integers

CONSTANT Threads    \* the threads that share the mutex

VARIABLES m_,       \* the futex word: 0 when the mutex is free, 1 when it is taken
          pc        \* where each thread stands in lock() ... unlock()

vars == <<m_, pc>>

\* "idle": outside; "cas": about to cmpxchg; "wait": about to call FUTEX_WAIT;
\* "asleep": queued in the kernel; "held": owns the mutex; "wake": has cleared
\* the word and has yet to call FUTEX_WAKE.
Locations == {"idle", "cas", "wait", "asleep", "held", "wake"}

At(l) == {t \in Threads : pc[t] = l}

Goto(t, l) == pc' = [pc EXCEPT ![t] = l]

Init == /\ m_ = 0
        /\ pc = [t \in Threads |-> "idle"]

-----------------------------------------------------------------------------
(* Mutex::lock and futex_acquire.                                          *)

Lock(t) == /\ pc[t] = "idle"
           /\ Goto(t, "cas")
           /\ UNCHANGED m_

\* Mutant: reading the word and writing it are not one locked instruction.
CompareExchangeUnlocked(t) ==
  /\ pc[t] = "cas"
  /\ m_' = 1
  /\ Goto(t, "held")

CompareExchange(t) ==
  /\ pc[t] = "cas"
  /\ IF m_ = 0
       THEN m_' = 1 /\ Goto(t, "held")
       ELSE UNCHANGED m_ /\ Goto(t, "wait")

\* Mutant: the wait does not compare the word with 1 before it sleeps.
WaitUnchecked(t) ==
  /\ pc[t] = "wait"
  /\ Goto(t, "asleep")
  /\ UNCHANGED m_

\* FUTEX_WAIT compares the word with 1 and queues the thread in one step of
\* the kernel; on any other value it returns at once.
Wait(t) ==
  /\ pc[t] = "wait"
  /\ Goto(t, IF m_ = 1 THEN "asleep" ELSE "cas")
  /\ UNCHANGED m_

\* FUTEX_WAIT may return although nobody called FUTEX_WAKE (a signal).
SpuriousReturn(t) ==
  /\ pc[t] = "asleep"
  /\ Goto(t, "cas")
  /\ UNCHANGED m_

-----------------------------------------------------------------------------
(* Mutex::unlock and futex_release.                                        *)

\* Mutant: the word is cleared but the waiters are never woken.
ClearWithoutWake(t) ==
  /\ pc[t] = "held"
  /\ m_' = 0
  /\ Goto(t, "idle")

Clear(t) ==
  /\ pc[t] = "held"
  /\ m_' = 0
  /\ Goto(t, "wake")

\* FUTEX_WAKE with a count of 1: the kernel dequeues one sleeper, if any.
Wake(t) ==
  /\ pc[t] = "wake"
  /\ UNCHANGED m_
  /\ \/ \E s \in At("asleep") :
           pc' = [pc EXCEPT ![t] = "idle", ![s] = "cas"]
     \/ /\ At("asleep") = {}
        /\ Goto(t, "idle")

-----------------------------------------------------------------------------
\* What a thread does on its own once it has called lock().
Step(t) == CompareExchange(t) \/ Wait(t) \/ Clear(t) \/ Wake(t)

Next == \E t \in Threads : Lock(t) \/ Step(t) \/ SpuriousReturn(t)

\* The scheduler runs every thread, and a critical section ends; nobody has to
\* call lock(), and no sleeper may count on a spurious return.
Fairness == \A t \in Threads : WF_vars(Step(t))

SafeSpec == Init /\ [][Next]_vars

Spec == SafeSpec /\ Fairness

-----------------------------------------------------------------------------
(* Properties.                                                             *)

\* The futex word is a bit and every thread stands at a known instruction.
TypeOK == /\ m_ \in {0, 1}
          /\ pc \in [Threads -> Locations]

\* At most one thread is between lock() and unlock() (the AutoLock guards of
\* server.rs and sockets.rs rely on it for every static they protect).
MutualExclusion ==
  \A t, u \in Threads : pc[t] = "held" /\ pc[u] = "held" => t = u

\* The word says whether the mutex is taken: 1 exactly while a thread owns it.
WordTellsOwner == (m_ = 1) <=> (At("held") # {})

\* No lost wakeup: whenever a thread sleeps in FUTEX_WAIT, another one is on its
\* way to waking it -- it owns the mutex, has yet to call FUTEX_WAKE, or is about
\* to retry the compare-and-swap -- although futex_release clears the word and
\* wakes in two separate steps.
NoLostWakeup ==
  At("asleep") # {} =>
    \E t \in Threads : pc[t] \in {"cas", "wait", "held", "wake"}

\* The mutex implements the abstract lock, its liveness included: a mutex some
\* thread wants is not left free for ever, whatever the interleaving of clears,
\* wakes, barging threads and spurious returns.
holders == At("held")

wanting == {t \in Threads : pc[t] \in {"cas", "wait", "asleep"}}

Abstract == INSTANCE AbstractLock
              WITH holders <- holders, wanting <- wanting

ImplementsLock == Abstract!Spec

=============================================================================
