---------------------------- MODULE AbstractLock ----------------------------
(***************************************************************************)
(* What a mutex promises to the threads of the server: a lock has at most  *)
(* one owner, only a thread that asked for it gets it, and a lock that is  *)
(* wanted is not left free for ever.  FutexMutex implements it.            *)
(***************************************************************************)

CONSTANT Threads    \* the threads that use the lock

VARIABLES holders,  \* the threads between lock() and unlock(): none or one
          wanting   \* the threads inside lock()

vars == <<holders, wanting>>

Init == /\ holders = {}
        /\ wanting = {}

Request(t) == /\ t \notin wanting
              /\ t \notin holders
              /\ wanting' = wanting \cup {t}
              /\ UNCHANGED holders

Acquire(t) == /\ t \in wanting
              /\ holders = {}
              /\ holders' = {t}
              /\ wanting' = wanting \ {t}

Release(t) == /\ holders = {t}
              /\ holders' = {}
              /\ UNCHANGED wanting

Next == \E t \in Threads : Request(t) \/ Acquire(t) \/ Release(t)

\* Some thread gets a free lock that is wanted, no matter which: the promise is
\* deadlock freedom, not that each thread has its turn.
Fairness == WF_vars(\E t \in Threads : Acquire(t))

SafeSpec == Init /\ [][Next]_vars

Spec == SafeSpec /\ Fairness

=============================================================================
