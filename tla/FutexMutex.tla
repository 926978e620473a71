------------------------------ MODULE FutexMutex ------------------------------
(***************************************************************************)
(* A client of FutexServer: the low-level lock of the C library, which     *)
(* every pthread mutex of a simulated application ends in.  The word is 0  *)
(* when free, 1 when locked, 2 when somebody may be waiting.  The client   *)
(* is no part of the simulator; it shows that a wait that compares and     *)
(* queues in one step, against stores that take no lock, loses no wake-up. *)
(***************************************************************************)
EXTENDS FutexServer

CONSTANTS Lock,
          Waits     \* the timeouts with which the client waits

VARIABLE pc

lvars == <<vars, pc>>

Go(t, l) == pc' = [pc EXCEPT ![t] = l]

LInit == Init /\ pc = [t \in Threads |-> "out"]

\* lll_lock: compare and exchange 0 by 1 ...
lll_lock(t) ==
    /\ pc[t] = "out"
    /\ \/ word[Lock] = 0 /\ Store(t, Lock, 1) /\ Go(t, "in")
       \/ word[Lock] # 0 /\ Free(t) /\ Go(t, "retry") /\ UNCHANGED vars

\* ... or exchange by 2 until it was 0, waiting while it is 2.
lll_lock_wait(t) ==
    \/ /\ pc[t] = "retry" /\ Store(t, Lock, 2)
       /\ Go(t, IF word[Lock] = 0 THEN "in" ELSE "wait")
    \/ /\ pc[t] = "wait"
       /\ \E n \in Waits : futexWait(t, Lock, 2, WaitEntry(t, "FUTEX_WAIT_BITSET", Any, n))
       /\ Go(t, "retry")

lll_unlock(t) ==
    \/ /\ pc[t] = "in" /\ Store(t, Lock, 0)
       /\ Go(t, IF word[Lock] = 2 THEN "wake" ELSE "out")
    \/ /\ pc[t] = "wake" /\ futexWake(t, Lock, 1, "FUTEX_WAKE", {}) /\ Go(t, "out")

ThreadStep(t) ==
    \/ lll_lock_wait(t) \/ lll_unlock(t)
    \/ Return(t) /\ UNCHANGED pc

LNext ==
    \/ \E t \in Threads : lll_lock(t) \/ ThreadStep(t)
    \/ Ticking /\ futexPeriodic /\ UNCHANGED pc

\* A thread that has begun to lock or holds the lock gets on; time passes.
LSpec ==
    /\ LInit /\ [][LNext]_lvars
    /\ \A t \in Threads : WF_lvars(ThreadStep(t))
    /\ WF_lvars(Ticking /\ futexPeriodic /\ UNCHANGED pc)

Waiting(t) == status[t] = "STALLED"
OnItsWay(t) == status[t] = "RUNNING" /\ pc[t] \in {"retry", "wait"}

\* No wake-up is lost: while a thread waits for a lock that is free, somebody
\* is about to wake a waiter or to try the lock itself.
NobodyStranded ==
    (word[Lock] = 0 /\ \E t \in Threads : Waiting(t))
       => \E t \in Threads : pc[t] = "wake" \/ OnItsWay(t)

\* A thread that waits for the lock is followed by one that gets it.
LockMoves == (\E t \in Threads : Waiting(t)) ~> (\E t \in Threads : pc[t] = "in")
=============================================================================
