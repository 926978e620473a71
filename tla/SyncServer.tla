------------------------------ MODULE SyncServer ------------------------------
(***************************************************************************)
(* Mutexes, condition variables and barriers as Sniper emulates them for   *)
(* the simulated application (system/sync_server.cc, sync_client.cc): the  *)
(* application's threads call, every call is served under the thread       *)
(* manager's lock, and a thread that has to wait stalls until another      *)
(* thread's call resumes it.                                               *)
(***************************************************************************)
EXTENDS Integers, Sequences, FiniteSets

CONSTANTS Threads, Mutexes, Conds, Barriers,
          MutexOf,   \* the mutex the application uses with each condition
          m_count,   \* the number of threads of each barrier
          TryOwn     \* whether threads try to lock a mutex they hold

NO_OWNER == "NO_OWNER"
None == "none"

ASSUME SyncAssumption ==
    /\ NO_OWNER \notin Threads
    /\ MutexOf \in [Conds -> Mutexes]
    /\ m_count \in [Barriers -> Nat \ {0}]
    /\ TryOwn \in BOOLEAN

VARIABLES m_owner,   \* m_owner[m]
          m_waiting, \* m_waiting[m]: threads that wait for the mutex, in order
          c_waiting, \* c_waiting[c]: threads that wait for a signal, in order
          b_waiting, \* b_waiting[b]: threads that have reached the barrier
          status,    \* the thread manager's view: "RUNNING" or "STALLED"
          call,      \* the call a thread is in, while it waits and until it returns
          holds      \* the mutexes a thread has, as the application sees it

vars == <<m_owner, m_waiting, c_waiting, b_waiting, status, call, holds>>

Calls == [op : {"lock"}, on : Mutexes] \cup [op : {"cond"}, on : Conds]
            \cup [op : {"barrier"}, on : Barriers]
Idle == [op |-> None]

InitUnset ==
    /\ m_owner = [m \in Mutexes |-> None]
    /\ m_waiting = [m \in Mutexes |-> <<>>]
    /\ c_waiting = [c \in Conds |-> <<>>]
    /\ b_waiting = [b \in Barriers |-> <<>>]
    /\ status = [t \in Threads |-> "RUNNING"]
    /\ call = [t \in Threads |-> Idle]
    /\ holds = [t \in Threads |-> {}]
Init ==
    /\ m_owner = [m \in Mutexes |-> NO_OWNER]
    /\ m_waiting = [m \in Mutexes |-> <<>>]
    /\ c_waiting = [c \in Conds |-> <<>>]
    /\ b_waiting = [b \in Barriers |-> <<>>]
    /\ status = [t \in Threads |-> "RUNNING"]
    /\ call = [t \in Threads |-> Idle]
    /\ holds = [t \in Threads |-> {}]

\* t is in the queue q.
In(t, q) == \E i \in DOMAIN q : q[i] = t

Free(t) == status[t] = "RUNNING" /\ call[t] = Idle

\* ThreadManager::stallThread, resumeThread.
stallThread(t, c) ==
    /\ status' = [status EXCEPT ![t] = "STALLED"]
    /\ call' = [call EXCEPT ![t] = c]

resumeThread(t) == status' = [status EXCEPT ![t] = "RUNNING"]

-----------------------------------------------------------------------------
(* SimMutex.                                                               *)

lock(t, m) ==
    \/ /\ m_owner[m] = NO_OWNER
       /\ m_owner' = [m_owner EXCEPT ![m] = t]
       /\ holds' = [holds EXCEPT ![t] = @ \cup {m}]
       /\ UNCHANGED <<m_waiting, status, call>>
    \/ /\ m_owner[m] # NO_OWNER
       /\ m_waiting' = [m_waiting EXCEPT ![m] = Append(@, t)]
       /\ stallThread(t, [op |-> "lock", on |-> m])
       /\ UNCHANGED <<m_owner, holds>>

isLocked(t, m) == m_owner[m] \notin {NO_OWNER, t}

\* What unlock makes of owner and queue; the new owner, if any, is resumed.
unlockKeeping(m) ==
    /\ m_owner' = [m_owner EXCEPT ![m] = IF m_waiting[m] = <<>> THEN NO_OWNER ELSE Head(m_waiting[m])]
    /\ UNCHANGED m_waiting
unlock(m) ==
    IF m_waiting[m] = <<>>
    THEN /\ m_owner' = [m_owner EXCEPT ![m] = NO_OWNER]
         /\ UNCHANGED m_waiting
    ELSE /\ m_owner' = [m_owner EXCEPT ![m] = Head(m_waiting[m])]
         /\ m_waiting' = [m_waiting EXCEPT ![m] = Tail(@)]

UnlockedSilent(st, m) == st
Unlocked(st, m) ==
    IF m_waiting[m] = <<>> THEN st ELSE [st EXCEPT ![Head(m_waiting[m])] = "RUNNING"]

\* The threads ws, woken from a condition, lock m one after the other.
lock_asyncStealing(ws, m) ==
    IF ws = <<>> THEN UNCHANGED <<m_owner, m_waiting, status>>
    ELSE /\ m_owner' = [m_owner EXCEPT ![m] = Head(ws)]
         /\ m_waiting' = [m_waiting EXCEPT ![m] = @ \o Tail(ws)]
         /\ resumeThread(Head(ws))
lock_asyncForgetting(ws, m) ==
    IF ws = <<>> \/ m_owner[m] # NO_OWNER THEN UNCHANGED <<m_owner, m_waiting, status>>
    ELSE /\ m_owner' = [m_owner EXCEPT ![m] = Head(ws)]
         /\ m_waiting' = [m_waiting EXCEPT ![m] = @ \o Tail(ws)]
         /\ resumeThread(Head(ws))
lock_async(ws, m) ==
    \/ /\ ws = <<>>
       /\ UNCHANGED <<m_owner, m_waiting, status>>
    \/ /\ ws # <<>> /\ m_owner[m] = NO_OWNER
       /\ m_owner' = [m_owner EXCEPT ![m] = Head(ws)]
       /\ m_waiting' = [m_waiting EXCEPT ![m] = @ \o Tail(ws)]
       /\ resumeThread(Head(ws))
    \/ /\ ws # <<>> /\ m_owner[m] # NO_OWNER
       /\ m_waiting' = [m_waiting EXCEPT ![m] = @ \o ws]
       /\ UNCHANGED <<m_owner, status>>

-----------------------------------------------------------------------------
(* The calls of the application.                                           *)

mutexLock(t, m) ==
    /\ Free(t) /\ m \notin holds[t]
    /\ lock(t, m)
    /\ UNCHANGED <<c_waiting, b_waiting>>

mutexTrylock(t, m) ==
    /\ Free(t) /\ (m \in holds[t] => TryOwn)
    /\ IF isLocked(t, m) THEN UNCHANGED <<m_owner, m_waiting, status, call, holds>>
       ELSE lock(t, m)
    /\ UNCHANGED <<c_waiting, b_waiting>>

mutexUnlock(t, m) ==
    /\ Free(t) /\ m \in holds[t]
    /\ unlock(m)
    /\ status' = Unlocked(status, m)
    /\ holds' = [holds EXCEPT ![t] = @ \ {m}]
    /\ UNCHANGED <<c_waiting, b_waiting, call>>

condWait(t, c) ==
    /\ Free(t) /\ MutexOf[c] \in holds[t]
    /\ unlock(MutexOf[c])
    /\ c_waiting' = [c_waiting EXCEPT ![c] = Append(@, t)]
    /\ status' = [Unlocked(status, MutexOf[c]) EXCEPT ![t] = "STALLED"]
    /\ call' = [call EXCEPT ![t] = [op |-> "cond", on |-> c]]
    /\ holds' = [holds EXCEPT ![t] = @ \ {MutexOf[c]}]
    /\ UNCHANGED b_waiting

condSignal(t, c) ==
    /\ Free(t)
    /\ IF c_waiting[c] = <<>> THEN UNCHANGED <<m_owner, m_waiting, c_waiting, status>>
       ELSE /\ lock_async(<<Head(c_waiting[c])>>, MutexOf[c])
            /\ c_waiting' = [c_waiting EXCEPT ![c] = Tail(@)]
    /\ UNCHANGED <<b_waiting, call, holds>>

condBroadcast(t, c) ==
    /\ Free(t)
    /\ lock_async(c_waiting[c], MutexOf[c])
    /\ c_waiting' = [c_waiting EXCEPT ![c] = <<>>]
    /\ UNCHANGED <<b_waiting, call, holds>>

Last(b) == Len(b_waiting[b]) = m_count[b] - 1
barrierWait(t, b) ==
    /\ Free(t)
    /\ \/ /\ Last(b)
          /\ status' = [u \in Threads |->
                          IF In(u, b_waiting[b]) THEN "RUNNING" ELSE status[u]]
          /\ b_waiting' = [b_waiting EXCEPT ![b] = <<>>]
          /\ UNCHANGED call
       \/ /\ ~Last(b)
          /\ b_waiting' = [b_waiting EXCEPT ![b] = Append(@, t)]
          /\ stallThread(t, [op |-> "barrier", on |-> b])
    /\ UNCHANGED <<m_owner, m_waiting, c_waiting, holds>>

\* A thread that was resumed returns from its call; lock and wait give it
\* the mutex.
Return(t) ==
    /\ status[t] = "RUNNING" /\ call[t] # Idle
    /\ call' = [call EXCEPT ![t] = Idle]
    /\ holds' = [holds EXCEPT ![t] =
                   IF call[t].op = "lock" THEN @ \cup {call[t].on}
                   ELSE IF call[t].op = "cond" THEN @ \cup {MutexOf[call[t].on]}
                   ELSE @]
    /\ UNCHANGED <<m_owner, m_waiting, c_waiting, b_waiting, status>>

Next ==
    \E t \in Threads :
       \/ \E m \in Mutexes : mutexLock(t, m) \/ mutexTrylock(t, m) \/ mutexUnlock(t, m)
       \/ \E c \in Conds : condWait(t, c) \/ condSignal(t, c) \/ condBroadcast(t, c)
       \/ \E b \in Barriers : barrierWait(t, b)
       \/ Return(t)

Spec == Init /\ [][Next]_vars

\* A thread that is running gets on, and leaves its critical sections.
FairSpec ==
    Spec /\ \A t \in Threads :
              /\ WF_vars(Return(t))
              /\ \A m \in Mutexes : WF_vars(mutexUnlock(t, m))

-----------------------------------------------------------------------------
(* Properties.                                                             *)

\* Every variable has its type.
TypeOK ==
    /\ m_owner \in [Mutexes -> Threads \cup {NO_OWNER}]
    /\ m_waiting \in [Mutexes -> Seq(Threads)]
    /\ c_waiting \in [Conds -> Seq(Threads)]
    /\ b_waiting \in [Barriers -> Seq(Threads)]
    /\ status \in [Threads -> {"RUNNING", "STALLED"}]
    /\ call \in [Threads -> Calls \cup {Idle}]
    /\ holds \in [Threads -> SUBSET Mutexes]

\* The call k ends with its thread having the mutex m.
Wants(k, m) ==
    \/ k.op = "lock" /\ k.on = m
    \/ k.op = "cond" /\ MutexOf[k.on] = m

\* A mutex is held by one thread at a time, and it is the one that the server
\* has as owner: through lock, through an unlock that hands it over, and
\* through a signal that locks it for the thread it wakes.
Exclusion ==
    \A m \in Mutexes : \A t \in Threads :
       (m \in holds[t] \/ (Wants(call[t], m) /\ status[t] = "RUNNING")) <=> m_owner[m] = t

Distinct(q) == \A i, j \in DOMAIN q : q[i] = q[j] => i = j

\* A thread that waits is in the one queue that its call names, or, after a
\* signal, in that of the condition's mutex, and once only; a thread that
\* runs is in none.
WaitsOnce ==
    /\ \A m \in Mutexes :
         /\ Distinct(m_waiting[m])
         /\ \A t \in Threads :
              In(t, m_waiting[m]) => status[t] = "STALLED" /\ Wants(call[t], m)
    /\ \A c \in Conds :
         /\ Distinct(c_waiting[c])
         /\ \A t \in Threads : In(t, c_waiting[c]) =>
              /\ status[t] = "STALLED" /\ call[t] = [op |-> "cond", on |-> c]
              /\ ~In(t, m_waiting[MutexOf[c]])
    /\ \A b \in Barriers :
         /\ Distinct(b_waiting[b])
         /\ \A t \in Threads : In(t, b_waiting[b]) =>
              status[t] = "STALLED" /\ call[t] = [op |-> "barrier", on |-> b]

\* No stalled thread is forgotten: it is in a queue, nobody queues for a
\* mutex that is free, and a barrier never holds back as many threads as it
\* waits for.
NobodyForgotten ==
    /\ \A t \in Threads : status[t] = "STALLED" =>
         \/ \E m \in Mutexes : In(t, m_waiting[m])
         \/ \E c \in Conds : In(t, c_waiting[c])
         \/ \E b \in Barriers : In(t, b_waiting[b])
    /\ \A m \in Mutexes : m_waiting[m] # <<>> => m_owner[m] # NO_OWNER
    /\ \A b \in Barriers : Len(b_waiting[b]) < m_count[b]

\* A trylock models "the real pthread_mutex_trylock" (pthread_emu.cc:150),
\* which never blocks: nobody waits for a mutex that it owns itself.
TrylockReturns ==
    \A t \in Threads, m \in Mutexes :
       status[t] = "STALLED" /\ Wants(call[t], m) => m_owner[m] # t

\* Whoever asks for a mutex gets it, if holders give it back: the queue is
\* served in order, and neither an unlock nor a trylock overtakes it.
LockServed ==
    \A t \in Threads, m \in Mutexes :
       (status[t] = "STALLED" /\ call[t] = [op |-> "lock", on |-> m]) ~> (m \in holds[t])
=============================================================================
