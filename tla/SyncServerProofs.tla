--------------------------- MODULE SyncServerProofs ---------------------------
(***************************************************************************)
(* Proofs about the synchronisation server, for every number of threads,   *)
(* mutexes, conditions and barriers.  The inductive invariant is the       *)
(* conjunction of the properties themselves: who owns what (Exclusion)     *)
(* needs that a queued thread is stalled and wants the mutex (WaitsOnce),  *)
(* and that in turn needs that only the owner unlocks.                     *)
(***************************************************************************)
EXTENDS SyncServer, TLAPS

-----------------------------------------------------------------------------
(* Queues.                                                                 *)

\* Nobody is in an empty queue.
LEMMA EmptyQueue == Distinct(<<>>) /\ \A t : ~In(t, <<>>)
  BY DEF Distinct, In

\* push puts a thread into a queue and leaves the others in it.
LEMMA PushQueue ==
  ASSUME NEW q \in Seq(Threads), NEW x \in Threads
  PROVE  /\ Append(q, x) \in Seq(Threads) /\ Append(q, x) # <<>>
         /\ Len(Append(q, x)) = Len(q) + 1
         /\ \A t : In(t, Append(q, x)) <=> In(t, q) \/ t = x
         /\ Distinct(q) /\ ~In(x, q) => Distinct(Append(q, x))
<1>1. /\ Append(q, x) \in Seq(Threads)
      /\ Len(Append(q, x)) = Len(q) + 1 /\ Len(q) \in Nat
  OBVIOUS
<1>5. Append(q, x) # <<>>
  BY <1>1
<1>2. /\ DOMAIN Append(q, x) = 1 .. Len(q) + 1
      /\ DOMAIN q = 1 .. Len(q) /\ Len(q) \in Nat
      /\ Append(q, x)[Len(q) + 1] = x
      /\ \A i \in 1 .. Len(q) : Append(q, x)[i] = q[i]
  OBVIOUS
<1>3. \A t : In(t, Append(q, x)) <=> In(t, q) \/ t = x
  BY <1>2 DEF In
<1>4. Distinct(q) /\ ~In(x, q) => Distinct(Append(q, x))
  BY <1>2 DEF Distinct, In
<1> QED
  BY <1>1, <1>3, <1>4, <1>5

\* pop takes the first thread out and leaves the others in the queue.
LEMMA PopQueue ==
  ASSUME NEW q \in Seq(Threads), q # <<>>, Distinct(q)
  PROVE  /\ Tail(q) \in Seq(Threads) /\ Head(q) \in Threads
         /\ In(Head(q), q) /\ ~In(Head(q), Tail(q))
         /\ Distinct(Tail(q))
         /\ \A t : In(t, Tail(q)) <=> In(t, q) /\ t # Head(q)
<1>1. /\ Tail(q) \in Seq(Threads) /\ Head(q) \in Threads
      /\ Len(q) \in Nat \ {0} /\ DOMAIN q = 1 .. Len(q) /\ Head(q) = q[1]
      /\ DOMAIN Tail(q) = 1 .. Len(q) - 1
      /\ \A i \in 1 .. Len(q) - 1 : Tail(q)[i] = q[i + 1]
  OBVIOUS
<1>2. In(Head(q), q) /\ ~In(Head(q), Tail(q))
  BY <1>1 DEF In, Distinct
<1>3. Distinct(Tail(q))
  BY <1>1 DEF Distinct
<1>4. ASSUME NEW t, In(t, q), t # Head(q) PROVE In(t, Tail(q))
  <2>1. PICK i \in 1 .. Len(q) : q[i] = t
    BY <1>1, <1>4 DEF In
  <2>2. i - 1 \in 1 .. Len(q) - 1 /\ Tail(q)[i - 1] = t
    BY <1>1, <1>4, <2>1
  <2> QED
    BY <1>1, <2>2, Zenon DEF In
<1>5. ASSUME NEW t, In(t, Tail(q)) PROVE In(t, q) /\ t # Head(q)
  BY <1>1, <1>2, <1>5 DEF In
<1> QED
  BY <1>1, <1>2, <1>3, <1>4, <1>5

\* Pushing a whole queue.
LEMMA JoinQueues ==
  ASSUME NEW p \in Seq(Threads), NEW q \in Seq(Threads)
  PROVE  /\ p \o q \in Seq(Threads)
         /\ p \o q # <<>> => p # <<>> \/ q # <<>>
         /\ \A t : In(t, p \o q) <=> In(t, p) \/ In(t, q)
         /\ Distinct(p) /\ Distinct(q) /\ (\A t \in Threads : ~(In(t, p) /\ In(t, q)))
              => Distinct(p \o q)
<1>1. /\ p \o q \in Seq(Threads)
      /\ p \o q # <<>> => p # <<>> \/ q # <<>>
  OBVIOUS
<1>2. /\ Len(p) \in Nat /\ Len(q) \in Nat
      /\ DOMAIN p = 1 .. Len(p) /\ DOMAIN q = 1 .. Len(q)
      /\ DOMAIN (p \o q) = 1 .. Len(p) + Len(q)
      /\ \A i \in 1 .. Len(p) : (p \o q)[i] = p[i]
      /\ \A i \in Len(p) + 1 .. Len(p) + Len(q) :
           (p \o q)[i] = q[i - Len(p)] /\ i - Len(p) \in 1 .. Len(q)
      /\ \A i \in 1 .. Len(q) :
           Len(p) + i \in Len(p) + 1 .. Len(p) + Len(q) /\ (Len(p) + i) - Len(p) = i
      /\ \A i \in 1 .. Len(p) : p[i] \in Threads
  OBVIOUS
<1>3. \A i \in 1 .. Len(p) + Len(q) : i \in 1 .. Len(p) \/ i \in Len(p) + 1 .. Len(p) + Len(q)
  BY <1>2
<1>4. ASSUME NEW t PROVE In(t, p \o q) <=> In(t, p) \/ In(t, q)
  <2>1. In(t, p \o q) => In(t, p) \/ In(t, q)
    BY <1>2, <1>3 DEF In
  <2>2. In(t, p) => In(t, p \o q)
    BY <1>2 DEF In
  <2>3. In(t, q) => In(t, p \o q)
    <3>1. ASSUME NEW i \in 1 .. Len(q), q[i] = t
          PROVE  Len(p) + i \in DOMAIN (p \o q) /\ (p \o q)[Len(p) + i] = t
      BY <1>2, <3>1
    <3> QED
      BY <1>2, <3>1, SMTT(20) DEF In
  <2> QED
    BY <2>1, <2>2, <2>3
<1>5. ASSUME Distinct(p), Distinct(q), \A t \in Threads : ~(In(t, p) /\ In(t, q)),
             NEW i \in 1 .. Len(p) + Len(q), NEW j \in 1 .. Len(p) + Len(q),
             (p \o q)[i] = (p \o q)[j]
      PROVE  i = j
  <2>1. CASE i \in 1 .. Len(p) /\ j \in 1 .. Len(p)
    BY <1>2, <1>5, <2>1 DEF Distinct
  <2>2. CASE i \in Len(p) + 1 .. Len(p) + Len(q) /\ j \in Len(p) + 1 .. Len(p) + Len(q)
    <3>1. i - Len(p) = j - Len(p)
      BY <1>2, <1>5, <2>2 DEF Distinct
    <3> QED
      BY <1>2, <3>1
  <2>3. CASE i \in 1 .. Len(p) /\ j \in Len(p) + 1 .. Len(p) + Len(q)
    BY <1>2, <1>5, <2>3 DEF In
  <2>4. CASE j \in 1 .. Len(p) /\ i \in Len(p) + 1 .. Len(p) + Len(q)
    BY <1>2, <1>5, <2>4 DEF In
  <2> QED
    BY <1>3, <2>1, <2>2, <2>3, <2>4
<1> QED
  BY <1>1, <1>2, <1>4, <1>5 DEF Distinct

-----------------------------------------------------------------------------
(* Calls.                                                                  *)

\* What the calls ask for.
LEMMA CallsWant ==
  /\ Idle \notin Calls
  /\ \A m : ~Wants(Idle, m)
  /\ \A m, n : Wants([op |-> "lock", on |-> m], n) <=> n = m
  /\ \A c, n : Wants([op |-> "cond", on |-> c], n) <=> n = MutexOf[c]
  /\ \A b, n : ~Wants([op |-> "barrier", on |-> b], n)
  /\ \A m, c : [op |-> "lock", on |-> m] # [op |-> "cond", on |-> c]
  /\ \A b, c : [op |-> "barrier", on |-> b] # [op |-> "cond", on |-> c]
  /\ \A b, a : [op |-> "barrier", on |-> b] = [op |-> "barrier", on |-> a] => a = b
  /\ \A c, d : [op |-> "cond", on |-> c] = [op |-> "cond", on |-> d] => c = d
  /\ \A m : [op |-> "lock", on |-> m] # Idle
  /\ \A c : [op |-> "cond", on |-> c] # Idle
  /\ \A b : [op |-> "barrier", on |-> b] # Idle
  BY DEF Idle, Calls, Wants, None

\* The call of a thread is one of the three kinds.
LEMMA CallKinds ==
  ASSUME NEW k \in Calls
  PROVE  \/ \E m \in Mutexes : k = [op |-> "lock", on |-> m]
         \/ \E c \in Conds : k = [op |-> "cond", on |-> c]
         \/ \E b \in Barriers : k = [op |-> "barrier", on |-> b]
  BY DEF Calls

LEMMA CallsTyped ==
  /\ \A m \in Mutexes : [op |-> "lock", on |-> m] \in Calls
  /\ \A c \in Conds : [op |-> "cond", on |-> c] \in Calls
  /\ \A b \in Barriers : [op |-> "barrier", on |-> b] \in Calls
  /\ \A k : \A m, n : Wants(k, m) /\ Wants(k, n) => m = n
  BY DEF Calls, Wants

-----------------------------------------------------------------------------
(* The invariant.                                                          *)

IInv == TypeOK /\ Exclusion /\ WaitsOnce /\ NobodyForgotten

\* A thread that is free is in no queue, and its mutexes are those that it
\* owns.
LEMMA FreeThread ==
  ASSUME IInv, NEW t \in Threads, Free(t)
  PROVE  /\ \A m \in Mutexes : ~In(t, m_waiting[m])
         /\ \A c \in Conds : ~In(t, c_waiting[c])
         /\ \A b \in Barriers : ~In(t, b_waiting[b])
         /\ \A m \in Mutexes : m \in holds[t] <=> m_owner[m] = t
  BY CallsWant, Zenon DEF IInv, WaitsOnce, Exclusion, Free

\* A thread that waits for a mutex is in no other queue.
LEMMA OneQueue ==
  ASSUME IInv, NEW m \in Mutexes, NEW u \in Threads, In(u, m_waiting[m])
  PROVE  /\ \A n \in Mutexes : n # m => ~In(u, m_waiting[n])
         /\ \A c \in Conds : ~In(u, c_waiting[c])
         /\ \A b \in Barriers : ~In(u, b_waiting[b])
<1>1. Wants(call[u], m)
  BY DEF IInv, WaitsOnce
<1>2. ASSUME NEW n \in Mutexes, n # m PROVE ~In(u, m_waiting[n])
  BY <1>1, <1>2, CallsTyped DEF IInv, WaitsOnce
<1>3. ASSUME NEW c \in Conds, In(u, c_waiting[c]) PROVE FALSE
  <2>1. call[u] = [op |-> "cond", on |-> c] /\ ~In(u, m_waiting[MutexOf[c]])
    BY <1>3 DEF IInv, WaitsOnce
  <2>2. m = MutexOf[c]
    BY <1>1, <2>1, CallsWant
  <2> QED
    BY <2>1, <2>2
<1>4. ASSUME NEW b \in Barriers, In(u, b_waiting[b]) PROVE FALSE
  <2>1. call[u] = [op |-> "barrier", on |-> b]
    BY <1>4 DEF IInv, WaitsOnce
  <2> QED
    BY <1>1, <2>1, CallsWant
<1> QED
  BY <1>2, <1>3, <1>4

\* A step that changes nothing keeps the invariant.
LEMMA StutterInv == ASSUME IInv, UNCHANGED vars PROVE IInv'
<1>1. TypeOK'
  BY DEF IInv, TypeOK, vars
<1>2. Exclusion'
  BY DEF IInv, Exclusion, vars
<1>3. WaitsOnce'
  BY DEF IInv, WaitsOnce, vars
<1>4. NobodyForgotten'
  BY DEF IInv, NobodyForgotten, vars
<1> QED
  BY <1>1, <1>2, <1>3, <1>4 DEF IInv

\* Initially nobody waits and nobody owns anything.
LEMMA InitInv == Init => IInv
<1> SUFFICES ASSUME Init PROVE IInv
  OBVIOUS
<1>1. TypeOK
  BY DEF Init, TypeOK
<1>2. Exclusion
  BY SyncAssumption, CallsWant DEF Init, Exclusion
<1>3. WaitsOnce
  BY EmptyQueue DEF Init, WaitsOnce
<1>4. NobodyForgotten
  BY SyncAssumption DEF Init, NobodyForgotten
<1> QED
  BY <1>1, <1>2, <1>3, <1>4 DEF IInv

\* lock: the caller becomes the owner of a free mutex, or the last in its
\* queue.
LEMMA LockInv ==
  ASSUME IInv, NEW t \in Threads, NEW m \in Mutexes, Free(t),
         lock(t, m), UNCHANGED <<c_waiting, b_waiting>>
  PROVE  IInv'
<1>1. CASE m_owner[m] = NO_OWNER
  <2>1. /\ m_owner' = [m_owner EXCEPT ![m] = t]
        /\ holds' = [holds EXCEPT ![t] = @ \cup {m}]
        /\ UNCHANGED <<m_waiting, c_waiting, b_waiting, status, call>>
    BY <1>1 DEF lock
  <2>2. TypeOK'
    BY <2>1 DEF IInv, TypeOK
  <2>3. Exclusion'
    BY <1>1, <2>1, SyncAssumption, FreeThread, CallsWant DEF IInv, TypeOK, Exclusion, Free
  <2>4. WaitsOnce'
    BY <2>1 DEF IInv, WaitsOnce
  <2>5. NobodyForgotten'
    BY <2>1, SyncAssumption, Zenon DEF IInv, TypeOK, NobodyForgotten
  <2> QED
    BY <2>2, <2>3, <2>4, <2>5 DEF IInv
<1>2. CASE m_owner[m] # NO_OWNER
  <2>1. /\ m_waiting' = [m_waiting EXCEPT ![m] = Append(@, t)]
        /\ status' = [status EXCEPT ![t] = "STALLED"]
        /\ call' = [call EXCEPT ![t] = [op |-> "lock", on |-> m]]
        /\ UNCHANGED <<m_owner, holds, c_waiting, b_waiting>>
    BY <1>2 DEF lock, stallThread
  <2>2. m_waiting[m] \in Seq(Threads)
    BY DEF IInv, TypeOK
  <2>3. TypeOK'
    BY <2>1, <2>2, PushQueue, CallsTyped DEF IInv, TypeOK
  <2>4. Exclusion'
    BY <2>1, FreeThread, CallsWant DEF IInv, TypeOK, Exclusion, Free
  <2>5. WaitsOnce'
    BY <2>1, <2>2, PushQueue, FreeThread, CallsWant DEF IInv, TypeOK, WaitsOnce
  <2>6. NobodyForgotten'
    BY <1>2, <2>1, <2>2, PushQueue, Zenon DEF IInv, TypeOK, NobodyForgotten
  <2> QED
    BY <2>3, <2>4, <2>5, <2>6 DEF IInv
<1> QED
  BY <1>1, <1>2

\* unlock: the owner gives the mutex back, or to the first in the queue.
LEMMA UnlockInv ==
  ASSUME IInv, NEW t \in Threads, NEW m \in Mutexes, mutexUnlock(t, m)
  PROVE  IInv'
<1>0. /\ Free(t) /\ m \in holds[t] /\ m_owner[m] = t
      /\ holds' = [holds EXCEPT ![t] = @ \ {m}]
      /\ UNCHANGED <<c_waiting, b_waiting, call>>
      /\ m_waiting[m] \in Seq(Threads) /\ Distinct(m_waiting[m])
  BY FreeThread DEF mutexUnlock, IInv, TypeOK, WaitsOnce
<1>1. CASE m_waiting[m] = <<>>
  <2>1. /\ m_owner' = [m_owner EXCEPT ![m] = NO_OWNER]
        /\ UNCHANGED <<m_waiting, status>>
    BY <1>1 DEF mutexUnlock, unlock, Unlocked
  <2>2. TypeOK'
    BY <1>0, <2>1 DEF IInv, TypeOK
  <2>3. Exclusion'
    BY <1>0, <2>1, SyncAssumption, FreeThread, CallsWant DEF IInv, TypeOK, Exclusion, Free
  <2>4. WaitsOnce'
    BY <1>0, <2>1 DEF IInv, WaitsOnce
  <2>5. NobodyForgotten'
    BY <1>0, <1>1, <2>1, SyncAssumption, Zenon DEF IInv, TypeOK, NobodyForgotten
  <2> QED
    BY <2>2, <2>3, <2>4, <2>5 DEF IInv
<1>2. CASE m_waiting[m] # <<>>
  <2> DEFINE u == Head(m_waiting[m])
  <2>1. /\ m_owner' = [m_owner EXCEPT ![m] = u]
        /\ m_waiting' = [m_waiting EXCEPT ![m] = Tail(@)]
        /\ status' = [status EXCEPT ![u] = "RUNNING"]
    BY <1>2 DEF mutexUnlock, unlock, Unlocked
  <2>2. /\ u \in Threads /\ Tail(m_waiting[m]) \in Seq(Threads)
        /\ In(u, m_waiting[m]) /\ ~In(u, Tail(m_waiting[m])) /\ Distinct(Tail(m_waiting[m]))
        /\ \A x : In(x, Tail(m_waiting[m])) <=> In(x, m_waiting[m]) /\ x # u
    BY <1>0, <1>2, PopQueue
  <2>3. status[u] = "STALLED" /\ Wants(call[u], m) /\ u # t
    BY <1>0, <2>2 DEF IInv, WaitsOnce, Free
  <2> HIDE DEF u
  <2>4. TypeOK'
    BY <1>0, <2>1, <2>2 DEF IInv, TypeOK
  <2>5. Exclusion'
    BY <1>0, <2>1, <2>2, <2>3, CallsTyped, CallsWant, FreeThread DEF IInv, TypeOK, Exclusion, Free
  <2>6. WaitsOnce'
    <3>1. /\ \A n \in Mutexes : n # m => ~In(u, m_waiting[n])
          /\ \A c \in Conds : ~In(u, c_waiting[c])
          /\ \A b \in Barriers : ~In(u, b_waiting[b])
      BY <1>0, <2>2, OneQueue
    <3>2. ASSUME NEW n \in Mutexes
          PROVE  /\ Distinct(m_waiting'[n])
                 /\ \A x \in Threads : In(x, m_waiting'[n]) => status'[x] = "STALLED" /\ Wants(call'[x], n)
      BY <1>0, <2>1, <2>2, <3>1, SyncAssumption DEF IInv, TypeOK, WaitsOnce
    <3>3. ASSUME NEW d \in Conds
          PROVE  /\ Distinct(c_waiting'[d])
                 /\ \A x \in Threads : In(x, c_waiting'[d]) =>
                      /\ status'[x] = "STALLED" /\ call'[x] = [op |-> "cond", on |-> d]
                      /\ ~In(x, m_waiting'[MutexOf[d]])
      BY <1>0, <2>1, <2>2, <3>1, SyncAssumption DEF IInv, TypeOK, WaitsOnce
    <3>4. ASSUME NEW b \in Barriers
          PROVE  /\ Distinct(b_waiting'[b])
                 /\ \A x \in Threads : In(x, b_waiting'[b]) =>
                      status'[x] = "STALLED" /\ call'[x] = [op |-> "barrier", on |-> b]
      BY <1>0, <2>1, <2>2, <3>1, SyncAssumption DEF IInv, TypeOK, WaitsOnce
    <3> QED
      BY <3>2, <3>3, <3>4 DEF WaitsOnce
  <2>7. NobodyForgotten'
    BY <1>0, <2>1, <2>2, SyncAssumption, Zenon DEF IInv, TypeOK, NobodyForgotten
  <2> QED
    BY <2>4, <2>5, <2>6, <2>7 DEF IInv
<1> QED
  BY <1>1, <1>2

\* wait: unlock, and the caller becomes the last in the condition's queue.
LEMMA CondWaitInv ==
  ASSUME IInv, NEW t \in Threads, NEW c \in Conds, condWait(t, c)
  PROVE  IInv'
<1> DEFINE m == MutexOf[c]
<1>0. /\ m \in Mutexes /\ Free(t) /\ m \in holds[t] /\ m_owner[m] = t
      /\ holds' = [holds EXCEPT ![t] = @ \ {m}]
      /\ c_waiting' = [c_waiting EXCEPT ![c] = Append(@, t)]
      /\ call' = [call EXCEPT ![t] = [op |-> "cond", on |-> c]]
      /\ UNCHANGED b_waiting
      /\ m_waiting[m] \in Seq(Threads) /\ Distinct(m_waiting[m]) /\ c_waiting[c] \in Seq(Threads)
  BY SyncAssumption, FreeThread DEF condWait, IInv, TypeOK, WaitsOnce
<1>1. CASE m_waiting[m] = <<>>
  <2>1. /\ m_owner' = [m_owner EXCEPT ![m] = NO_OWNER]
        /\ status' = [status EXCEPT ![t] = "STALLED"]
        /\ UNCHANGED m_waiting
    BY <1>1 DEF condWait, unlock, Unlocked
  <2> HIDE DEF m
  <2>2. TypeOK'
    BY <1>0, <2>1, PushQueue, CallsTyped DEF IInv, TypeOK
  <2>3. Exclusion'
    BY <1>0, <2>1, SyncAssumption, FreeThread, CallsWant DEF IInv, TypeOK, Exclusion, Free
  <2>4. WaitsOnce'
    <3>1. ASSUME NEW n \in Mutexes
          PROVE  /\ Distinct(m_waiting'[n])
                 /\ \A x \in Threads : In(x, m_waiting'[n]) => status'[x] = "STALLED" /\ Wants(call'[x], n)
      BY <1>0, <2>1, PushQueue, FreeThread, CallsWant, SyncAssumption DEF IInv, TypeOK, WaitsOnce, m
    <3>2. ASSUME NEW d \in Conds
          PROVE  /\ Distinct(c_waiting'[d])
                 /\ \A x \in Threads : In(x, c_waiting'[d]) =>
                      /\ status'[x] = "STALLED" /\ call'[x] = [op |-> "cond", on |-> d]
                      /\ ~In(x, m_waiting'[MutexOf[d]])
      BY <1>0, <2>1, PushQueue, FreeThread, CallsWant, SyncAssumption DEF IInv, TypeOK, WaitsOnce, m
    <3>3. ASSUME NEW b \in Barriers
          PROVE  /\ Distinct(b_waiting'[b])
                 /\ \A x \in Threads : In(x, b_waiting'[b]) =>
                      status'[x] = "STALLED" /\ call'[x] = [op |-> "barrier", on |-> b]
      BY <1>0, <2>1, PushQueue, FreeThread, CallsWant, SyncAssumption DEF IInv, TypeOK, WaitsOnce, m
    <3> QED
      BY <3>1, <3>2, <3>3 DEF WaitsOnce
  <2>5. NobodyForgotten'
    <3>1. ASSUME NEW x \in Threads, status'[x] = "STALLED"
          PROVE  \/ \E n \in Mutexes : In(x, m_waiting'[n])
                 \/ \E d \in Conds : In(x, c_waiting'[d])
                 \/ \E b \in Barriers : In(x, b_waiting'[b])
      <4>1. \A y : In(y, c_waiting'[c]) <=> In(y, c_waiting[c]) \/ y = t
        BY <1>0, PushQueue DEF IInv, TypeOK
      <4>2. \A d \in Conds : d # c => c_waiting'[d] = c_waiting[d]
        BY <1>0 DEF IInv, TypeOK
      <4> QED
        BY <1>0, <1>1, <2>1, <3>1, <4>1, <4>2, Zenon DEF IInv, TypeOK, NobodyForgotten
    <3>2. \A n \in Mutexes : m_waiting'[n] # <<>> => m_owner'[n] # NO_OWNER
      BY <1>0, <1>1, <2>1, SyncAssumption DEF IInv, TypeOK, NobodyForgotten
    <3>3. \A b \in Barriers : Len(b_waiting'[b]) < m_count[b]
      BY <1>0 DEF IInv, NobodyForgotten
    <3> QED
      BY <3>1, <3>2, <3>3 DEF NobodyForgotten
  <2> QED
    BY <2>2, <2>3, <2>4, <2>5 DEF IInv
<1>2. CASE m_waiting[m] # <<>>
  <2> DEFINE u == Head(m_waiting[m])
  <2>1. /\ m_owner' = [m_owner EXCEPT ![m] = u]
        /\ m_waiting' = [m_waiting EXCEPT ![m] = Tail(@)]
        /\ status' = [[status EXCEPT ![u] = "RUNNING"] EXCEPT ![t] = "STALLED"]
    BY <1>2 DEF condWait, unlock, Unlocked
  <2>2. /\ u \in Threads /\ Tail(m_waiting[m]) \in Seq(Threads)
        /\ In(u, m_waiting[m]) /\ ~In(u, Tail(m_waiting[m])) /\ Distinct(Tail(m_waiting[m]))
        /\ \A x : In(x, Tail(m_waiting[m])) <=> In(x, m_waiting[m]) /\ x # u
    BY <1>0, <1>2, PopQueue
  <2>3. status[u] = "STALLED" /\ Wants(call[u], m) /\ u # t
    BY <1>0, <2>2 DEF IInv, WaitsOnce, Free
  <2> HIDE DEF u, m
  <2>4. TypeOK'
    <3>1. /\ m_owner' \in [Mutexes -> Threads \cup {NO_OWNER}]
          /\ m_waiting' \in [Mutexes -> Seq(Threads)]
          /\ holds' \in [Threads -> SUBSET Mutexes]
      BY <1>0, <2>1, <2>2 DEF IInv, TypeOK
    <3>2. /\ status' \in [Threads -> {"RUNNING", "STALLED"}]
          /\ call' \in [Threads -> Calls \cup {Idle}]
      BY <1>0, <2>1, <2>2, CallsTyped DEF IInv, TypeOK
    <3>3. /\ c_waiting' \in [Conds -> Seq(Threads)]
          /\ b_waiting' \in [Barriers -> Seq(Threads)]
      BY <1>0, PushQueue DEF IInv, TypeOK
    <3> QED
      BY <3>1, <3>2, <3>3 DEF TypeOK
  <2>5. Exclusion'
    BY <1>0, <2>1, <2>2, <2>3, CallsTyped, CallsWant, FreeThread DEF IInv, TypeOK, Exclusion, Free
  <2>6. WaitsOnce'
    <3>1. /\ \A n \in Mutexes : n # m => ~In(u, m_waiting[n])
          /\ \A d \in Conds : ~In(u, c_waiting[d])
          /\ \A b \in Barriers : ~In(u, b_waiting[b])
      BY <1>0, <2>2, OneQueue
    <3>2. ASSUME NEW n \in Mutexes
          PROVE  /\ Distinct(m_waiting'[n])
                 /\ \A x \in Threads : In(x, m_waiting'[n]) => status'[x] = "STALLED" /\ Wants(call'[x], n)
      BY <1>0, <2>1, <2>2, <3>1, PushQueue, FreeThread, CallsWant, SyncAssumption DEF IInv, TypeOK, WaitsOnce, m
    <3>3. ASSUME NEW d \in Conds
          PROVE  /\ Distinct(c_waiting'[d])
                 /\ \A x \in Threads : In(x, c_waiting'[d]) =>
                      /\ status'[x] = "STALLED" /\ call'[x] = [op |-> "cond", on |-> d]
                      /\ ~In(x, m_waiting'[MutexOf[d]])
      BY <1>0, <2>1, <2>2, <3>1, PushQueue, FreeThread, CallsWant, SyncAssumption DEF IInv, TypeOK, WaitsOnce, m
    <3>4. ASSUME NEW b \in Barriers
          PROVE  /\ Distinct(b_waiting'[b])
                 /\ \A x \in Threads : In(x, b_waiting'[b]) =>
                      status'[x] = "STALLED" /\ call'[x] = [op |-> "barrier", on |-> b]
      BY <1>0, <2>1, <2>2, <3>1, PushQueue, FreeThread, CallsWant, SyncAssumption DEF IInv, TypeOK, WaitsOnce, m
    <3> QED
      BY <3>2, <3>3, <3>4 DEF WaitsOnce
  <2>7. NobodyForgotten'
    <3>1. ASSUME NEW x \in Threads, status'[x] = "STALLED"
          PROVE  \/ \E n \in Mutexes : In(x, m_waiting'[n])
                 \/ \E d \in Conds : In(x, c_waiting'[d])
                 \/ \E b \in Barriers : In(x, b_waiting'[b])
      <4>1. \A y : In(y, c_waiting'[c]) <=> In(y, c_waiting[c]) \/ y = t
        BY <1>0, PushQueue DEF IInv, TypeOK
      <4>2. \A d \in Conds : d # c => c_waiting'[d] = c_waiting[d]
        BY <1>0 DEF IInv, TypeOK
      <4> QED
        BY <1>0, <2>1, <2>2, <3>1, <4>1, <4>2, Zenon DEF IInv, TypeOK, NobodyForgotten
    <3>2. \A n \in Mutexes : m_waiting'[n] # <<>> => m_owner'[n] # NO_OWNER
      BY <1>0, <2>1, <2>2, SyncAssumption DEF IInv, TypeOK, NobodyForgotten
    <3>3. \A b \in Barriers : Len(b_waiting'[b]) < m_count[b]
      BY <1>0 DEF IInv, NobodyForgotten
    <3> QED
      BY <3>1, <3>2, <3>3 DEF NobodyForgotten
  <2> QED
    BY <2>4, <2>5, <2>6, <2>7 DEF IInv
<1> QED
  BY <1>1, <1>2

\* signal and broadcast: the threads ws leave the queue of c, the others
\* (rest) stay, and ws lock the mutex one after the other.
LEMMA WakeInv ==
  ASSUME IInv, NEW c \in Conds, NEW ws \in Seq(Threads), NEW rest \in Seq(Threads),
         Distinct(ws), Distinct(rest),
         \A x : In(x, c_waiting[c]) <=> In(x, ws) \/ In(x, rest),
         \A x : ~(In(x, ws) /\ In(x, rest)),
         lock_async(ws, MutexOf[c]),
         c_waiting' = [c_waiting EXCEPT ![c] = rest],
         UNCHANGED <<b_waiting, call, holds>>
  PROVE  IInv'
<1> DEFINE m == MutexOf[c]
<1>0. /\ m \in Mutexes /\ m_waiting[m] \in Seq(Threads) /\ Distinct(m_waiting[m])
      /\ \A x : In(x, c_waiting'[c]) <=> In(x, rest)
      /\ c_waiting'[c] = rest
      /\ \A d \in Conds : d # c => c_waiting'[d] = c_waiting[d]
      /\ c_waiting' \in [Conds -> Seq(Threads)]
  <2>0. c_waiting \in [Conds -> Seq(Threads)]
    BY Zenon DEF IInv, TypeOK
  <2>1. m \in Mutexes /\ c_waiting \in [Conds -> Seq(Threads)]
    BY <2>0, SyncAssumption
  <2>2. m_waiting[m] \in Seq(Threads)
    BY <2>1 DEF IInv, TypeOK
  <2>3. Distinct(m_waiting[m])
    BY <2>1 DEF IInv, WaitsOnce
  <2> QED
    BY <2>1, <2>2, <2>3
<1>1. ASSUME NEW x \in Threads, In(x, ws)
      PROVE  /\ status[x] = "STALLED" /\ call[x] = [op |-> "cond", on |-> c] /\ Wants(call[x], m)
             /\ \A n \in Mutexes : ~In(x, m_waiting[n])
             /\ \A d \in Conds : d # c => ~In(x, c_waiting[d])
             /\ \A b \in Barriers : ~In(x, b_waiting[b])
  <2>1. /\ status[x] = "STALLED" /\ call[x] = [op |-> "cond", on |-> c]
        /\ ~In(x, m_waiting[m])
    BY <1>1 DEF IInv, WaitsOnce
  <2>2. Wants(call[x], m)
    BY <2>1, CallsWant
  <2>3. \A n \in Mutexes : ~In(x, m_waiting[n])
    BY <1>0, <2>1, <2>2, CallsTyped DEF IInv, WaitsOnce
  <2>4. ASSUME NEW d \in Conds, d # c, In(x, c_waiting[d]) PROVE FALSE
    <3>1. call[x] = [op |-> "cond", on |-> d]
      BY <2>4 DEF IInv, WaitsOnce
    <3> QED
      BY <2>1, <2>4, <3>1, CallsWant
  <2>5. ASSUME NEW b \in Barriers, In(x, b_waiting[b]) PROVE FALSE
    <3>1. call[x] = [op |-> "barrier", on |-> b]
      BY <2>5 DEF IInv, WaitsOnce
    <3> QED
      BY <2>1, <3>1, CallsWant
  <2> QED
    BY <2>1, <2>2, <2>3, <2>4, <2>5
<1>2. CASE ws = <<>>
  <2>1. UNCHANGED <<m_owner, m_waiting, status>>
    BY <1>2 DEF lock_async
  <2>2. \A x : ~In(x, ws)
    BY <1>2, EmptyQueue
  <2>3. TypeOK'
    BY <1>0, <2>1 DEF IInv, TypeOK
  <2>4. Exclusion'
    BY <2>1 DEF IInv, Exclusion
  <2>5. WaitsOnce'
    <3>1. ASSUME NEW n \in Mutexes
          PROVE  /\ Distinct(m_waiting'[n])
                 /\ \A x \in Threads : In(x, m_waiting'[n]) => status'[x] = "STALLED" /\ Wants(call'[x], n)
      BY <1>0, <2>1, <2>2 DEF IInv, TypeOK, WaitsOnce
    <3>2. ASSUME NEW d \in Conds
          PROVE  /\ Distinct(c_waiting'[d])
                 /\ \A x \in Threads : In(x, c_waiting'[d]) =>
                      /\ status'[x] = "STALLED" /\ call'[x] = [op |-> "cond", on |-> d]
                      /\ ~In(x, m_waiting'[MutexOf[d]])
      BY <1>0, <2>1, <2>2 DEF IInv, TypeOK, WaitsOnce
    <3>3. ASSUME NEW b \in Barriers
          PROVE  /\ Distinct(b_waiting'[b])
                 /\ \A x \in Threads : In(x, b_waiting'[b]) =>
                      status'[x] = "STALLED" /\ call'[x] = [op |-> "barrier", on |-> b]
      BY <1>0, <2>1, <2>2 DEF IInv, TypeOK, WaitsOnce
    <3> QED
      BY <3>1, <3>2, <3>3 DEF WaitsOnce
  <2>6. NobodyForgotten'
    <3>1. ASSUME NEW x \in Threads, status'[x] = "STALLED"
          PROVE  \/ \E n \in Mutexes : In(x, m_waiting'[n])
                 \/ \E d \in Conds : In(x, c_waiting'[d])
                 \/ \E b \in Barriers : In(x, b_waiting'[b])
      BY <1>0, <2>1, <2>2, <3>1, Zenon DEF IInv, TypeOK, NobodyForgotten
    <3>2. \A n \in Mutexes : m_waiting'[n] # <<>> => m_owner'[n] # NO_OWNER
      BY <2>1, SyncAssumption DEF IInv, TypeOK, NobodyForgotten
    <3>3. \A b \in Barriers : Len(b_waiting'[b]) < m_count[b]
      BY DEF IInv, NobodyForgotten
    <3> QED
      BY <3>1, <3>2, <3>3 DEF NobodyForgotten
  <2> QED
    BY <2>3, <2>4, <2>5, <2>6 DEF IInv
<1>3. CASE ws # <<>> /\ m_owner[m] # NO_OWNER
  <2>1. /\ m_waiting' = [m_waiting EXCEPT ![m] = @ \o ws]
        /\ UNCHANGED <<m_owner, status>>
    BY <1>3 DEF lock_async
  <2> HIDE DEF m
  <2>2. /\ m_waiting' \in [Mutexes -> Seq(Threads)]
        /\ \A x : In(x, m_waiting'[m]) <=> In(x, m_waiting[m]) \/ In(x, ws)
        /\ Distinct(m_waiting'[m])
        /\ \A n \in Mutexes : n # m => m_waiting'[n] = m_waiting[n]
    <3>1. m_waiting'[m] = m_waiting[m] \o ws
      BY <1>0, <2>1 DEF IInv, TypeOK
    <3>2. m_waiting' \in [Mutexes -> Seq(Threads)] /\ \A n \in Mutexes : n # m => m_waiting'[n] = m_waiting[n]
      BY <1>0, <2>1, JoinQueues DEF IInv, TypeOK
    <3> QED
      BY <1>0, <1>1, <3>1, <3>2, JoinQueues
  <2>3. TypeOK'
    BY <1>0, <2>1, <2>2 DEF IInv, TypeOK
  <2>4. Exclusion'
    BY <2>1, SMTT(20) DEF IInv, Exclusion
  <2>5. WaitsOnce'
    <3>1. ASSUME NEW n \in Mutexes
          PROVE  /\ Distinct(m_waiting'[n])
                 /\ \A x \in Threads : In(x, m_waiting'[n]) => status'[x] = "STALLED" /\ Wants(call'[x], n)
      BY <1>0, <1>1, <2>1, <2>2, SyncAssumption, SMTT(20) DEF IInv, TypeOK, WaitsOnce
    <3>2. ASSUME NEW d \in Conds
          PROVE  /\ Distinct(c_waiting'[d])
                 /\ \A x \in Threads : In(x, c_waiting'[d]) =>
                      /\ status'[x] = "STALLED" /\ call'[x] = [op |-> "cond", on |-> d]
                      /\ ~In(x, m_waiting'[MutexOf[d]])
      BY <1>0, <1>1, <2>1, <2>2, SyncAssumption DEF IInv, TypeOK, WaitsOnce
    <3>3. ASSUME NEW b \in Barriers
          PROVE  /\ Distinct(b_waiting'[b])
                 /\ \A x \in Threads : In(x, b_waiting'[b]) =>
                      status'[x] = "STALLED" /\ call'[x] = [op |-> "barrier", on |-> b]
      BY <1>0, <1>1, <2>1, <2>2, SyncAssumption DEF IInv, TypeOK, WaitsOnce
    <3> QED
      BY <3>1, <3>2, <3>3 DEF WaitsOnce
  <2>6. NobodyForgotten'
    <3>1. ASSUME NEW x \in Threads, status'[x] = "STALLED"
          PROVE  \/ \E n \in Mutexes : In(x, m_waiting'[n])
                 \/ \E d \in Conds : In(x, c_waiting'[d])
                 \/ \E b \in Barriers : In(x, b_waiting'[b])
      BY <1>0, <2>1, <2>2, <3>1, Zenon DEF IInv, TypeOK, NobodyForgotten
    <3>2. \A n \in Mutexes : m_waiting'[n] # <<>> => m_owner'[n] # NO_OWNER
      BY <1>3, <2>1, <2>2, SyncAssumption DEF IInv, TypeOK, NobodyForgotten
    <3>3. \A b \in Barriers : Len(b_waiting'[b]) < m_count[b]
      BY DEF IInv, NobodyForgotten
    <3> QED
      BY <3>1, <3>2, <3>3 DEF NobodyForgotten
  <2> QED
    BY <2>3, <2>4, <2>5, <2>6 DEF IInv
<1>4. CASE ws # <<>> /\ m_owner[m] = NO_OWNER
  <2> DEFINE u == Head(ws)
  <2>1. /\ m_owner' = [m_owner EXCEPT ![m] = u]
        /\ m_waiting' = [m_waiting EXCEPT ![m] = @ \o Tail(ws)]
        /\ status' = [status EXCEPT ![u] = "RUNNING"]
    BY <1>4, Zenon DEF lock_async, resumeThread
  <2>2. /\ u \in Threads /\ In(u, ws) /\ Tail(ws) \in Seq(Threads) /\ Distinct(Tail(ws))
        /\ \A x : In(x, Tail(ws)) <=> In(x, ws) /\ x # u
    BY <1>4, PopQueue
  <2> HIDE DEF u, m
  <2>3. /\ m_waiting' \in [Mutexes -> Seq(Threads)]
        /\ \A x : In(x, m_waiting'[m]) <=> In(x, m_waiting[m]) \/ (In(x, ws) /\ x # u)
        /\ Distinct(m_waiting'[m])
        /\ \A n \in Mutexes : n # m => m_waiting'[n] = m_waiting[n]
    <3>1. m_waiting'[m] = m_waiting[m] \o Tail(ws)
      BY <1>0, <2>1, Zenon DEF IInv, TypeOK
    <3>2. m_waiting' \in [Mutexes -> Seq(Threads)] /\ \A n \in Mutexes : n # m => m_waiting'[n] = m_waiting[n]
      BY <1>0, <2>1, <2>2, JoinQueues DEF IInv, TypeOK
    <3>3. \A x \in Threads : ~(In(x, m_waiting[m]) /\ In(x, Tail(ws)))
      BY <1>0, <1>1, <2>2
    <3>4. /\ \A x : In(x, m_waiting[m] \o Tail(ws)) <=> In(x, m_waiting[m]) \/ In(x, Tail(ws))
          /\ Distinct(m_waiting[m] \o Tail(ws))
      BY <1>0, <2>2, <3>3, JoinQueues, ZenonT(30)
    <3> QED
      BY <2>2, <3>1, <3>2, <3>4
  <2>4. TypeOK'
    BY <1>0, <2>1, <2>2, <2>3 DEF IInv, TypeOK
  <2>5. Exclusion'
    BY <1>0, <1>1, <1>4, <2>1, <2>2, CallsTyped, SyncAssumption DEF IInv, TypeOK, Exclusion
  <2>6. WaitsOnce'
    <3>1. ASSUME NEW n \in Mutexes
          PROVE  /\ Distinct(m_waiting'[n])
                 /\ \A x \in Threads : In(x, m_waiting'[n]) => status'[x] = "STALLED" /\ Wants(call'[x], n)
      BY <1>0, <1>1, <2>1, <2>2, <2>3, SyncAssumption, SMTT(20) DEF IInv, TypeOK, WaitsOnce
    <3>2. ASSUME NEW d \in Conds
          PROVE  /\ Distinct(c_waiting'[d])
                 /\ \A x \in Threads : In(x, c_waiting'[d]) =>
                      /\ status'[x] = "STALLED" /\ call'[x] = [op |-> "cond", on |-> d]
                      /\ ~In(x, m_waiting'[MutexOf[d]])
      BY <1>0, <1>1, <2>1, <2>2, <2>3, SyncAssumption, SMTT(20) DEF IInv, TypeOK, WaitsOnce
    <3>3. ASSUME NEW b \in Barriers
          PROVE  /\ Distinct(b_waiting'[b])
                 /\ \A x \in Threads : In(x, b_waiting'[b]) =>
                      status'[x] = "STALLED" /\ call'[x] = [op |-> "barrier", on |-> b]
      BY <1>0, <1>1, <2>1, <2>2, <2>3, SyncAssumption DEF IInv, TypeOK, WaitsOnce
    <3> QED
      BY <3>1, <3>2, <3>3 DEF WaitsOnce
  <2>7. NobodyForgotten'
    <3>1. ASSUME NEW x \in Threads, status'[x] = "STALLED"
          PROVE  \/ \E n \in Mutexes : In(x, m_waiting'[n])
                 \/ \E d \in Conds : In(x, c_waiting'[d])
                 \/ \E b \in Barriers : In(x, b_waiting'[b])
      BY <1>0, <2>1, <2>2, <2>3, <3>1, Zenon DEF IInv, TypeOK, NobodyForgotten
    <3>2. \A n \in Mutexes : m_waiting'[n] # <<>> => m_owner'[n] # NO_OWNER
      BY <2>1, <2>2, <2>3, SyncAssumption DEF IInv, TypeOK, NobodyForgotten
    <3>3. \A b \in Barriers : Len(b_waiting'[b]) < m_count[b]
      BY DEF IInv, NobodyForgotten
    <3> QED
      BY <3>1, <3>2, <3>3 DEF NobodyForgotten
  <2> QED
    BY <2>4, <2>5, <2>6, <2>7 DEF IInv
<1> QED
  BY <1>2, <1>3, <1>4

\* The two calls that wake threads.
LEMMA SignalInv ==
  ASSUME IInv, NEW t \in Threads, NEW c \in Conds, condSignal(t, c) \/ condBroadcast(t, c)
  PROVE  IInv'
<1>0. c_waiting[c] \in Seq(Threads) /\ Distinct(c_waiting[c])
  BY DEF IInv, TypeOK, WaitsOnce
<1>1. CASE condBroadcast(t, c)
  <2>1. PICK ws \in Seq(Threads) : ws = c_waiting[c]
    BY <1>0
  <2>2. /\ lock_async(ws, MutexOf[c])
        /\ c_waiting' = [c_waiting EXCEPT ![c] = <<>>]
        /\ UNCHANGED <<b_waiting, call, holds>>
    BY <1>1, <2>1, Zenon DEF condBroadcast, lock_async
  <2>3. <<>> \in Seq(Threads) /\ Distinct(ws)
    BY <1>0, <2>1
  <2> QED
    BY <2>1, <2>2, <2>3, EmptyQueue, WakeInv, Zenon
<1>2. CASE condSignal(t, c) /\ c_waiting[c] # <<>>
  <2>0. Head(c_waiting[c]) \in Threads
    BY <1>0, <1>2, PopQueue
  <2>1. PICK ws \in Seq(Threads) : ws = <<Head(c_waiting[c])>>
    <3>1. <<Head(c_waiting[c])>> \in Seq(Threads)
      BY <2>0
    <3> QED
      BY <3>1, Zenon
  <2>2. PICK rest \in Seq(Threads) : rest = Tail(c_waiting[c])
    BY <1>0, <1>2, PopQueue, Zenon
  <2>3. Distinct(ws) /\ \A x : In(x, ws) <=> x = Head(c_waiting[c])
    BY <2>1 DEF Distinct, In
  <2>4. /\ Distinct(rest)
        /\ \A x : In(x, rest) <=> In(x, c_waiting[c]) /\ x # Head(c_waiting[c])
        /\ In(Head(c_waiting[c]), c_waiting[c])
    BY <1>0, <1>2, <2>2, PopQueue, SMTT(20)
  <2>5. /\ lock_async(ws, MutexOf[c])
        /\ c_waiting' = [c_waiting EXCEPT ![c] = rest]
        /\ UNCHANGED <<b_waiting, call, holds>>
    BY <1>2, <2>1, <2>2 DEF condSignal, lock_async
  <2>6. /\ \A x : In(x, c_waiting[c]) <=> In(x, ws) \/ In(x, rest)
        /\ \A x : ~(In(x, ws) /\ In(x, rest))
    BY <2>3, <2>4
  <2> QED
    BY <2>3, <2>4, <2>5, <2>6, WakeInv, Zenon
<1>3. CASE condSignal(t, c) /\ c_waiting[c] = <<>>
  <2>1. UNCHANGED vars
    BY <1>3 DEF condSignal, vars
  <2> QED
    BY <2>1, StutterInv
<1> QED
  BY <1>1, <1>2, <1>3

\* barrier: the caller waits, or it is the last and lets everybody go.
LEMMA BarrierInv ==
  ASSUME IInv, NEW t \in Threads, NEW b \in Barriers, barrierWait(t, b)
  PROVE  IInv'
<1>0. /\ Free(t) /\ b_waiting[b] \in Seq(Threads) /\ Len(b_waiting[b]) \in Nat
      /\ Len(b_waiting[b]) < m_count[b] /\ m_count[b] \in Nat
      /\ UNCHANGED <<m_owner, m_waiting, c_waiting, holds>>
  <2>1. b_waiting[b] \in Seq(Threads)
    BY DEF IInv, TypeOK
  <2> QED
    BY <2>1, SyncAssumption DEF barrierWait, IInv, NobodyForgotten
<1>1. CASE Last(b)
  <2>1. /\ status' = [u \in Threads |-> IF In(u, b_waiting[b]) THEN "RUNNING" ELSE status[u]]
        /\ b_waiting' = [b_waiting EXCEPT ![b] = <<>>]
        /\ UNCHANGED call
    BY <1>1 DEF barrierWait
  <2>2. ASSUME NEW u \in Threads, In(u, b_waiting[b])
        PROVE  /\ \A m \in Mutexes : ~Wants(call[u], m) /\ ~In(u, m_waiting[m])
               /\ \A c \in Conds : ~In(u, c_waiting[c])
               /\ \A a \in Barriers : a # b => ~In(u, b_waiting[a])
    <3>1. call[u] = [op |-> "barrier", on |-> b]
      BY <2>2 DEF IInv, WaitsOnce
    <3>2. \A m \in Mutexes : ~Wants(call[u], m)
      BY <3>1, CallsWant
    <3>3. \A m \in Mutexes : ~In(u, m_waiting[m])
      BY <3>2 DEF IInv, WaitsOnce
    <3>4. ASSUME NEW c \in Conds, In(u, c_waiting[c]) PROVE FALSE
      <4>1. call[u] = [op |-> "cond", on |-> c]
        BY <3>4 DEF IInv, WaitsOnce
      <4> QED
        BY <3>1, <4>1, CallsWant
    <3>5. ASSUME NEW a \in Barriers, a # b, In(u, b_waiting[a]) PROVE FALSE
      <4>1. call[u] = [op |-> "barrier", on |-> a]
        BY <3>5 DEF IInv, WaitsOnce
      <4> QED
        BY <3>1, <3>5, <4>1, CallsWant
    <3> QED
      BY <3>2, <3>3, <3>4, <3>5
  <2>3. TypeOK'
    BY <1>0, <2>1 DEF IInv, TypeOK
  <2>4. Exclusion'
    BY <1>0, <2>1, <2>2, SMTT(20) DEF IInv, Exclusion
  <2>5. WaitsOnce'
    <3>1. /\ \A m \in Mutexes : \A u \in Threads : In(u, m_waiting[m]) => status'[u] = status[u]
          /\ \A c \in Conds : \A u \in Threads : In(u, c_waiting[c]) => status'[u] = status[u]
          /\ \A a \in Barriers : \A u \in Threads : a # b /\ In(u, b_waiting[a]) => status'[u] = status[u]
      BY <2>1, <2>2
    <3>2. b_waiting'[b] = <<>> /\ \A a \in Barriers : a # b => b_waiting'[a] = b_waiting[a]
      BY <2>1, SMTT(20) DEF IInv, TypeOK
    <3> QED
      BY <1>0, <2>1, <3>1, <3>2, EmptyQueue DEF IInv, WaitsOnce
  <2>6. NobodyForgotten'
    <3>1. b_waiting'[b] = <<>> /\ \A a \in Barriers : a # b => b_waiting'[a] = b_waiting[a]
      BY <2>1 DEF IInv, TypeOK
    <3>2. \A u \in Threads : status'[u] = "STALLED" => status[u] = "STALLED" /\ ~In(u, b_waiting[b])
      BY <2>1
    <3>3. ASSUME NEW u \in Threads, status'[u] = "STALLED"
          PROVE  \/ \E m \in Mutexes : In(u, m_waiting'[m])
                 \/ \E c \in Conds : In(u, c_waiting'[c])
                 \/ \E a \in Barriers : In(u, b_waiting'[a])
      BY <1>0, <3>1, <3>2, <3>3, Zenon DEF IInv, NobodyForgotten
    <3>4. \A a \in Barriers : Len(b_waiting'[a]) < m_count[a]
      BY <3>1, SyncAssumption DEF IInv, NobodyForgotten
    <3>5. \A m \in Mutexes : m_waiting'[m] # <<>> => m_owner'[m] # NO_OWNER
      BY <1>0, Zenon DEF IInv, NobodyForgotten
    <3> QED
      BY <3>3, <3>4, <3>5, Zenon DEF NobodyForgotten
  <2> QED
    BY <2>3, <2>4, <2>5, <2>6 DEF IInv
<1>2. CASE ~Last(b)
  <2>1. /\ b_waiting' = [b_waiting EXCEPT ![b] = Append(@, t)]
        /\ status' = [status EXCEPT ![t] = "STALLED"]
        /\ call' = [call EXCEPT ![t] = [op |-> "barrier", on |-> b]]
    BY <1>2 DEF barrierWait, stallThread
  <2>2. TypeOK'
    BY <1>0, <2>1, PushQueue, CallsTyped DEF IInv, TypeOK
  <2>3. /\ status'[t] = "STALLED" /\ call'[t] = [op |-> "barrier", on |-> b]
        /\ \A u \in Threads : u # t => status'[u] = status[u] /\ call'[u] = call[u]
        /\ b_waiting'[b] = Append(b_waiting[b], t)
        /\ \A a \in Barriers : a # b => b_waiting'[a] = b_waiting[a]
    BY <2>1 DEF IInv, TypeOK
  <2>4. /\ \A u : In(u, b_waiting'[b]) <=> In(u, b_waiting[b]) \/ u = t
        /\ Len(b_waiting'[b]) = Len(b_waiting[b]) + 1
        /\ Distinct(b_waiting[b]) /\ ~In(t, b_waiting[b]) => Distinct(b_waiting'[b])
    BY <1>0, <2>3, PushQueue
  <2>5. Exclusion'
    <3>1. \A m \in Mutexes : ~Wants(call[t], m) /\ ~Wants(call'[t], m)
      BY <1>0, <2>3, CallsWant DEF Free
    <3> QED
      BY <1>0, <2>3, <3>1 DEF IInv, Exclusion
  <2>6. WaitsOnce'
    <3>1. ASSUME NEW n \in Mutexes
          PROVE  /\ Distinct(m_waiting'[n])
                 /\ \A x \in Threads : In(x, m_waiting'[n]) => status'[x] = "STALLED" /\ Wants(call'[x], n)
      BY <1>0, <2>3, FreeThread DEF IInv, WaitsOnce
    <3>2. ASSUME NEW d \in Conds
          PROVE  /\ Distinct(c_waiting'[d])
                 /\ \A x \in Threads : In(x, c_waiting'[d]) =>
                      /\ status'[x] = "STALLED" /\ call'[x] = [op |-> "cond", on |-> d]
                      /\ ~In(x, m_waiting'[MutexOf[d]])
      BY <1>0, <2>3, FreeThread DEF IInv, WaitsOnce
    <3>3. ASSUME NEW a \in Barriers
          PROVE  /\ Distinct(b_waiting'[a])
                 /\ \A x \in Threads : In(x, b_waiting'[a]) =>
                      status'[x] = "STALLED" /\ call'[x] = [op |-> "barrier", on |-> a]
      <4>1. CASE a = b
        <5>0. ~In(t, b_waiting[b])
          BY <1>0, FreeThread
        <5>1. Distinct(b_waiting[b])
          BY Zenon DEF IInv, WaitsOnce
        <5>2. \A x \in Threads : In(x, b_waiting[b]) =>
                status[x] = "STALLED" /\ call[x] = [op |-> "barrier", on |-> b]
          BY Zenon DEF IInv, WaitsOnce
        <5> QED
          BY <2>3, <2>4, <4>1, <5>0, <5>1, <5>2, ZenonT(30)
      <4>2. CASE a # b
        BY <1>0, <2>3, <4>2, FreeThread DEF IInv, WaitsOnce
      <4> QED
        BY <4>1, <4>2
    <3> QED
      BY <3>1, <3>2, <3>3, Zenon DEF WaitsOnce
  <2>7. NobodyForgotten'
    <3>1. Len(b_waiting'[b]) < m_count[b]
      BY <1>0, <1>2, <2>4 DEF Last
    <3>2. \A a \in Barriers : Len(b_waiting'[a]) < m_count[a]
      BY <2>3, <3>1 DEF IInv, NobodyForgotten
    <3>3. ASSUME NEW u \in Threads, status'[u] = "STALLED"
          PROVE  \/ \E m \in Mutexes : In(u, m_waiting'[m])
                 \/ \E c \in Conds : In(u, c_waiting'[c])
                 \/ \E a \in Barriers : In(u, b_waiting'[a])
      BY <1>0, <2>3, <2>4, <3>3, Zenon DEF IInv, NobodyForgotten
    <3>4. \A m \in Mutexes : m_waiting'[m] # <<>> => m_owner'[m] # NO_OWNER
      BY <1>0, Zenon DEF IInv, NobodyForgotten
    <3> QED
      BY <3>2, <3>3, <3>4, Zenon DEF NobodyForgotten
  <2> QED
    BY <2>2, <2>5, <2>6, <2>7 DEF IInv
<1> QED
  BY <1>1, <1>2

\* A thread returns with the mutex that the server gave it.
LEMMA ReturnInv ==
  ASSUME IInv, NEW t \in Threads, Return(t)
  PROVE  IInv'
<1>0. /\ status[t] = "RUNNING" /\ call[t] \in Calls
      /\ call' = [call EXCEPT ![t] = Idle]
      /\ UNCHANGED <<m_owner, m_waiting, c_waiting, b_waiting, status>>
  BY DEF Return, IInv, TypeOK
<1>1. /\ holds' \in [Threads -> SUBSET Mutexes]
      /\ \A u \in Threads : u # t => holds'[u] = holds[u]
      /\ \A m \in Mutexes : m \in holds'[t] <=> m \in holds[t] \/ Wants(call[t], m)
  <2>1. CASE \E m \in Mutexes : call[t] = [op |-> "lock", on |-> m]
    BY <2>1 DEF Return, IInv, TypeOK, Wants
  <2>2. CASE \E c \in Conds : call[t] = [op |-> "cond", on |-> c]
    BY <2>2, SyncAssumption DEF Return, IInv, TypeOK, Wants
  <2>3. CASE \E b \in Barriers : call[t] = [op |-> "barrier", on |-> b]
    BY <2>3 DEF Return, IInv, TypeOK, Wants
  <2> QED
    BY <1>0, <2>1, <2>2, <2>3, CallKinds
<1>2. TypeOK'
  BY <1>0, <1>1, ZenonT(30) DEF IInv, TypeOK
<1>3. Exclusion'
  BY <1>0, <1>1, CallsWant DEF IInv, TypeOK, Exclusion
<1>4. WaitsOnce'
  BY <1>0 DEF IInv, TypeOK, WaitsOnce
<1>5. NobodyForgotten'
  BY <1>0 DEF IInv, NobodyForgotten
<1> QED
  BY <1>2, <1>3, <1>4, <1>5 DEF IInv

\* Every call and every return keeps the invariant.
LEMMA StepInv == IInv /\ [Next]_vars => IInv'
<1> SUFFICES ASSUME IInv, [Next]_vars PROVE IInv'
  BY Zenon
<1>1. CASE UNCHANGED vars
  BY <1>1, StutterInv
<1>2. ASSUME NEW t \in Threads, NEW m \in Mutexes,
             mutexLock(t, m) \/ mutexTrylock(t, m) \/ mutexUnlock(t, m)
      PROVE  IInv'
  <2>1. CASE mutexLock(t, m)
    BY <2>1, LockInv DEF mutexLock
  <2>2. CASE mutexTrylock(t, m) /\ ~isLocked(t, m)
    BY <2>2, LockInv DEF mutexTrylock
  <2>3. CASE mutexTrylock(t, m) /\ isLocked(t, m)
    BY <1>1, <2>3 DEF mutexTrylock, vars
  <2>4. CASE mutexUnlock(t, m)
    BY <2>4, UnlockInv
  <2> QED
    BY <1>2, <2>1, <2>2, <2>3, <2>4
<1>3. ASSUME NEW t \in Threads, NEW c \in Conds,
             condWait(t, c) \/ condSignal(t, c) \/ condBroadcast(t, c)
      PROVE  IInv'
  BY <1>3, CondWaitInv, SignalInv
<1>4. ASSUME NEW t \in Threads, NEW b \in Barriers, barrierWait(t, b) PROVE IInv'
  BY <1>4, BarrierInv
<1>5. ASSUME NEW t \in Threads, Return(t) PROVE IInv'
  BY <1>5, ReturnInv
<1> QED
  BY <1>1, <1>2, <1>3, <1>4, <1>5 DEF Next

\* Sniper's emulation of pthread mutexes, conditions and barriers, for any
\* number of threads and objects: one holder per mutex, which is the owner
\* the server records.
THEOREM MutexesExclude == Spec => []Exclusion
<1>1. IInv => Exclusion
  BY DEF IInv
<1> QED
  BY <1>1, InitInv, StepInv, PTL DEF Spec

\* Every thread that waits is in one queue, once, and one that runs in none.
THEOREM ThreadsWaitOnce == Spec => []WaitsOnce
<1>1. IInv => WaitsOnce
  BY DEF IInv
<1> QED
  BY <1>1, InitInv, StepInv, PTL DEF Spec

\* Every thread that the server stalled is in a queue that somebody is going
\* to serve.
THEOREM NoThreadForgotten == Spec => []NobodyForgotten
<1>1. IInv => NobodyForgotten
  BY DEF IInv
<1> QED
  BY <1>1, InitInv, StepInv, PTL DEF Spec
=============================================================================
