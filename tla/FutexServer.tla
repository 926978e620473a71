------------------------------ MODULE FutexServer ------------------------------
(***************************************************************************)
(* Sniper's emulation of the futex and nanosleep system calls              *)
(* (system/syscall_server.cc).  Calls are served one at a time, under the  *)
(* thread manager's lock; a thread that waits stalls until a wake of       *)
(* another thread, or the periodic check at a barrier that finds its       *)
(* timeout due, resumes it.  Time is counted in barrier intervals: a       *)
(* timeout is kept as the number of intervals left, Never without one.     *)
(***************************************************************************)
EXTENDS Integers, Sequences, FiniteSets

CONSTANTS Threads, Futexes,
          Values,        \* of a futex word
          Bits,          \* of a bitset
          Timeouts,      \* the timeouts threads ask for, in intervals
          TimeStart,     \* osemu/time_start, the emulated time at the start
          TimeWidth,     \* the range of a SubsecondTime
          WakeOps,       \* the operations of FUTEX_WAKE_OP that threads use
          Relative       \* whether FUTEX_WAIT is called with a timeout

Never == 0 - 1000
Any == Bits

FutexAssumption ==
    /\ Timeouts \subseteq Nat /\ TimeStart \in Nat /\ TimeWidth \in Nat \ {0}
    /\ Relative \in BOOLEAN

VARIABLES word,         \* the futex words in the application's memory
          m_waiting,    \* m_waiting[f]: the queue of a futex
          m_sleeping,   \* the threads in nanosleep
          status,       \* "RUNNING" or "STALLED"
          call,         \* the call a thread is in: "futex", "sleep" or "none"
          m_wakeup_msg, \* TRUE: woken, FALSE: timed out
          asked         \* the bitset of the last wake call

vars == <<word, m_waiting, m_sleeping, status, call, m_wakeup_msg, asked>>

Waiter == [thread : Threads, mask : SUBSET Bits, left : Int, want : Timeouts \cup {Never}]

Init ==
    /\ word = [f \in Futexes |-> CHOOSE v \in Values : \A u \in Values : v <= u]
    /\ m_waiting = [f \in Futexes |-> <<>>]
    /\ m_sleeping = <<>>
    /\ status = [t \in Threads |-> "RUNNING"]
    /\ call = [t \in Threads |-> "none"]
    /\ m_wakeup_msg = [t \in Threads |-> FALSE]
    /\ asked = Any

Free(t) == status[t] = "RUNNING" /\ call[t] = "none"

-----------------------------------------------------------------------------
(* Queues.                                                                 *)

\* The queue q without the entries at the places S.
Without(q, S) ==
    LET Stay == DOMAIN q \ S IN
    [k \in 1 .. Cardinality(Stay) |->
        q[CHOOSE i \in Stay : Cardinality({j \in Stay : j <= i}) = k]]

\* The first n places of q that a wake with this mask finds.
dequeueWaiter(q, n, mask) ==
    LET Found == {i \in DOMAIN q : q[i].mask \cap mask # {}} IN
    {i \in Found : Cardinality({j \in Found : j <= i}) <= n}

\* The first place whose timeout has passed.
TimedOut(q) ==
    LET Due == {i \in DOMAIN q : q[i].left # Never /\ q[i].left <= 0} IN
    {i \in Due : \A j \in Due : i <= j}

ThreadsAt(q, S) == {q[i].thread : i \in S}

\* One interval passes; how long a timeout is overdue is counted up to
\* MaxOverdue.
MaxOverdue == Cardinality(Threads)
Elapse(q) ==
    [i \in DOMAIN q |->
        [q[i] EXCEPT !.left = IF @ = Never \/ @ = 0 - MaxOverdue THEN @ ELSE @ - 1]]

resumeAll(T, msg) ==
    /\ status' = [t \in Threads |-> IF t \in T THEN "RUNNING" ELSE status[t]]
    /\ m_wakeup_msg' = [t \in Threads |-> IF t \in T THEN msg ELSE m_wakeup_msg[t]]

stall(t, c) ==
    /\ status' = [status EXCEPT ![t] = "STALLED"]
    /\ call' = [call EXCEPT ![t] = c]

-----------------------------------------------------------------------------
(* The calls.                                                              *)

\* The application's own stores to a futex word.
Store(t, f, v) ==
    /\ Free(t)
    /\ word' = [word EXCEPT ![f] = v]
    /\ UNCHANGED <<m_waiting, m_sleeping, status, call, m_wakeup_msg, asked>>

\* The absolute timeout of FUTEX_WAIT_BITSET is read off the emulated clock,
\* which starts at TimeStart; that of FUTEX_WAIT is relative.  The start is
\* subtracted from both.
TimeoutLeft(cmd, n) ==
    LET tv_sec == IF cmd = "FUTEX_WAIT_BITSET" THEN TimeStart + n ELSE n IN
    (tv_sec - TimeStart) % TimeWidth

futexWaitUnchecked(t, f, val, e) ==
    /\ Free(t)
    /\ m_waiting' = [m_waiting EXCEPT ![f] = Append(@, e)]
    /\ stall(t, "futex")
    /\ UNCHANGED <<word, m_sleeping, m_wakeup_msg, asked>>
futexWait(t, f, val, e) ==
    /\ Free(t)
    /\ \/ val # word[f] /\ UNCHANGED <<m_waiting, status, call>>
       \/ /\ val = word[f]
          /\ m_waiting' = [m_waiting EXCEPT ![f] = Append(@, e)]
          /\ stall(t, "futex")
    /\ UNCHANGED <<word, m_sleeping, m_wakeup_msg, asked>>

WaitEntry(t, cmd, mask, n) ==
    [thread |-> t, want |-> n,
     mask |-> IF cmd = "FUTEX_WAIT_BITSET" THEN mask ELSE Any,
     left |-> IF n = Never THEN Never ELSE TimeoutLeft(cmd, n)]

\* The bitset of a wake: val3 for FUTEX_WAIT_BITSET, which is no wake.
WakeMask(cmd, val3) == IF cmd = "FUTEX_WAIT_BITSET" THEN val3 ELSE Any

futexWakeTwice(t, f, n, cmd, val3) ==
    LET w == dequeueWaiter(m_waiting[f], n, WakeMask(cmd, val3)) IN
    /\ Free(t)
    /\ resumeAll(ThreadsAt(m_waiting[f], w), TRUE)
    /\ asked' = IF cmd = "FUTEX_WAKE_BITSET" THEN val3 ELSE Any
    /\ UNCHANGED <<word, m_waiting, m_sleeping, call>>
futexWake(t, f, n, cmd, val3) ==
    LET w == dequeueWaiter(m_waiting[f], n, WakeMask(cmd, val3)) IN
    /\ Free(t)
    /\ m_waiting' = [m_waiting EXCEPT ![f] = Without(@, w)]
    /\ resumeAll(ThreadsAt(m_waiting[f], w), TRUE)
    /\ asked' = IF cmd = "FUTEX_WAKE_BITSET" THEN val3 ELSE Any
    /\ UNCHANGED <<word, m_sleeping, call>>

\* The operation and the comparison of FUTEX_WAKE_OP; words have one bit here.
futexDoOpWide(o, old) == old + o.oparg
futexDoOp(o, old) ==
    CASE o.op = "SET" -> o.oparg
      [] o.op = "ADD" -> (old + o.oparg) % 2
      [] o.op = "OR" -> IF old + o.oparg > 0 THEN 1 ELSE 0
      [] o.op = "ANDN" -> IF o.oparg = 1 THEN 0 ELSE old
      [] o.op = "XOR" -> (old + o.oparg) % 2

Compared(o, old) ==
    CASE o.cmp = "EQ" -> old = o.cmparg
      [] o.cmp = "NE" -> old # o.cmparg
      [] o.cmp = "LT" -> old < o.cmparg
      [] o.cmp = "GE" -> old >= o.cmparg
      [] o.cmp = "LE" -> old <= o.cmparg
      [] o.cmp = "GT" -> old > o.cmparg

futexWakeOp(t, f, f2, n, n2, o) ==
    LET w == dequeueWaiter(m_waiting[f], n, Any)
        q == [m_waiting EXCEPT ![f] = Without(@, w)]
        w2 == IF Compared(o, word[f2]) THEN dequeueWaiter(q[f2], n2, Any) ELSE {}
    IN
    /\ Free(t)
    /\ word' = [word EXCEPT ![f2] = futexDoOp(o, @)]
    /\ m_waiting' = [q EXCEPT ![f2] = Without(@, w2)]
    /\ resumeAll(ThreadsAt(m_waiting[f], w) \cup ThreadsAt(q[f2], w2), TRUE)
    /\ asked' = Any
    /\ UNCHANGED <<m_sleeping, call>>

futexCmpRequeue(t, f, n, f2, val3) ==
    LET w == dequeueWaiter(m_waiting[f], n, Any) IN
    /\ Free(t) /\ f # f2
    /\ \/ val3 # word[f] /\ UNCHANGED <<m_waiting, status, m_wakeup_msg>>
       \/ /\ val3 = word[f]
          /\ m_waiting' = [m_waiting EXCEPT ![f] = <<>>, ![f2] = @ \o Without(m_waiting[f], w)]
          /\ resumeAll(ThreadsAt(m_waiting[f], w), TRUE)
    /\ asked' = Any
    /\ UNCHANGED <<word, m_sleeping, call>>

handleSleepCall(t, n) ==
    /\ Free(t)
    /\ m_sleeping' = Append(m_sleeping, [thread |-> t, mask |-> {}, left |-> n, want |-> n])
    /\ stall(t, "sleep")
    /\ UNCHANGED <<word, m_waiting, m_wakeup_msg, asked>>

\* A barrier: one sleeper, and one waiter of every futex, whose time has come.
futexPeriodicLast ==
    LET s == Elapse(m_sleeping)
        q == [f \in Futexes |-> Elapse(m_waiting[f])]
        Late(r) == LET Due == {i \in DOMAIN r : r[i].left # Never /\ r[i].left <= 0} IN
                   {i \in Due : \A j \in Due : j <= i}
    IN
    /\ m_sleeping' = Without(s, Late(s))
    /\ m_waiting' = [f \in Futexes |-> Without(q[f], Late(q[f]))]
    /\ resumeAll(ThreadsAt(s, Late(s)) \cup UNION {ThreadsAt(q[f], Late(q[f])) : f \in Futexes},
                 FALSE)
    /\ asked' = Any
    /\ UNCHANGED <<word, call>>
futexPeriodic ==
    LET s == Elapse(m_sleeping)
        q == [f \in Futexes |-> Elapse(m_waiting[f])]
    IN
    /\ m_sleeping' = Without(s, TimedOut(s))
    /\ m_waiting' = [f \in Futexes |-> Without(q[f], TimedOut(q[f]))]
    /\ resumeAll(ThreadsAt(s, TimedOut(s)) \cup UNION {ThreadsAt(q[f], TimedOut(q[f])) : f \in Futexes},
                 FALSE)
    /\ asked' = Any
    /\ UNCHANGED <<word, call>>

\* A thread that was resumed returns to the application; the message is not
\* read again.
Return(t) ==
    /\ status[t] = "RUNNING" /\ call[t] # "none"
    /\ call' = [call EXCEPT ![t] = "none"]
    /\ m_wakeup_msg' = [m_wakeup_msg EXCEPT ![t] = FALSE]
    /\ UNCHANGED <<word, m_waiting, m_sleeping, status, asked>>

\* The system calls an application makes of the server.
Calls(t) ==
    \/ \E f \in Futexes, v \in Values : Store(t, f, v)
    \/ \E f \in Futexes, v \in Values, n \in {Never} \cup (IF Relative THEN Timeouts ELSE {}) :
          futexWait(t, f, v, WaitEntry(t, "FUTEX_WAIT", {}, n))
    \/ \E f \in Futexes, v \in Values, m \in SUBSET Bits \ {{}}, n \in {Never} \cup Timeouts :
          futexWait(t, f, v, WaitEntry(t, "FUTEX_WAIT_BITSET", m, n))
    \/ \E f \in Futexes, n \in 1 .. 2 : futexWake(t, f, n, "FUTEX_WAKE", {})
    \/ \E f \in Futexes, n \in 1 .. 2, m \in SUBSET Bits \ {{}} :
          futexWake(t, f, n, "FUTEX_WAKE_BITSET", m)
    \/ \E f, f2 \in Futexes, o \in WakeOps : futexWakeOp(t, f, f2, 1, 1, o)
    \/ \E f, f2 \in Futexes, n \in 0 .. 1, v \in Values : futexCmpRequeue(t, f, n, f2, v)
    \/ \E n \in Timeouts : handleSleepCall(t, n)

\* The clock stands still while nothing waits for it.
Ticking == m_sleeping # <<>> \/ \E f \in Futexes : \E i \in DOMAIN m_waiting[f] :
                                   m_waiting[f][i].left # Never

Next ==
    \/ \E t \in Threads : Calls(t) \/ Return(t)
    \/ Ticking /\ futexPeriodic

Spec == Init /\ [][Next]_vars

-----------------------------------------------------------------------------
(* Properties.                                                             *)

\* Every variable has its type.
TypeOK ==
    /\ word \in [Futexes -> Values]
    /\ \A f \in Futexes : \A i \in DOMAIN m_waiting[f] : m_waiting[f][i] \in Waiter
    /\ \A i \in DOMAIN m_sleeping : m_sleeping[i] \in Waiter
    /\ status \in [Threads -> {"RUNNING", "STALLED"}]
    /\ call \in [Threads -> {"none", "futex", "sleep"}]
    /\ m_wakeup_msg \in [Threads -> BOOLEAN]
    /\ asked \in SUBSET Bits

\* The places at which a thread waits.
Places(t) ==
    {<<f, i>> \in Futexes \X (1 .. Cardinality(Threads)) :
        i \in DOMAIN m_waiting[f] /\ m_waiting[f][i].thread = t}
Pillows(t) == {i \in DOMAIN m_sleeping : m_sleeping[i].thread = t}

\* However futexes are woken, requeued and timed out, a stalled thread waits
\* at exactly one place, in the kind of queue its call is about, and a
\* running one at none: nobody is woken twice or forgotten.
WaitsOnce ==
    \A t \in Threads :
       /\ Cardinality(Places(t)) = IF status[t] = "STALLED" /\ call[t] = "futex" THEN 1 ELSE 0
       /\ Cardinality(Pillows(t)) = IF status[t] = "STALLED" /\ call[t] = "sleep" THEN 1 ELSE 0

\* futexPeriodic wakes one sleeper per barrier and leaves the others to "the
\* next barrier synchronization": nobody oversleeps by as many barriers as
\* there are other threads.
OversleepBounded ==
    \A i \in DOMAIN m_sleeping : m_sleeping[i].left > 1 - Cardinality(Threads)

\* FUTEX_WAKE_BITSET, in "the subset" that handleFutexCall accepts, wakes
\* waiters whose bitset meets the one that it is given.
BitsetWake ==
    [][\A f \in Futexes : \A i \in DOMAIN m_waiting[f] :
          LET t == m_waiting[f][i].thread IN
          status[t] = "STALLED" /\ status'[t] = "RUNNING" /\ m_wakeup_msg'[t]
             => m_waiting[f][i].mask \cap asked' # {}]_vars

\* "FUTEX_WAIT uses relative timeout": a waiter has no more time left than
\* it asked for.
RelativeTimeout ==
    \A f \in Futexes : \A i \in DOMAIN m_waiting[f] :
       m_waiting[f][i].want # Never => m_waiting[f][i].left <= m_waiting[f][i].want
=============================================================================
