-------------------------------- MODULE MCSync --------------------------------
(***************************************************************************)
(* The synchronisation services that Sniper emulates for its application,  *)
(* for TLC.  A behaviour uses one of them, the others stay as they start:  *)
(* part says which.                                                        *)
(***************************************************************************)
EXTENDS SyncServer, TLC

CONSTANTS t1, t2, t3, t4, m1, m2, c1, b1, f1, f2

VARIABLES part, word, f_waiting, m_sleeping, f_status, f_call, m_wakeup_msg, asked, pc

OneCond == [c \in {c1} |-> m1]
TripleBarrier == [b \in {b1} |-> 3]
ThreadSymmetry == Permutations({t1, t2, t3})

SomeOps ==
    {[op |-> "SET", oparg |-> 0, cmp |-> "EQ", cmparg |-> 0],
     [op |-> "ADD", oparg |-> 1, cmp |-> "NE", cmparg |-> 0],
     [op |-> "OR", oparg |-> 1, cmp |-> "LT", cmparg |-> 1],
     [op |-> "ANDN", oparg |-> 1, cmp |-> "GE", cmparg |-> 1],
     [op |-> "XOR", oparg |-> 1, cmp |-> "LE", cmparg |-> 0],
     [op |-> "SET", oparg |-> 1, cmp |-> "GT", cmparg |-> 0]}

Futex == INSTANCE FutexServer WITH
    m_waiting <- f_waiting, status <- f_status, call <- f_call,
    Threads <- {t1, t2, t3}, Futexes <- {f1, f2}, Values <- {0, 1}, Bits <- {1},
    Timeouts <- {1, 2}, TimeStart <- 3, TimeWidth <- 8, WakeOps <- SomeOps, Relative <- FALSE

Lll == INSTANCE FutexMutex WITH
    m_waiting <- f_waiting, status <- f_status, call <- f_call,
    Threads <- {t1, t2, t3, t4}, Futexes <- {f1}, Lock <- f1, Values <- {0, 1, 2}, Bits <- {1},
    Timeouts <- {1}, TimeStart <- 3, TimeWidth <- 8, WakeOps <- {}, Relative <- FALSE,
    Waits <- {Futex!Never, 1}

fvars == <<word, f_waiting, m_sleeping, f_status, f_call, m_wakeup_msg, asked, pc>>

MCInit ==
    /\ Init
    /\ \/ part \in {"sync", "futex"} /\ Futex!Init /\ pc = <<>>
       \/ part = "lll" /\ Lll!LInit

SyncStep == part = "sync" /\ Next /\ UNCHANGED <<fvars, part>>
FutexStep == part = "futex" /\ Futex!Next /\ UNCHANGED <<vars, pc, part>>
LllStep == part = "lll" /\ Lll!LNext /\ UNCHANGED <<vars, part>>

MCNext == SyncStep \/ FutexStep \/ LllStep

MCSpec == MCInit /\ [][MCNext]_<<vars, fvars, part>>

\* No thread waits at two places.
FutexWaitsOnce == part = "futex" => Futex!WaitsOnce
\* No wake-up is lost.
NobodyStranded == part = "lll" => Lll!NobodyStranded
=============================================================================
