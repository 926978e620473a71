---------------------------- MODULE Interchiplet ----------------------------
(***************************************************************************)
(* The interchiplet router (interchiplet/interchiplet.cpp) and the ZMQ     *)
(* endpoint each simulator instance uses to talk to it                     *)
(* (sniper/changes/interchiplet_client.cpp).                               *)
(*                                                                         *)
(* One router thread owns a PAIR socket per chiplet.  It waits for "ready" *)
(* from every chiplet, answers "start", then polls the sockets round       *)
(* robin.  A "send" is handed to the destination if that chiplet has a     *)
(* "recv" suspended, and is queued otherwise; a "recv" takes the oldest    *)
(* queued message, or is suspended.  A key press makes the loop end and    *)
(* every chiplet is told "exit".                                           *)
(*                                                                         *)
(* The text of a message is abstracted to its addresses, a body (which the *)
(* composition uses for ports) and a number that names it: the seq-th      *)
(* message its sender addressed to that destination.                       *)
(***************************************************************************)
EXTENDS Integers, Sequences, FiniteSets, Functions

CONSTANTS
  N,        \* subnet_count of interchiplet.ini
  Bodies,   \* what a message carries besides addresses
  MaxSend   \* bound: messages one chiplet sends

ASSUME SubnetAssumption == N \in Nat \ {0}
ASSUME MaxSendAssumption == MaxSend \in Nat

Chiplets == 0 .. N - 1

\* Destination addresses a program can write; N stands for every address
\* outside the range the router accepts.
Dests == 0 .. N

VARIABLES
  running,    \* atomic_bool running, cleared by main when a key is pressed
  phase,      \* where run() is
  pos,        \* its loop variable i
  up,         \* up[i]: what endpoint i has written and the router not yet read
  down,       \* down[i]: what the router has written and endpoint i not yet read
  routerBuf,  \* routerBuf[i]: messages waiting for a "recv" of chiplet i
  reading,    \* reading[i]: suspended "recv"s of chiplet i
  count,      \* forwardCnt, getRecvCnt, getSendCnt
  client,     \* client[i]: where the process that owns endpoint i is
  sent,       \* sent[i][d]: messages chiplet i has addressed to d
  delivered   \* delivered[i]: history, messages written to the socket of i

routerVars == <<running, phase, pos, routerBuf, reading, count, delivered>>
clientVars == <<client, sent>>
vars == <<running, phase, pos, up, down, routerBuf, reading, count, client,
          sent, delivered>>

Message == [src : Chiplets, des : Dests, seq : Nat \ {0}, body : Bodies]

Command == [cmd : {"ready", "recv"}] \cup [cmd : {"send"}, msg : Message]
Reply   == [cmd : {"start", "exit"}] \cup [cmd : {"msg"}, msg : Message]

Ready == [cmd |-> "ready"]
Recv  == [cmd |-> "recv"]
Start == [cmd |-> "start"]
Exit  == [cmd |-> "exit"]
SendOf(m) == [cmd |-> "send", msg |-> m]
MsgOf(m)  == [cmd |-> "msg", msg |-> m]

Init ==
  /\ running = TRUE
  /\ phase = "ready"
  /\ pos = 0
  /\ up = [i \in Chiplets |-> <<>>]
  /\ down = [i \in Chiplets |-> <<>>]
  /\ routerBuf = [i \in Chiplets |-> <<>>]
  /\ reading = [i \in Chiplets |-> 0]
  /\ count = [forward |-> 0, recv |-> 0, send |-> 0]
  /\ client = [i \in Chiplets |-> "new"]
  /\ sent = [i \in Chiplets |-> [d \in Dests |-> 0]]
  /\ delivered = [i \in Chiplets |-> <<>>]

-----------------------------------------------------------------------------
(* The endpoint: connectZmq, writeMsg, readMsg and closeZmq.               *)

\* First half of connectZmq: connect and send "ready".
ConnectZmq(i) ==
  /\ client[i] = "new"
  /\ client' = [client EXCEPT ![i] = "connecting"]
  /\ up' = [up EXCEPT ![i] = Append(@, Ready)]
  /\ UNCHANGED <<routerVars, down, sent>>

\* Second half: the blocking recv.  Whether the answer was "start" is
\* connectZmq's return value, which zmq_pro only logs.
StartZmq(i) ==
  /\ client[i] = "connecting"
  /\ down[i] # <<>>
  /\ client' = [client EXCEPT ![i] = "idle"]
  /\ down' = [down EXCEPT ![i] = Tail(@)]
  /\ UNCHANGED <<routerVars, up, sent>>

NextMessage(i, d, b) ==
  [src |-> i, des |-> d, seq |-> sent[i][d] + 1, body |-> b]

\* writeMsg("send ...")
ClientSend(i, d, b) ==
  /\ client[i] = "idle"
  /\ sent' = [sent EXCEPT ![i][d] = @ + 1]
  /\ up' = [up EXCEPT ![i] = Append(@, SendOf(NextMessage(i, d, b)))]
  /\ UNCHANGED <<routerVars, down, client>>

\* writeMsg("recv"), which zmq_pro always follows by a blocking readMsg.
ClientRecv(i) ==
  /\ client[i] = "idle"
  /\ client' = [client EXCEPT ![i] = "reading"]
  /\ up' = [up EXCEPT ![i] = Append(@, Recv)]
  /\ UNCHANGED <<routerVars, down, sent>>

\* That readMsg.  On "exit" zmq_pro leaves its loop.
ClientRead(i) ==
  /\ client[i] = "reading"
  /\ down[i] # <<>>
  /\ client' = [client EXCEPT ![i] = IF Head(down[i]) = Exit THEN "leaving" ELSE "idle"]
  /\ down' = [down EXCEPT ![i] = Tail(@)]
  /\ UNCHANGED <<routerVars, up, sent>>

\* closeZmq.  What was written is still delivered (the default linger);
\* nothing is read any more.
CloseZmq(i) ==
  /\ client[i] \in {"idle", "leaving"}
  /\ client' = [client EXCEPT ![i] = "closed"]
  /\ UNCHANGED <<routerVars, up, down, sent>>

-----------------------------------------------------------------------------
(* The router thread.                                                      *)

\* writeMsg: what is written to an endpoint that is closed is dropped
\* (ZMQ_DONTWAIT), everything else reaches it in order.
WriteMsg(i, r) ==
  down' = IF client[i] = "closed" THEN down
          ELSE [down EXCEPT ![i] = Append(@, r)]

\* Mutant: "start" is answered as soon as one subnet is ready.
RouterReadyOne ==
  /\ phase = "ready"
  /\ up[pos] # <<>>
  /\ up' = [up EXCEPT ![pos] = Tail(@)]
  /\ pos' = 0 /\ phase' = "start"
  /\ UNCHANGED <<running, down, routerBuf, reading, count, delivered, clientVars>>

\* One turn of the first loop of run(): block until subnet pos says "ready".
RouterReady ==
  /\ phase = "ready"
  /\ up[pos] # <<>>
  /\ up' = [up EXCEPT ![pos] = Tail(@)]
  /\ IF Head(up[pos]) # Ready
     THEN phase' = "failed" /\ UNCHANGED pos
     ELSE IF pos + 1 < N
          THEN pos' = pos + 1 /\ UNCHANGED phase
          ELSE pos' = 0 /\ phase' = "start"
  /\ UNCHANGED <<running, down, routerBuf, reading, count, delivered, clientVars>>

\* One turn of the second loop: answer "start".
RouterStart ==
  /\ phase = "start"
  /\ WriteMsg(pos, Start)
  /\ IF pos + 1 < N
     THEN pos' = pos + 1 /\ UNCHANGED phase
     ELSE pos' = 0 /\ phase' = "loop"
  /\ UNCHANGED <<running, up, routerBuf, reading, count, delivered, clientVars>>

\* Hand m to chiplet d.
Forward(d, m) ==
  /\ WriteMsg(d, MsgOf(m))
  /\ delivered' = [delivered EXCEPT ![d] = Append(@, m)]

\* Mutant: a "recv" is suspended without looking at routerBuf.
HandleRecvSuspend(i) ==
  /\ reading' = [reading EXCEPT ![i] = @ + 1]
  /\ count' = [count EXCEPT !.recv = @ + 1]
  /\ UNCHANGED <<down, routerBuf, delivered>>

\* "recv" from chiplet i.
HandleRecv(i) ==
  \/ /\ routerBuf[i] = <<>>
     /\ reading' = [reading EXCEPT ![i] = @ + 1]
     /\ count' = [count EXCEPT !.recv = @ + 1]
     /\ UNCHANGED <<down, routerBuf, delivered>>
  \/ /\ routerBuf[i] # <<>>
     /\ Forward(i, Head(routerBuf[i]))
     /\ routerBuf' = [routerBuf EXCEPT ![i] = Tail(@)]
     /\ count' = [forward |-> count.forward + 1, recv |-> count.recv + 1, send |-> count.send]
     /\ UNCHANGED reading

\* Mutants: a message goes out whether or not a "recv" is suspended; a
\* suspended "recv" is not taken off; routerBuf keeps only the last message.
HandleSendAlways(m) ==
  \/ /\ m.des \in Chiplets
     /\ Forward(m.des, m)
     /\ reading' = [reading EXCEPT ![m.des] = @ - 1]
     /\ count' = [forward |-> count.forward + 1, recv |-> count.recv, send |-> count.send + 1]
     /\ UNCHANGED routerBuf
  \/ /\ m.des \notin Chiplets
     /\ count' = [count EXCEPT !.send = @ + 1]
     /\ UNCHANGED <<down, routerBuf, reading, delivered>>

HandleSendKeep(m) ==
  \/ /\ m.des \in Chiplets /\ reading[m.des] = 0
     /\ routerBuf' = [routerBuf EXCEPT ![m.des] = Append(@, m)]
     /\ UNCHANGED <<down, reading, count, delivered>>
  \/ /\ m.des \in Chiplets /\ reading[m.des] # 0
     /\ Forward(m.des, m)
     /\ UNCHANGED <<routerBuf, reading, count>>

HandleSendReplace(m) ==
  \/ /\ m.des \in Chiplets /\ reading[m.des] = 0
     /\ routerBuf' = [routerBuf EXCEPT ![m.des] = <<m>>]
     /\ UNCHANGED <<down, reading, count, delivered>>
  \/ /\ m.des \in Chiplets /\ reading[m.des] # 0
     /\ Forward(m.des, m)
     /\ reading' = [reading EXCEPT ![m.des] = @ - 1]
     /\ UNCHANGED <<routerBuf, count>>

\* "send" of m: queued, handed over at once, or a wrong message.
HandleSend(m) ==
  \/ /\ m.des \in Chiplets
     /\ reading[m.des] = 0
     /\ routerBuf' = [routerBuf EXCEPT ![m.des] = Append(@, m)]
     /\ count' = [count EXCEPT !.send = @ + 1]
     /\ UNCHANGED <<down, reading, delivered>>
  \/ /\ m.des \in Chiplets
     /\ reading[m.des] # 0
     /\ Forward(m.des, m)
     /\ reading' = [reading EXCEPT ![m.des] = @ - 1]
     /\ count' = [forward |-> count.forward + 1, recv |-> count.recv, send |-> count.send + 1]
     /\ UNCHANGED routerBuf
  \/ /\ m.des \notin Chiplets
     /\ count' = [count EXCEPT !.send = @ + 1]
     /\ UNCHANGED <<down, routerBuf, reading, delivered>>

\* One turn of the polling loop: look at socket pos once.
RouterPoll ==
  /\ phase = "loop"
  /\ running
  /\ pos' = (pos + 1) % N
  /\ \/ /\ up[pos] = <<>>
        /\ UNCHANGED <<up, down, routerBuf, reading, count, delivered>>
     \/ /\ up[pos] # <<>>
        /\ up' = [up EXCEPT ![pos] = Tail(@)]
        /\ CASE Head(up[pos]).cmd = "recv" -> HandleRecv(pos)
             [] Head(up[pos]).cmd = "send" -> HandleSend(Head(up[pos]).msg)
             [] OTHER -> UNCHANGED <<down, routerBuf, reading, count, delivered>>
  /\ UNCHANGED <<running, phase, clientVars>>

\* The loop ends: running is tested before every poll.
RouterLeave ==
  /\ phase = "loop"
  /\ ~running
  /\ phase' = "exit"
  /\ pos' = 0
  /\ UNCHANGED <<running, up, down, routerBuf, reading, count, delivered, clientVars>>

\* One turn of the last loop: say "exit"; then the sockets are destroyed.
RouterExit ==
  /\ phase = "exit"
  /\ WriteMsg(pos, Exit)
  /\ IF pos + 1 < N
     THEN pos' = pos + 1 /\ UNCHANGED phase
     ELSE pos' = 0 /\ phase' = "stopped"
  /\ UNCHANGED <<running, up, routerBuf, reading, count, delivered, clientVars>>

\* main: getchar returns.  The thread is only joined, never interrupted.
KeyPressed ==
  /\ running
  /\ running' = FALSE
  /\ UNCHANGED <<phase, pos, up, down, routerBuf, reading, count, delivered, clientVars>>

-----------------------------------------------------------------------------
Router == RouterReady \/ RouterStart \/ RouterPoll \/ RouterLeave \/ RouterExit

Client(i) ==
  \/ ConnectZmq(i) \/ StartZmq(i) \/ ClientRecv(i) \/ ClientRead(i) \/ CloseZmq(i)
  \/ \E d \in Dests, b \in Bodies : SumFunction(sent[i]) < MaxSend /\ ClientSend(i, d, b)

Next == Router \/ KeyPressed \/ \E i \in Chiplets : Client(i)

Spec == Init /\ [][Next]_vars

\* The router thread never sleeps for more than a millisecond, and a chiplet
\* that is connecting or blocked in readMsg takes its answer.
Fairness ==
  /\ WF_vars(Router)
  /\ \A i \in Chiplets : WF_vars(ConnectZmq(i) \/ StartZmq(i) \/ ClientRead(i))

FairSpec == Spec /\ Fairness

-----------------------------------------------------------------------------
(* Properties.                                                             *)

Phases == {"ready", "start", "loop", "exit", "stopped", "failed"}

TypeOK ==
  /\ running \in BOOLEAN
  /\ phase \in Phases
  /\ pos \in Chiplets
  /\ up \in [Chiplets -> Seq(Command)]
  /\ down \in [Chiplets -> Seq(Reply)]
  /\ routerBuf \in [Chiplets -> Seq(Message)]
  /\ reading \in [Chiplets -> Nat]
  /\ count \in [forward : Nat, recv : Nat, send : Nat]
  /\ client \in [Chiplets -> {"new", "connecting", "idle", "reading", "leaving", "closed"}]
  /\ sent \in [Chiplets -> [Dests -> Nat]]
  /\ delivered \in [Chiplets -> Seq(Message)]

\* How often command c waits in the socket of chiplet i.
Waiting(i, c) == Cardinality({p \in DOMAIN up[i] : up[i][p].cmd = c})
Answers(i) == Cardinality({p \in DOMAIN down[i] : down[i][p].cmd = "msg"})

\* Until the router leaves its loop, a chiplet blocked in readMsg has exactly
\* one "recv" in the system: unread, suspended, or answered by one message.
\* A chiplet that is not blocked has none.  (run() keeps reading[] as a
\* count and never looks at the chiplet's side.)
RecvAnsweredOnce ==
  phase \in {"ready", "start", "loop"} =>
    \A i \in Chiplets :
      Waiting(i, "recv") + reading[i] + Answers(i) = IF client[i] = "reading" THEN 1 ELSE 0

\* The messages the router hands to a chiplet from one sender are the first,
\* the second, the third ... that the sender addressed to it: nothing is
\* skipped, repeated or overtaken, whether a message was queued in routerBuf
\* or bypassed it because a "recv" was suspended.
InOrder ==
  \A d \in Chiplets : \A q \in DOMAIN delivered[d] :
    /\ delivered[d][q].des = d
    /\ \A p \in 1 .. q - 1 :
         delivered[d][p].src = delivered[d][q].src => delivered[d][p].seq < delivered[d][q].seq
    /\ \A k \in 1 .. delivered[d][q].seq - 1 :
         \E p \in 1 .. q - 1 : /\ delivered[d][p].src = delivered[d][q].src
                               /\ delivered[d][p].seq = k

Holds(s, m, d, k) == m.src = s /\ m.des = d /\ m.seq = k

\* Every message a chiplet has addressed to an existing chiplet is in its
\* socket, in routerBuf, or delivered: run() drops none on the way.  What is
\* still in a socket or in routerBuf when run() returns was never asked for.
NothingLost ==
  \A s \in Chiplets, d \in Chiplets : \A k \in 1 .. sent[s][d] :
    \/ \E p \in DOMAIN up[s] : up[s][p].cmd = "send" /\ Holds(s, up[s][p].msg, d, k)
    \/ \E p \in DOMAIN routerBuf[d] : Holds(s, routerBuf[d][p], d, k)
    \/ \E p \in DOMAIN delivered[d] : Holds(s, delivered[d][p], d, k)

\* No chiplet is past connectZmq before every chiplet has sent "ready"
\* ("保证同步开始", the synchronous start of run()).
StartTogether ==
  \A i, j \in Chiplets :
    client[i] \notin {"new", "connecting"} => client[j] # "new"

\* The router writes with ZMQ_DONTWAIT, so it must never find a full pipe:
\* at most an answer and the final "exit" wait for a chiplet.
NeverBacklogged == \A i \in Chiplets : Len(down[i]) <= 2

\* A chiplet blocked in readMsg is answered if a message for it is on its
\* way or queued, or once the router leaves its loop.
Due(i) ==
  \/ phase \in {"exit", "stopped"}
  \/ routerBuf[i] # <<>>
  \/ \E s \in Chiplets : \E p \in DOMAIN up[s] : up[s][p].cmd = "send" /\ up[s][p].msg.des = i

ReaderServed ==
  \A i \in Chiplets : (client[i] = "reading" /\ Due(i)) ~> (client[i] # "reading")

=============================================================================
