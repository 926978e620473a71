------------------------- MODULE InterchipletProofs -------------------------
(***************************************************************************)
(* Proofs about the router, for every number of chiplets and every number  *)
(* of messages.                                                            *)
(***************************************************************************)
EXTENDS Interchiplet, TLAPS

-----------------------------------------------------------------------------
(* What Append and Tail do to the elements of a sequence.                  *)

\* Appending: writing to a socket or queueing in routerBuf adds one element
\* at the end and leaves the others where they are.
LEMMA AppendElements ==
  ASSUME NEW S, NEW s \in Seq(S), NEW e \in S
  PROVE  /\ Append(s, e) \in Seq(S)
         /\ DOMAIN Append(s, e) = 1 .. Len(s) + 1
         /\ Append(s, e)[Len(s) + 1] = e
         /\ \A p \in DOMAIN s : p \in 1 .. Len(s) + 1 /\ Append(s, e)[p] = s[p]
         /\ \A p \in DOMAIN Append(s, e) : p \in DOMAIN s \/ p = Len(s) + 1
  OBVIOUS

\* Taking the head: reading a socket or popping routerBuf moves every other
\* element one place forward.
LEMMA TailElements ==
  ASSUME NEW S, NEW s \in Seq(S), s # <<>>
  PROVE  /\ Tail(s) \in Seq(S)
         /\ Head(s) \in S
         /\ 1 \in DOMAIN s /\ Head(s) = s[1]
         /\ \A p \in DOMAIN Tail(s) : p + 1 \in DOMAIN s /\ p + 1 > 1 /\ Tail(s)[p] = s[p + 1]
         /\ \A p \in DOMAIN s : p = 1 \/ (p - 1 \in DOMAIN Tail(s) /\ Tail(s)[p - 1] = s[p])
  OBVIOUS

\* The same for a family of sequences: one socket or queue per chiplet.
LEMMA AppendTyped ==
  ASSUME NEW D, NEW S, NEW f \in [D -> Seq(S)], NEW i \in D, NEW e \in S
  PROVE  [f EXCEPT ![i] = Append(@, e)] \in [D -> Seq(S)]
  BY AppendElements

LEMMA TailTyped ==
  ASSUME NEW D, NEW S, NEW f \in [D -> Seq(S)], NEW i \in D, f[i] # <<>>
  PROVE  /\ [f EXCEPT ![i] = Tail(@)] \in [D -> Seq(S)]
         /\ Head(f[i]) \in S
  BY TailElements

\* Arithmetic of the loop variable of run(), which stays below N.
LEMMA Positions ==
  ASSUME NEW i \in Chiplets
  PROVE  /\ 0 \in Chiplets
         /\ i + 1 < N => i + 1 \in Chiplets
         /\ (i + 1) % N \in Chiplets
  BY SubnetAssumption DEF Chiplets

\* A command that is a "send" carries a message; the others are no "send".
LEMMA Commands ==
  /\ Ready \in Command /\ Recv \in Command
  /\ Ready.cmd # "send" /\ Recv.cmd # "send"
  /\ Start \in Reply /\ Exit \in Reply
  /\ \A m \in Message :
       /\ SendOf(m) \in Command /\ MsgOf(m) \in Reply
       /\ SendOf(m).cmd = "send" /\ SendOf(m).msg = m
  /\ \A c \in Command : c.cmd = "send" => c.msg \in Message
  BY DEF Command, Reply, Ready, Recv, Start, Exit, SendOf, MsgOf

\* writeMsg keeps the sockets well typed.
LEMMA WriteMsgType ==
  ASSUME TypeOK, NEW i \in Chiplets, NEW r \in Reply, WriteMsg(i, r)
  PROVE  down' \in [Chiplets -> Seq(Reply)]
  BY AppendTyped DEF TypeOK, WriteMsg

-----------------------------------------------------------------------------
(* Type correctness.                                                       *)

\* Reading the command at the front of socket i: what is left, and what the
\* command is.
LEMMA FrontCommand ==
  ASSUME TypeOK, NEW i \in Chiplets, up[i] # <<>>
  PROVE  /\ [up EXCEPT ![i] = Tail(@)] \in [Chiplets -> Seq(Command)]
         /\ Head(up[i]) \in Command
         /\ Head(up[i]).cmd = "send" => Head(up[i]).msg \in Message
  BY TailTyped, Commands DEF TypeOK

\* Handing over a message keeps the types of what it touches.
LEMMA ForwardType ==
  ASSUME TypeOK, NEW d \in Chiplets, NEW m \in Message, Forward(d, m)
  PROVE  /\ down' \in [Chiplets -> Seq(Reply)]
         /\ delivered' \in [Chiplets -> Seq(Message)]
  <1>1. MsgOf(m) \in Reply /\ WriteMsg(d, MsgOf(m))
    BY Commands DEF Forward
  <1>2. down' \in [Chiplets -> Seq(Reply)]
    BY <1>1, WriteMsgType
  <1>3. delivered' \in [Chiplets -> Seq(Message)]
    BY AppendTyped DEF Forward, TypeOK
  <1> QED
    BY <1>2, <1>3

\* So does handling a "recv" ...
LEMMA HandleRecvType ==
  ASSUME TypeOK, NEW i \in Chiplets, HandleRecv(i)
  PROVE  /\ routerBuf' \in [Chiplets -> Seq(Message)]
         /\ down' \in [Chiplets -> Seq(Reply)]
         /\ delivered' \in [Chiplets -> Seq(Message)]
         /\ reading' \in [Chiplets -> Nat]
         /\ count' \in [forward : Nat, recv : Nat, send : Nat]
  <1>0. /\ count \in [forward : Nat, recv : Nat, send : Nat]
        /\ reading \in [Chiplets -> Nat]
        /\ routerBuf \in [Chiplets -> Seq(Message)]
    BY DEF TypeOK
  <1>1. count' \in [forward : Nat, recv : Nat, send : Nat]
    <2>1. \/ count' = [count EXCEPT !.recv = @ + 1]
          \/ count' = [forward |-> count.forward + 1, recv |-> count.recv + 1,
                        send |-> count.send]
      BY DEF HandleRecv
    <2>2. [count EXCEPT !.recv = @ + 1] \in [forward : Nat, recv : Nat, send : Nat]
      BY <1>0, SMTT(20)
    <2> QED
      BY <1>0, <2>1, <2>2
  <1>2. reading' \in [Chiplets -> Nat]
    BY <1>0 DEF HandleRecv
  <1>3. CASE routerBuf[i] = <<>>
    BY <1>1, <1>2, <1>3, Zenon DEF HandleRecv, TypeOK
  <1>4. CASE routerBuf[i] # <<>>
    <2>1. /\ [routerBuf EXCEPT ![i] = Tail(@)] \in [Chiplets -> Seq(Message)]
          /\ Head(routerBuf[i]) \in Message
      BY <1>4, TailTyped DEF TypeOK
    <2>2. /\ Forward(i, Head(routerBuf[i]))
          /\ routerBuf' = [routerBuf EXCEPT ![i] = Tail(@)]
      BY <1>4 DEF HandleRecv
    <2> QED
      BY <1>1, <1>2, <2>1, <2>2, ForwardType
  <1> QED
    BY <1>3, <1>4

\* ... and a "send".
LEMMA HandleSendType ==
  ASSUME TypeOK, NEW m \in Message, HandleSend(m)
  PROVE  /\ routerBuf' \in [Chiplets -> Seq(Message)]
         /\ down' \in [Chiplets -> Seq(Reply)]
         /\ delivered' \in [Chiplets -> Seq(Message)]
         /\ reading' \in [Chiplets -> Nat]
         /\ count' \in [forward : Nat, recv : Nat, send : Nat]
  <1>0. /\ count \in [forward : Nat, recv : Nat, send : Nat]
        /\ reading \in [Chiplets -> Nat]
        /\ routerBuf \in [Chiplets -> Seq(Message)]
    BY DEF TypeOK
  <1>1. count' \in [forward : Nat, recv : Nat, send : Nat]
    BY <1>0 DEF HandleSend
  <1>2. reading' \in [Chiplets -> Nat]
    BY <1>0 DEF HandleSend
  <1>3. CASE m.des \in Chiplets /\ reading[m.des] = 0
    <2>1. routerBuf' = [routerBuf EXCEPT ![m.des] = Append(@, m)]
      BY <1>3 DEF HandleSend
    <2>2. routerBuf' \in [Chiplets -> Seq(Message)]
      BY <1>0, <1>3, <2>1, AppendTyped
    <2> QED
      BY <1>1, <1>2, <1>3, <2>2, Zenon DEF HandleSend, TypeOK
  <1>4. CASE m.des \in Chiplets /\ reading[m.des] # 0
    <2>1. Forward(m.des, m) /\ UNCHANGED routerBuf
      BY <1>4 DEF HandleSend
    <2>2. routerBuf' \in [Chiplets -> Seq(Message)]
      BY <2>1 DEF TypeOK
    <2> QED
      BY <1>1, <1>2, <1>4, <2>1, <2>2, ForwardType
  <1>5. CASE m.des \notin Chiplets
    BY <1>1, <1>2, <1>5 DEF HandleSend, TypeOK
  <1> QED
    BY <1>3, <1>4, <1>5

\* Every step of the program keeps the type invariant.
LEMMA TypeStep ==
  ASSUME TypeOK, [Next]_vars
  PROVE  TypeOK'
  <1>1. ASSUME NEW i \in Chiplets, Client(i)
        PROVE  TypeOK'
    <2>1. CASE ConnectZmq(i)
      BY <2>1, AppendTyped, Commands DEF TypeOK, ConnectZmq, routerVars
    <2>2. CASE StartZmq(i)
      BY <2>2, TailTyped DEF TypeOK, StartZmq, routerVars
    <2>3. CASE ClientRecv(i)
      BY <2>3, AppendTyped, Commands DEF TypeOK, ClientRecv, routerVars
    <2>4. CASE ClientRead(i)
      BY <2>4, TailTyped DEF TypeOK, ClientRead, routerVars
    <2>5. CASE CloseZmq(i)
      BY <2>5 DEF TypeOK, CloseZmq, routerVars
    <2>6. ASSUME NEW d \in Dests, NEW b \in Bodies, ClientSend(i, d, b)
          PROVE  TypeOK'
      <3>1. NextMessage(i, d, b) \in Message
        BY DEF TypeOK, NextMessage, Message
      <3>2. up' \in [Chiplets -> Seq(Command)]
        BY <2>6, <3>1, AppendTyped, Commands DEF TypeOK, ClientSend
      <3>3. sent' \in [Chiplets -> [Dests -> Nat]]
        BY <2>6 DEF TypeOK, ClientSend
      <3> QED
        BY <2>6, <3>2, <3>3, Zenon DEF TypeOK, ClientSend, routerVars
    <2> QED
      BY <1>1, <2>1, <2>2, <2>3, <2>4, <2>5, <2>6 DEF Client
  <1>2. CASE RouterReady
    BY <1>2, FrontCommand, Positions, Zenon DEF TypeOK, RouterReady, clientVars, Phases
  <1>3. CASE RouterStart
    BY <1>3, WriteMsgType, Commands, Positions, Zenon
       DEF TypeOK, RouterStart, clientVars, Phases
  <1>4. CASE RouterPoll
    <2>1. pos' \in Chiplets
      BY <1>4, Positions DEF TypeOK, RouterPoll
    <2>2. CASE up[pos] = <<>>
      BY <1>4, <2>1, <2>2, Zenon DEF TypeOK, RouterPoll, clientVars
    <2>3. CASE up[pos] # <<>> /\ HandleRecv(pos)
      BY <1>4, <2>1, <2>3, FrontCommand, HandleRecvType, Zenon
         DEF TypeOK, RouterPoll, clientVars
    <2>4. CASE up[pos] # <<>> /\ Head(up[pos]).cmd = "send" /\ HandleSend(Head(up[pos]).msg)
      BY <1>4, <2>1, <2>4, FrontCommand, HandleSendType, Zenon
         DEF TypeOK, RouterPoll, clientVars
    <2>5. CASE up[pos] # <<>> /\ UNCHANGED <<down, routerBuf, reading, count, delivered>>
      BY <1>4, <2>1, <2>5, FrontCommand, Zenon DEF TypeOK, RouterPoll, clientVars
    <2> QED
      BY <1>4, <2>2, <2>3, <2>4, <2>5 DEF RouterPoll
  <1>5. CASE RouterLeave
    BY <1>5, Positions, Zenon DEF TypeOK, RouterLeave, clientVars, Phases
  <1>6. CASE RouterExit
    BY <1>6, WriteMsgType, Commands, Positions, Zenon
       DEF TypeOK, RouterExit, clientVars, Phases
  <1>7. CASE KeyPressed
    BY <1>7, Zenon DEF TypeOK, KeyPressed, clientVars
  <1>8. CASE UNCHANGED vars
    BY <1>8, Zenon DEF TypeOK, vars
  <1> QED
    BY <1>1, <1>2, <1>3, <1>4, <1>5, <1>6, <1>7, <1>8 DEF Next, Router

\* The variables of run() and of the endpoints always have their types: in
\* particular reading[] never goes below zero and the loop variable never
\* leaves the sockets.
THEOREM TypeCorrect == Spec => []TypeOK
  <1>1. Init => TypeOK
    BY Positions, SubnetAssumption DEF Init, TypeOK, Phases, Chiplets
  <1>2. TypeOK /\ [Next]_vars => TypeOK'
    BY TypeStep
  <1> QED
    BY <1>1, <1>2, PTL DEF Spec

-----------------------------------------------------------------------------
(* The start barrier.                                                      *)

\* While run() is in its first loop nothing has been answered, so every
\* chiplet is still in connectZmq and its socket holds nothing but "ready";
\* the chiplets the loop has passed have connected, and after it all have.
Barrier ==
  /\ phase # "failed"
  /\ phase = "ready" => \A i \in Chiplets :
       /\ down[i] = <<>>
       /\ client[i] \in {"new", "connecting"}
       /\ \A p \in DOMAIN up[i] : up[i][p] = Ready
       /\ i < pos => client[i] # "new"
  /\ phase # "ready" => \A i \in Chiplets : client[i] # "new"
  /\ \A i \in Chiplets : up[i] # <<>> => client[i] # "new"

LEMMA BarrierStep ==
  ASSUME TypeOK, Barrier, [Next]_vars
  PROVE  Barrier'
  <1> DEFINE Others(i) == \A j \in Chiplets \ {i} : client'[j] = client[j] /\ up'[j] = up[j]
  <1>0. /\ client \in [Chiplets -> {"new", "connecting", "idle", "reading", "leaving", "closed"}]
        /\ up \in [Chiplets -> Seq(Command)]
        /\ down \in [Chiplets -> Seq(Reply)]
        /\ pos \in Chiplets
    BY DEF TypeOK
  <1>1. ASSUME NEW i \in Chiplets, ConnectZmq(i)
        PROVE  Barrier'
    <2>1. /\ up'[i] = Append(up[i], Ready) /\ client'[i] = "connecting"
          /\ Others(i) /\ UNCHANGED <<phase, pos, down>>
      BY <1>0, <1>1 DEF ConnectZmq, routerVars
    <2>2. up[i] = <<>>
      BY <1>1 DEF Barrier, ConnectZmq
    <2>3. \A p \in DOMAIN up'[i] : up'[i][p] = Ready
      BY <2>1, <2>2
    <2> QED
      BY <2>1, <2>3 DEF Barrier
  <1>2. ASSUME NEW i \in Chiplets,
               \/ StartZmq(i) \/ ClientRecv(i) \/ ClientRead(i) \/ CloseZmq(i)
               \/ \E d \in Dests, b \in Bodies : ClientSend(i, d, b)
        PROVE  Barrier'
    <2>1. phase # "ready"
      BY <1>2 DEF Barrier, StartZmq, ClientRecv, ClientRead, CloseZmq, ClientSend
    <2>2. UNCHANGED phase
      BY <1>2 DEF StartZmq, ClientRecv, ClientRead, CloseZmq, ClientSend, routerVars
    <2>3. \A j \in Chiplets : client'[j] # "new"
      BY <1>0, <1>2, <2>1
         DEF Barrier, StartZmq, ClientRecv, ClientRead, CloseZmq, ClientSend
    <2> QED
      BY <2>1, <2>2, <2>3 DEF Barrier
  <1>3. CASE RouterReady
    <2>1. Head(up[pos]) = Ready
      BY <1>0, <1>3, TailElements DEF RouterReady, Barrier
    <2>2. client[pos] # "new"
      BY <1>0, <1>3 DEF RouterReady, Barrier
    <2>3. /\ \A p \in DOMAIN up'[pos] : up'[pos][p] = Ready
          /\ \A j \in Chiplets \ {pos} : up'[j] = up[j]
      BY <1>0, <1>3, TailElements DEF RouterReady, Barrier
    <2>4. UNCHANGED <<client, down>>
      BY <1>3 DEF RouterReady, clientVars
    <2>5. CASE pos + 1 < N
      <3>1. pos' = pos + 1 /\ phase' = "ready"
        BY <1>3, <2>1, <2>5 DEF RouterReady
      <3>2. \A j \in Chiplets : j < pos + 1 => j < pos \/ j = pos
        BY <1>0, SubnetAssumption DEF Chiplets
      <3> QED
        BY <1>0, <1>3, <2>2, <2>3, <2>4, <3>1, <3>2 DEF RouterReady, Barrier
    <2>6. CASE ~(pos + 1 < N)
      <3>1. pos' = 0 /\ phase' = "start"
        BY <1>3, <2>1, <2>6 DEF RouterReady
      <3>2. \A j \in Chiplets : j < pos \/ j = pos
        BY <1>0, <2>6, SubnetAssumption DEF Chiplets
      <3> QED
        BY <1>0, <1>3, <2>2, <2>4, <3>1, <3>2 DEF RouterReady, Barrier
    <2> QED
      BY <2>5, <2>6
  <1>4. CASE RouterStart \/ RouterPoll \/ RouterLeave \/ RouterExit
    <2>1. /\ phase # "ready" /\ phase' \notin {"ready", "failed"}
          /\ UNCHANGED client
      BY <1>4 DEF RouterStart, RouterPoll, RouterLeave, RouterExit, clientVars, Barrier
    <2> QED
      BY <2>1 DEF Barrier
  <1>5. CASE KeyPressed
    <2>1. UNCHANGED <<phase, pos, up, down, client>>
      BY <1>5 DEF KeyPressed, clientVars
    <2> QED
      BY <2>1 DEF Barrier
  <1>6. CASE UNCHANGED vars
    <2>1. UNCHANGED <<phase, pos, up, down, client>>
      BY <1>6 DEF vars
    <2> QED
      BY <2>1 DEF Barrier
  <1> QED
    BY <1>1, <1>2, <1>3, <1>4, <1>5, <1>6 DEF Next, Router, Client

LEMMA BarrierInvariant == Spec => []Barrier
  <1>1. Init => Barrier
    BY SubnetAssumption DEF Init, Barrier, Chiplets
  <1>2. TypeOK /\ Barrier /\ [Next]_vars => Barrier'
    BY BarrierStep
  <1> QED
    BY <1>1, <1>2, TypeCorrect, PTL DEF Spec

\* run() answers "start" only after every chiplet has said "ready", so no
\* chiplet gets past connectZmq while another has not connected.
THEOREM StartsTogether == Spec => []StartTogether
  <1>1. Barrier => StartTogether
    BY DEF Barrier, StartTogether
  <1> QED
    BY <1>1, BarrierInvariant, PTL

-----------------------------------------------------------------------------
(* Order and completeness of delivery.  A message travels from the socket  *)
(* of its sender (up) through routerBuf to delivered, or from up straight  *)
(* to delivered; the invariant says that messages of one sender to one     *)
(* destination are in order inside each of the three places and from each  *)
(* place to the next.                                                      *)

SendsTo(s, p, d) == up[s][p].cmd = "send" /\ up[s][p].msg.des = d

\* m was sent earlier than n, if the same chiplet sent both.
Before(m, n) == m.src = n.src => m.seq < n.seq

UpAddressed ==
  \A s \in Chiplets : \A p \in DOMAIN up[s] : up[s][p].cmd = "send" =>
    up[s][p].msg.src = s /\ up[s][p].msg.seq <= sent[s][up[s][p].msg.des]

BufAddressed ==
  \A d \in Chiplets : \A p \in DOMAIN routerBuf[d] :
    routerBuf[d][p].des = d /\ routerBuf[d][p].seq <= sent[routerBuf[d][p].src][d]

DeliveredAddressed ==
  \A d \in Chiplets : \A p \in DOMAIN delivered[d] :
    delivered[d][p].des = d /\ delivered[d][p].seq <= sent[delivered[d][p].src][d]

UpOrdered ==
  \A s, d \in Chiplets : \A p, q \in DOMAIN up[s] :
    p < q /\ SendsTo(s, p, d) /\ SendsTo(s, q, d) => up[s][p].msg.seq < up[s][q].msg.seq

BufOrdered ==
  \A d \in Chiplets : \A p, q \in DOMAIN routerBuf[d] :
    p < q => Before(routerBuf[d][p], routerBuf[d][q])

DeliveredOrdered ==
  \A d \in Chiplets : \A p, q \in DOMAIN delivered[d] :
    p < q => Before(delivered[d][p], delivered[d][q])

BufBeforeUp ==
  \A s, d \in Chiplets : \A p \in DOMAIN routerBuf[d], q \in DOMAIN up[s] :
    SendsTo(s, q, d) => Before(routerBuf[d][p], up[s][q].msg)

DeliveredBeforeUp ==
  \A s, d \in Chiplets : \A p \in DOMAIN delivered[d], q \in DOMAIN up[s] :
    SendsTo(s, q, d) => Before(delivered[d][p], up[s][q].msg)

DeliveredBeforeBuf ==
  \A d \in Chiplets : \A p \in DOMAIN delivered[d], q \in DOMAIN routerBuf[d] :
    Before(delivered[d][p], routerBuf[d][q])

\* A "recv" is only suspended while routerBuf is empty, so a message that
\* bypasses the queue overtakes nothing.
Suspended == \A i \in Chiplets : reading[i] # 0 => routerBuf[i] = <<>>

Travel ==
  /\ UpAddressed /\ BufAddressed /\ DeliveredAddressed
  /\ UpOrdered /\ BufOrdered /\ DeliveredOrdered
  /\ BufBeforeUp /\ DeliveredBeforeUp /\ DeliveredBeforeBuf
  /\ Suspended /\ NothingLost

-----------------------------------------------------------------------------
(* What a step can do to the messages on their way.                        *)

Pushed(f, i, e) == [f EXCEPT ![i] = Append(@, e)]
Popped(f, i) == [f EXCEPT ![i] = Tail(@)]

\* Nothing moves.
Quiet == UNCHANGED <<up, routerBuf, delivered, sent, reading>>

\* Chiplet i writes "ready" or "recv".
Says(i) ==
  /\ \E c \in Command : c.cmd # "send" /\ up' = Pushed(up, i, c)
  /\ UNCHANGED <<routerBuf, delivered, sent, reading>>

\* The router reads something of chiplet i that moves no message; it may
\* suspend a "recv".
Hears(i) ==
  /\ up[i] # <<>>
  /\ Head(up[i]).cmd = "send" => Head(up[i]).msg.des \notin Chiplets
  /\ up' = Popped(up, i)
  /\ \/ UNCHANGED reading
     \/ routerBuf[i] = <<>> /\ reading' = [reading EXCEPT ![i] = @ + 1]
  /\ UNCHANGED <<routerBuf, delivered, sent>>

\* It reads the "send" of m by chiplet i ...
Reads(i, m) ==
  /\ up[i] # <<>>
  /\ Head(up[i]).cmd = "send" /\ Head(up[i]).msg = m /\ m.des \in Chiplets
  /\ up' = Popped(up, i)

\* ... and queues it,
Queues(i, m) ==
  /\ Reads(i, m)
  /\ reading[m.des] = 0
  /\ routerBuf' = Pushed(routerBuf, m.des, m)
  /\ UNCHANGED <<delivered, sent, reading>>

\* ... or passes it on at once.
Passes(i, m) ==
  /\ Reads(i, m)
  /\ reading[m.des] # 0
  /\ delivered' = Pushed(delivered, m.des, m)
  /\ reading' = [reading EXCEPT ![m.des] = @ - 1]
  /\ UNCHANGED <<routerBuf, sent>>

\* It answers a "recv" of chiplet i from routerBuf.
Serves(i) ==
  /\ up[i] # <<>> /\ Head(up[i]).cmd # "send"
  /\ up' = Popped(up, i)
  /\ routerBuf[i] # <<>>
  /\ delivered' = Pushed(delivered, i, Head(routerBuf[i]))
  /\ routerBuf' = Popped(routerBuf, i)
  /\ UNCHANGED <<sent, reading>>

\* Every step of the program is one of these or a "send" of a chiplet.
LEMMA StepKinds ==
  ASSUME TypeOK, Barrier, [Next]_vars
  PROVE  \/ Quiet
         \/ \E i \in Chiplets : Says(i) \/ Hears(i) \/ Serves(i)
         \/ \E i \in Chiplets, m \in Message : Queues(i, m) \/ Passes(i, m)
         \/ \E i \in Chiplets, d \in Dests, b \in Bodies : ClientSend(i, d, b)
  <1>0. pos \in Chiplets
    BY DEF TypeOK
  <1>1. ASSUME NEW i \in Chiplets, Client(i)
        PROVE  \/ Quiet \/ Says(i) \/ \E d \in Dests, b \in Bodies : ClientSend(i, d, b)
    BY <1>1, Commands
       DEF Client, ConnectZmq, StartZmq, ClientRecv, ClientRead, CloseZmq, routerVars,
           Quiet, Says, Pushed
  <1>2. CASE RouterReady
    <2>1. Head(up[pos]) = Ready
      BY <1>0, <1>2, TailElements DEF RouterReady, Barrier, TypeOK
    <2>2. Hears(pos)
      BY <1>2, <2>1, Commands DEF RouterReady, Hears, Popped, clientVars
    <2> QED
      BY <1>0, <2>2
  <1>3. CASE RouterPoll
    <2>1. CASE up[pos] = <<>>
      BY <1>3, <2>1 DEF RouterPoll, Quiet, clientVars
    <2>2. CASE up[pos] # <<>> /\ Head(up[pos]).cmd = "recv"
      <3>1. /\ HandleRecv(pos) /\ up' = Popped(up, pos) /\ UNCHANGED sent
        BY <1>3, <2>2 DEF RouterPoll, Popped, clientVars
      <3>2. Hears(pos) \/ Serves(pos)
        BY <2>2, <3>1 DEF HandleRecv, Forward, Hears, Serves, Pushed, Popped
      <3> QED
        BY <1>0, <3>2
    <2>3. CASE up[pos] # <<>> /\ Head(up[pos]).cmd = "send"
      <3>1. PICK m \in Message : m = Head(up[pos]).msg
        BY <1>0, <2>3, FrontCommand
      <3>2. /\ HandleSend(m) /\ up' = Popped(up, pos) /\ UNCHANGED sent
        <4>1. HandleSend(Head(up[pos]).msg)
          BY <1>3, <2>3, Zenon DEF RouterPoll
        <4> QED
          BY <1>3, <2>3, <3>1, <4>1, Zenon DEF RouterPoll, Popped, clientVars
      <3>3. Hears(pos) \/ Queues(pos, m) \/ Passes(pos, m)
        BY <2>3, <3>1, <3>2, Zenon
           DEF HandleSend, Forward, Hears, Reads, Queues, Passes, Pushed
      <3> QED
        BY <1>0, <3>3
    <2>4. CASE up[pos] # <<>> /\ Head(up[pos]).cmd \notin {"recv", "send"}
      <3>1. Hears(pos)
        BY <1>3, <2>4 DEF RouterPoll, Hears, Popped, clientVars
      <3> QED
        BY <1>0, <3>1
    <2> QED
      BY <2>1, <2>2, <2>3, <2>4
  <1>4. CASE RouterStart \/ RouterLeave \/ RouterExit \/ KeyPressed \/ UNCHANGED vars
    BY <1>4 DEF RouterStart, RouterLeave, RouterExit, KeyPressed, vars, clientVars, Quiet
  <1>5. CASE \E i \in Chiplets : Client(i)
    <2>1. PICK i \in Chiplets : Client(i)
      BY <1>5
    <2>2. Quiet \/ Says(i) \/ \E d \in Dests, b \in Bodies : ClientSend(i, d, b)
      BY <1>1, <2>1
    <2> QED
      BY <2>2
  <1> QED
    BY <1>2, <1>3, <1>4, <1>5 DEF Next, Router

\* The elements of a family of sequences after a push and after a pop.
LEMMA PushedElements ==
  ASSUME NEW D, NEW S, NEW f \in [D -> Seq(S)], NEW i \in D, NEW e \in S,
         NEW g, g = Pushed(f, i, e)
  PROVE  /\ \A j \in D : \A p \in DOMAIN f[j] : p \in DOMAIN g[j] /\ g[j][p] = f[j][p]
         /\ \A j \in D : \A p \in DOMAIN g[j] :
              \/ p \in DOMAIN f[j] /\ g[j][p] = f[j][p]
              \/ j = i /\ p = Len(f[i]) + 1 /\ g[j][p] = e
         /\ Len(f[i]) + 1 \in DOMAIN g[i] /\ g[i][Len(f[i]) + 1] = e
         /\ \A p \in DOMAIN f[i] : p < Len(f[i]) + 1
  <1>1. g[i] = Append(f[i], e) /\ f[i] \in Seq(S)
    BY DEF Pushed
  <1>2. \A j \in D \ {i} : g[j] = f[j]
    BY DEF Pushed
  <1>3. \A p \in DOMAIN f[i] : p < Len(f[i]) + 1
    BY <1>1
  <1>4. /\ DOMAIN g[i] = 1 .. Len(f[i]) + 1 /\ DOMAIN f[i] = 1 .. Len(f[i])
        /\ g[i][Len(f[i]) + 1] = e /\ Len(f[i]) \in Nat
        /\ \A p \in 1 .. Len(f[i]) : g[i][p] = f[i][p]
    BY <1>1, AppendElements
  <1>5. \A p \in DOMAIN f[i] : p \in DOMAIN g[i] /\ g[i][p] = f[i][p]
    BY <1>4
  <1>6. \A p \in DOMAIN g[i] :
          \/ p \in DOMAIN f[i] /\ g[i][p] = f[i][p]
          \/ p = Len(f[i]) + 1 /\ g[i][p] = e
    BY <1>4
  <1> QED
    BY <1>2, <1>3, <1>4, <1>5, <1>6

LEMMA PoppedElements ==
  ASSUME NEW D, NEW S, NEW f \in [D -> Seq(S)], NEW i \in D, f[i] # <<>>,
         NEW g, g = Popped(f, i)
  PROVE  /\ \A j \in D \ {i} : g[j] = f[j]
         /\ \A p \in DOMAIN g[i] :
              p + 1 \in DOMAIN f[i] /\ p \in Nat /\ 1 < p + 1 /\ g[i][p] = f[i][p + 1]
         /\ \A p \in DOMAIN f[i] : p = 1 \/ (p - 1 \in DOMAIN g[i] /\ g[i][p - 1] = f[i][p])
         /\ 1 \in DOMAIN f[i] /\ Head(f[i]) = f[i][1] /\ f[i][1] \in S
  <1>1. g[i] = Tail(f[i]) /\ f[i] \in Seq(S)
    BY DEF Popped
  <1>2. \A j \in D \ {i} : g[j] = f[j]
    BY DEF Popped
  <1> QED
    BY <1>1, <1>2, TailElements

\* The types of the messages on their way.
LEMMA ElementTypes ==
  ASSUME TypeOK
  PROVE  /\ up \in [Chiplets -> Seq(Command)]
         /\ routerBuf \in [Chiplets -> Seq(Message)]
         /\ delivered \in [Chiplets -> Seq(Message)]
         /\ sent \in [Chiplets -> [Dests -> Nat]]
         /\ reading \in [Chiplets -> Nat]
         /\ \A s \in Chiplets : \A p \in DOMAIN up[s] :
              up[s][p].cmd = "send" => up[s][p].msg \in Message
         /\ \A d \in Chiplets : \A p \in DOMAIN routerBuf[d] : routerBuf[d][p] \in Message
         /\ \A d \in Chiplets : \A p \in DOMAIN delivered[d] : delivered[d][p] \in Message
         /\ \A m \in Message : m.src \in Chiplets /\ m.des \in Dests /\ m.seq \in Nat
  <1>1. \A s \in Chiplets : \A p \in DOMAIN up[s] : up[s][p] \in Command
    BY DEF TypeOK
  <1>2. \A m \in Message : m.src \in Chiplets /\ m.des \in Dests /\ m.seq \in Nat
    BY DEF Message
  <1>3. \A d \in Chiplets : \A p \in DOMAIN routerBuf[d] : routerBuf[d][p] \in Message
    BY DEF TypeOK
  <1>4. \A d \in Chiplets : \A p \in DOMAIN delivered[d] : delivered[d][p] \in Message
    BY DEF TypeOK
  <1> QED
    BY <1>1, <1>2, <1>3, <1>4, Commands DEF TypeOK

\* When the router reads socket i, the other commands stay in order and only
\* the first one of chiplet i goes.
LEMMA UpPopped ==
  ASSUME TypeOK, UpAddressed, UpOrdered,
         NEW i \in Chiplets, up[i] # <<>>, up' = Popped(up, i), UNCHANGED sent
  PROVE  /\ 1 \in DOMAIN up[i] /\ Head(up[i]) = up[i][1]
         /\ \A s \in Chiplets : \A q \in DOMAIN up'[s] :
              \E r \in DOMAIN up[s] : up'[s][q] = up[s][r] /\ (s = i => 1 < r)
         /\ \A s \in Chiplets : \A r \in DOMAIN up[s] :
              \/ s = i /\ r = 1
              \/ \E q \in DOMAIN up'[s] : up'[s][q] = up[s][r]
         /\ UpAddressed'
         /\ UpOrdered'
  <1>1. up \in [Chiplets -> Seq(Command)]
    BY ElementTypes
  <1>2. /\ \A j \in Chiplets \ {i} : up'[j] = up[j]
        /\ \A p \in DOMAIN up'[i] :
             p + 1 \in DOMAIN up[i] /\ p \in Nat /\ 1 < p + 1 /\ up'[i][p] = up[i][p + 1]
        /\ \A p \in DOMAIN up[i] : p = 1 \/ (p - 1 \in DOMAIN up'[i] /\ up'[i][p - 1] = up[i][p])
        /\ 1 \in DOMAIN up[i] /\ Head(up[i]) = up[i][1]
    BY <1>1, PoppedElements
  <1>3. \A s \in Chiplets : \A q \in DOMAIN up'[s] :
          \E r \in DOMAIN up[s] : up'[s][q] = up[s][r] /\ (s = i => 1 < r)
    BY <1>2
  <1>4. UpAddressed'
    BY <1>3 DEF UpAddressed
  <1>5. UpOrdered'
    <2> SUFFICES ASSUME NEW s \in Chiplets, NEW d \in Chiplets,
                        NEW p \in DOMAIN up'[s], NEW q \in DOMAIN up'[s], p < q,
                        SendsTo(s, p, d)', SendsTo(s, q, d)'
                 PROVE  up'[s][p].msg.seq < up'[s][q].msg.seq
      BY DEF UpOrdered
    <2>1. CASE s = i
      BY <1>2, <2>1 DEF UpOrdered, SendsTo
    <2>2. CASE s # i
      BY <1>2, <2>2 DEF UpOrdered, SendsTo
    <2> QED
      BY <2>1, <2>2
  <1> QED
    BY <1>2, <1>3, <1>4, <1>5

\* A "send" by a chiplet: the new message is the latest of its sender.
LEMMA SendTravel ==
  ASSUME TypeOK, Travel, NEW i \in Chiplets, NEW e \in Dests, NEW b \in Bodies,
         ClientSend(i, e, b)
  PROVE  Travel'
  <1> DEFINE m == NextMessage(i, e, b)
             last == Len(up[i]) + 1
  <1>1. /\ m.src = i /\ m.des = e /\ m.seq = sent[i][e] + 1 /\ m \in Message
        /\ SendOf(m) \in Command /\ SendOf(m).cmd = "send" /\ SendOf(m).msg = m
    <2>1. m \in Message
      BY ElementTypes DEF NextMessage, Message
    <2> QED
      BY <2>1, Commands DEF NextMessage
  <1>2. /\ up' = Pushed(up, i, SendOf(m))
        /\ UNCHANGED <<routerBuf, delivered, reading>>
    BY DEF ClientSend, routerVars, Pushed
  <1>3. /\ \A s \in Chiplets : \A p \in DOMAIN up[s] : p \in DOMAIN up'[s] /\ up'[s][p] = up[s][p]
        /\ \A s \in Chiplets : \A p \in DOMAIN up'[s] :
             \/ p \in DOMAIN up[s] /\ up'[s][p] = up[s][p]
             \/ s = i /\ p = last /\ up'[s][p] = SendOf(m)
        /\ last \in DOMAIN up'[i] /\ up'[i][last] = SendOf(m)
        /\ \A p \in DOMAIN up[i] : p < last
    <2>1. up \in [Chiplets -> Seq(Command)]
      BY ElementTypes
    <2> HIDE DEF m
    <2> QED
      BY <1>1, <1>2, <2>1, PushedElements
  <1>4. /\ \A s \in Chiplets, d \in Dests : sent'[s][d] >= sent[s][d]
        /\ sent'[i][e] = sent[i][e] + 1
        /\ \A s \in Chiplets, d \in Dests : s # i \/ d # e => sent'[s][d] = sent[s][d]
        /\ sent \in [Chiplets -> [Dests -> Nat]] /\ sent' \in [Chiplets -> [Dests -> Nat]]
    BY ElementTypes DEF ClientSend
  <1>5. Chiplets \subseteq Dests
    BY SubnetAssumption DEF Chiplets, Dests
  <1>6. UpAddressed'
    <2> SUFFICES ASSUME NEW s \in Chiplets, NEW p \in DOMAIN up'[s], up'[s][p].cmd = "send"
                 PROVE  /\ up'[s][p].msg.src = s
                        /\ up'[s][p].msg.seq <= sent'[s][up'[s][p].msg.des]
      BY DEF UpAddressed
    <2>1. CASE p \in DOMAIN up[s] /\ up'[s][p] = up[s][p]
      <3>1. up[s][p].msg \in Message /\ up[s][p].msg.des \in Dests /\ up[s][p].msg.seq \in Nat
        BY <2>1, ElementTypes
      <3> QED
        BY <2>1, <3>1, <1>4 DEF Travel, UpAddressed
    <2>2. CASE s = i /\ p = last /\ up'[s][p] = SendOf(m)
      BY <1>1, <1>4, <2>2
    <2> QED
      BY <1>3, <2>1, <2>2
  <1>7. BufAddressed' /\ DeliveredAddressed'
    <2>1. ASSUME NEW d \in Chiplets, NEW p \in DOMAIN routerBuf[d]
          PROVE  /\ routerBuf[d][p].des = d
                 /\ routerBuf[d][p].seq <= sent'[routerBuf[d][p].src][d]
      <3>1. routerBuf[d][p].src \in Chiplets /\ routerBuf[d][p].seq \in Nat /\ d \in Dests
        BY <1>5, ElementTypes
      <3>2. routerBuf[d][p].des = d /\ routerBuf[d][p].seq <= sent[routerBuf[d][p].src][d]
        BY DEF Travel, BufAddressed
      <3> QED
        BY <1>4, <3>1, <3>2
    <2>2. ASSUME NEW d \in Chiplets, NEW p \in DOMAIN delivered[d]
          PROVE  /\ delivered[d][p].des = d
                 /\ delivered[d][p].seq <= sent'[delivered[d][p].src][d]
      <3>1. delivered[d][p].src \in Chiplets /\ delivered[d][p].seq \in Nat /\ d \in Dests
        BY <1>5, ElementTypes
      <3>2. delivered[d][p].des = d /\ delivered[d][p].seq <= sent[delivered[d][p].src][d]
        BY DEF Travel, DeliveredAddressed
      <3> QED
        BY <1>4, <3>1, <3>2
    <2> QED
      BY <1>2, <2>1, <2>2 DEF BufAddressed, DeliveredAddressed
  <1>8. UpOrdered'
    <2> SUFFICES ASSUME NEW s \in Chiplets, NEW d \in Chiplets,
                        NEW p \in DOMAIN up'[s], NEW q \in DOMAIN up'[s], p < q,
                        SendsTo(s, p, d)', SendsTo(s, q, d)'
                 PROVE  up'[s][p].msg.seq < up'[s][q].msg.seq
      BY DEF UpOrdered
    <2>1. CASE q \in DOMAIN up[s] /\ up'[s][q] = up[s][q]
      <3>1. p \in DOMAIN up[s] /\ up'[s][p] = up[s][p]
        <4>1. \A j \in DOMAIN up[s] : j \in Nat
          BY ElementTypes
        <4>2. CASE s = i /\ p = last
          BY <1>3, <2>1, <4>1, <4>2
        <4> QED
          BY <1>3, <4>2
      <3> QED
        BY <2>1, <3>1 DEF Travel, UpOrdered, SendsTo
    <2>2. CASE s = i /\ q = last /\ up'[s][q] = SendOf(m)
      <3>1. p \in DOMAIN up[s] /\ up'[s][p] = up[s][p]
        BY <1>3, <2>2
      <3>2. up[s][p].msg.seq <= sent[i][d] /\ up[s][p].msg.seq \in Nat
        BY <2>2, <3>1, ElementTypes DEF Travel, UpAddressed, SendsTo
      <3>3. d = e
        BY <1>1, <2>2 DEF SendsTo
      <3> QED
        BY <1>1, <1>4, <2>2, <3>1, <3>2, <3>3
    <2> QED
      BY <1>3, <2>1, <2>2
  <1>9. BufBeforeUp'
    <2> SUFFICES ASSUME NEW s \in Chiplets, NEW d \in Chiplets,
                        NEW p \in DOMAIN routerBuf[d], NEW q \in DOMAIN up'[s], SendsTo(s, q, d)'
                 PROVE  Before(routerBuf[d][p], up'[s][q].msg)
      BY <1>2 DEF BufBeforeUp
    <2>1. CASE q \in DOMAIN up[s] /\ up'[s][q] = up[s][q]
      BY <2>1 DEF Travel, BufBeforeUp, SendsTo
    <2>2. CASE s = i /\ q = last /\ up'[s][q] = SendOf(m)
      <3>1. d = e
        BY <1>1, <2>2 DEF SendsTo
      <3>2. routerBuf[d][p].seq <= sent[routerBuf[d][p].src][d] /\ routerBuf[d][p].seq \in Nat
        BY ElementTypes DEF Travel, BufAddressed
      <3> QED
        BY <1>1, <1>4, <2>2, <3>1, <3>2 DEF Before
    <2> QED
      BY <1>3, <2>1, <2>2
  <1>10. DeliveredBeforeUp'
    <2> SUFFICES ASSUME NEW s \in Chiplets, NEW d \in Chiplets,
                        NEW p \in DOMAIN delivered[d], NEW q \in DOMAIN up'[s], SendsTo(s, q, d)'
                 PROVE  Before(delivered[d][p], up'[s][q].msg)
      BY <1>2 DEF DeliveredBeforeUp
    <2>1. CASE q \in DOMAIN up[s] /\ up'[s][q] = up[s][q]
      BY <2>1 DEF Travel, DeliveredBeforeUp, SendsTo
    <2>2. CASE s = i /\ q = last /\ up'[s][q] = SendOf(m)
      <3>1. d = e
        BY <1>1, <2>2 DEF SendsTo
      <3>2. delivered[d][p].seq <= sent[delivered[d][p].src][d] /\ delivered[d][p].seq \in Nat
        BY ElementTypes DEF Travel, DeliveredAddressed
      <3> QED
        BY <1>1, <1>4, <2>2, <3>1, <3>2 DEF Before
    <2> QED
      BY <1>3, <2>1, <2>2
  <1>11. BufOrdered' /\ DeliveredOrdered' /\ DeliveredBeforeBuf' /\ Suspended'
    BY <1>2 DEF Travel, BufOrdered, DeliveredOrdered, DeliveredBeforeBuf, Suspended
  <1>12. NothingLost'
    <2> SUFFICES ASSUME NEW s \in Chiplets, NEW d \in Chiplets, NEW k \in 1 .. sent'[s][d]
                 PROVE  \/ \E p \in DOMAIN up'[s] :
                             up'[s][p].cmd = "send" /\ Holds(s, up'[s][p].msg, d, k)
                        \/ \E p \in DOMAIN routerBuf[d] : Holds(s, routerBuf[d][p], d, k)
                        \/ \E p \in DOMAIN delivered[d] : Holds(s, delivered[d][p], d, k)
      BY <1>2 DEF NothingLost
    <2>1. CASE k \in 1 .. sent[s][d]
      BY <1>3, <2>1 DEF Travel, NothingLost
    <2>2. CASE k \notin 1 .. sent[s][d]
      <3>1. s = i /\ d = e /\ k = sent[i][e] + 1
        BY <1>4, <1>5, <2>2
      <3> QED
        BY <1>1, <1>3, <3>1 DEF Holds
    <2> QED
      BY <2>1, <2>2
  <1> QED
    BY <1>6, <1>7, <1>8, <1>9, <1>10, <1>11, <1>12 DEF Travel

\* A "ready" or a "recv" written by a chiplet is no message.
LEMMA SaysTravel ==
  ASSUME TypeOK, Travel, NEW i \in Chiplets, Says(i)
  PROVE  Travel'
  <1>1. PICK c \in Command : c.cmd # "send" /\ up' = Pushed(up, i, c)
    BY DEF Says
  <1>2. UNCHANGED <<routerBuf, delivered, sent, reading>>
    BY DEF Says
  <1>3. up \in [Chiplets -> Seq(Command)]
    BY ElementTypes
  <1>4. /\ \A s \in Chiplets : \A p \in DOMAIN up[s] : p \in DOMAIN up'[s] /\ up'[s][p] = up[s][p]
        /\ \A s \in Chiplets : \A p \in DOMAIN up'[s] :
             up'[s][p].cmd = "send" => p \in DOMAIN up[s] /\ up'[s][p] = up[s][p]
    BY <1>1, <1>3, PushedElements
  <1>5. UpAddressed' /\ BufAddressed' /\ DeliveredAddressed'
    BY <1>2, <1>4 DEF Travel, UpAddressed, BufAddressed, DeliveredAddressed
  <1>6. UpOrdered'
    BY <1>4 DEF Travel, UpOrdered, SendsTo
  <1>7. BufOrdered' /\ DeliveredOrdered' /\ DeliveredBeforeBuf' /\ Suspended'
    BY <1>2 DEF Travel, BufOrdered, DeliveredOrdered, DeliveredBeforeBuf, Suspended
  <1>8. BufBeforeUp' /\ DeliveredBeforeUp'
    BY <1>2, <1>4 DEF Travel, BufBeforeUp, DeliveredBeforeUp, SendsTo
  <1>9. NothingLost'
    BY <1>2, <1>4 DEF Travel, NothingLost
  <1> QED
    BY <1>5, <1>6, <1>7, <1>8, <1>9 DEF Travel

\* The router reads something that moves no message.
LEMMA HearsTravel ==
  ASSUME TypeOK, Travel, NEW i \in Chiplets, Hears(i)
  PROVE  Travel'
  <1>1. /\ 1 \in DOMAIN up[i] /\ Head(up[i]) = up[i][1]
        /\ \A s \in Chiplets : \A q \in DOMAIN up'[s] :
             \E r \in DOMAIN up[s] : up'[s][q] = up[s][r] /\ (s = i => 1 < r)
        /\ \A s \in Chiplets : \A r \in DOMAIN up[s] :
             \/ s = i /\ r = 1
             \/ \E q \in DOMAIN up'[s] : up'[s][q] = up[s][r]
        /\ UpAddressed' /\ UpOrdered'
    BY UpPopped DEF Hears, Travel
  <1>2. UNCHANGED <<routerBuf, delivered, sent>>
    BY DEF Hears
  <1>3. BufAddressed' /\ DeliveredAddressed'
    BY <1>2 DEF Travel, BufAddressed, DeliveredAddressed
  <1>4. BufOrdered' /\ DeliveredOrdered' /\ DeliveredBeforeBuf'
    BY <1>2 DEF Travel, BufOrdered, DeliveredOrdered, DeliveredBeforeBuf
  <1>5. Suspended'
    <2>1. reading \in [Chiplets -> Nat]
      BY ElementTypes
    <2> QED
      BY <1>2, <2>1 DEF Travel, Suspended, Hears
  <1>6. BufBeforeUp' /\ DeliveredBeforeUp'
    BY <1>1, <1>2 DEF Travel, BufBeforeUp, DeliveredBeforeUp, SendsTo
  <1>7. NothingLost'
    <2>1. up[i][1].cmd = "send" => up[i][1].msg.des \notin Chiplets
      BY <1>1, Zenon DEF Hears
    <2> QED
      BY <1>1, <1>2, <2>1 DEF Travel, NothingLost, Holds
  <1> QED
    BY <1>1, <1>3, <1>4, <1>5, <1>6, <1>7 DEF Travel

\* What is known of a message the router reads: chiplet i sent it, later than
\* everything of i to that destination that is queued or delivered, and
\* earlier than everything still in the socket of i.
LEMMA ReadsFacts ==
  ASSUME TypeOK, Travel, NEW i \in Chiplets, NEW m \in Message, Reads(i, m), UNCHANGED sent
  PROVE  /\ m.src = i /\ m.des \in Chiplets /\ m.seq <= sent[i][m.des]
         /\ \A p \in DOMAIN routerBuf[m.des] : Before(routerBuf[m.des][p], m)
         /\ \A p \in DOMAIN delivered[m.des] : Before(delivered[m.des][p], m)
         /\ \A s \in Chiplets : \A q \in DOMAIN up'[s] :
              SendsTo(s, q, m.des)' => Before(m, up'[s][q].msg)
         /\ \A s \in Chiplets : \A q \in DOMAIN up'[s] :
              \E r \in DOMAIN up[s] : up'[s][q] = up[s][r]
         /\ \A s, d \in Chiplets : \A k \in Nat : \A r \in DOMAIN up[s] :
              up[s][r].cmd = "send" /\ Holds(s, up[s][r].msg, d, k) =>
                \/ Holds(s, m, d, k) /\ d = m.des
                \/ \E q \in DOMAIN up'[s] :
                     up'[s][q].cmd = "send" /\ Holds(s, up'[s][q].msg, d, k)
         /\ UpAddressed' /\ UpOrdered'
  <1>1. /\ 1 \in DOMAIN up[i] /\ Head(up[i]) = up[i][1]
        /\ \A s \in Chiplets : \A q \in DOMAIN up'[s] :
             \E r \in DOMAIN up[s] : up'[s][q] = up[s][r] /\ (s = i => 1 < r)
        /\ \A s \in Chiplets : \A r \in DOMAIN up[s] :
             \/ s = i /\ r = 1
             \/ \E q \in DOMAIN up'[s] : up'[s][q] = up[s][r]
        /\ UpAddressed' /\ UpOrdered'
    BY UpPopped DEF Reads, Travel
  <1>2. m = up[i][1].msg /\ SendsTo(i, 1, m.des) /\ m.des \in Chiplets
    BY <1>1 DEF Reads, SendsTo
  <1>3. m.src = i /\ m.seq <= sent[i][m.des]
    BY <1>1, <1>2, SMTT(20) DEF Travel, UpAddressed, SendsTo
  <1>4. \A p \in DOMAIN routerBuf[m.des] : Before(routerBuf[m.des][p], m)
    BY <1>1, <1>2 DEF Travel, BufBeforeUp
  <1>5. \A p \in DOMAIN delivered[m.des] : Before(delivered[m.des][p], m)
    BY <1>1, <1>2 DEF Travel, DeliveredBeforeUp
  <1>6. ASSUME NEW s \in Chiplets, NEW q \in DOMAIN up'[s], SendsTo(s, q, m.des)'
        PROVE  Before(m, up'[s][q].msg)
    <2>1. PICK r \in DOMAIN up[s] : up'[s][q] = up[s][r] /\ (s = i => 1 < r)
      BY <1>1
    <2>2. SendsTo(s, r, m.des)
      BY <1>6, <2>1 DEF SendsTo
    <2>3. up[s][r].msg.src = s
      BY <2>2 DEF Travel, UpAddressed, SendsTo
    <2>4. CASE s = i
      BY <1>1, <1>2, <2>1, <2>2, <2>4 DEF Travel, UpOrdered, Before
    <2>5. CASE s # i
      BY <1>3, <2>1, <2>3, <2>5 DEF Before
    <2> QED
      BY <2>4, <2>5
  <1>7. ASSUME NEW s \in Chiplets, NEW d \in Chiplets, NEW k \in Nat, NEW r \in DOMAIN up[s],
               up[s][r].cmd = "send", Holds(s, up[s][r].msg, d, k)
        PROVE  \/ Holds(s, m, d, k) /\ d = m.des
               \/ \E q \in DOMAIN up'[s] :
                    up'[s][q].cmd = "send" /\ Holds(s, up'[s][q].msg, d, k)
    <2>1. CASE s = i /\ r = 1
      BY <1>2, <1>7, <2>1 DEF Holds
    <2>2. CASE \E q \in DOMAIN up'[s] : up'[s][q] = up[s][r]
      BY <1>7, <2>2
    <2> QED
      BY <1>1, <2>1, <2>2
  <1> QED
    BY <1>1, <1>2, <1>3, <1>4, <1>5, <1>6, <1>7, Zenon

\* The router queues a message.
LEMMA QueuesTravel ==
  ASSUME TypeOK, Travel, NEW i \in Chiplets, NEW m \in Message, Queues(i, m)
  PROVE  Travel'
  <1> DEFINE e == m.des
             last == Len(routerBuf[e]) + 1
  <1>1. Reads(i, m) /\ UNCHANGED <<delivered, sent, reading>> /\ reading[e] = 0
    BY DEF Queues
  <1>2. /\ m.src = i /\ e \in Chiplets /\ m.seq <= sent[i][e]
        /\ \A p \in DOMAIN routerBuf[e] : Before(routerBuf[e][p], m)
        /\ \A p \in DOMAIN delivered[e] : Before(delivered[e][p], m)
        /\ \A s \in Chiplets : \A q \in DOMAIN up'[s] :
             SendsTo(s, q, e)' => Before(m, up'[s][q].msg)
        /\ \A s \in Chiplets : \A q \in DOMAIN up'[s] :
             \E r \in DOMAIN up[s] : up'[s][q] = up[s][r]
        /\ UpAddressed' /\ UpOrdered'
    BY <1>1, ReadsFacts, Zenon
  <1>3. \A s, d \in Chiplets : \A k \in Nat : \A r \in DOMAIN up[s] :
          up[s][r].cmd = "send" /\ Holds(s, up[s][r].msg, d, k) =>
            \/ Holds(s, m, d, k) /\ d = e
            \/ \E q \in DOMAIN up'[s] : up'[s][q].cmd = "send" /\ Holds(s, up'[s][q].msg, d, k)
    BY <1>1, ReadsFacts, SMTT(20)
  <1>4. /\ \A d \in Chiplets : \A p \in DOMAIN routerBuf[d] :
             p \in DOMAIN routerBuf'[d] /\ routerBuf'[d][p] = routerBuf[d][p]
        /\ \A d \in Chiplets : \A p \in DOMAIN routerBuf'[d] :
             \/ p \in DOMAIN routerBuf[d] /\ routerBuf'[d][p] = routerBuf[d][p]
             \/ d = e /\ p = last /\ routerBuf'[d][p] = m
        /\ last \in DOMAIN routerBuf'[e] /\ routerBuf'[e][last] = m
        /\ \A p \in DOMAIN routerBuf[e] : p < last
    <2>1. routerBuf \in [Chiplets -> Seq(Message)] /\ routerBuf' = Pushed(routerBuf, e, m)
      BY ElementTypes DEF Queues
    <2> QED
      BY <1>2, <2>1, PushedElements
  <1> HIDE DEF e
  <1>5. \A d \in Chiplets : \A p, q \in DOMAIN routerBuf'[d] :
          p < q => p \in DOMAIN routerBuf[d] /\ routerBuf'[d][p] = routerBuf[d][p]
    <2>1. \A d \in Chiplets : \A p \in DOMAIN routerBuf[d] : p \in Nat
      BY ElementTypes
    <2>2. last \in Nat
      BY <1>2, ElementTypes
    <2> HIDE DEF last
    <2> QED
      BY <1>4, <2>1, <2>2
  <1> HIDE DEF last
  <1>6. BufAddressed'
    BY <1>1, <1>2, <1>4 DEF Travel, BufAddressed, e
  <1>7. BufOrdered'
    BY <1>2, <1>4, <1>5 DEF Travel, BufOrdered
  <1>8. BufBeforeUp'
    BY <1>2, <1>4 DEF Travel, BufBeforeUp, SendsTo
  <1>9. DeliveredBeforeUp'
    BY <1>1, <1>2 DEF Travel, DeliveredBeforeUp, SendsTo
  <1>10. DeliveredBeforeBuf'
    BY <1>1, <1>2, <1>4 DEF Travel, DeliveredBeforeBuf
  <1>11. DeliveredAddressed' /\ DeliveredOrdered'
    BY <1>1 DEF Travel, DeliveredAddressed, DeliveredOrdered
  <1>12. Suspended'
    <2>1. \A d \in Chiplets \ {e} : routerBuf'[d] = routerBuf[d]
      BY ElementTypes DEF Queues, Pushed, e
    <2> QED
      BY <1>1, <2>1 DEF Travel, Suspended
  <1>13. NothingLost'
    <2> SUFFICES ASSUME NEW s \in Chiplets, NEW d \in Chiplets, NEW k \in 1 .. sent[s][d]
                 PROVE  \/ \E p \in DOMAIN up'[s] :
                             up'[s][p].cmd = "send" /\ Holds(s, up'[s][p].msg, d, k)
                        \/ \E p \in DOMAIN routerBuf'[d] : Holds(s, routerBuf'[d][p], d, k)
                        \/ \E p \in DOMAIN delivered[d] : Holds(s, delivered[d][p], d, k)
      BY <1>1 DEF NothingLost
    <2>1. CASE \E p \in DOMAIN up[s] : up[s][p].cmd = "send" /\ Holds(s, up[s][p].msg, d, k)
      BY <1>3, <1>4, <2>1
    <2>2. CASE \E p \in DOMAIN routerBuf[d] : Holds(s, routerBuf[d][p], d, k)
      BY <1>4, <2>2
    <2> QED
      BY <2>1, <2>2 DEF Travel, NothingLost
  <1> QED
    BY <1>2, <1>6, <1>7, <1>8, <1>9, <1>10, <1>11, <1>12, <1>13 DEF Travel

\* The router passes a message to a chiplet whose "recv" is suspended;
\* nothing is queued for that chiplet then.
LEMMA PassesTravel ==
  ASSUME TypeOK, Travel, NEW i \in Chiplets, NEW m \in Message, Passes(i, m)
  PROVE  Travel'
  <1> DEFINE e == m.des
             last == Len(delivered[e]) + 1
  <1>1. Reads(i, m) /\ UNCHANGED <<routerBuf, sent>> /\ reading[e] # 0
    BY DEF Passes
  <1>2. /\ m.src = i /\ e \in Chiplets /\ m.seq <= sent[i][e]
        /\ \A p \in DOMAIN delivered[e] : Before(delivered[e][p], m)
        /\ \A s \in Chiplets : \A q \in DOMAIN up'[s] :
             SendsTo(s, q, e)' => Before(m, up'[s][q].msg)
        /\ \A s \in Chiplets : \A q \in DOMAIN up'[s] :
             \E r \in DOMAIN up[s] : up'[s][q] = up[s][r]
        /\ UpAddressed' /\ UpOrdered'
    BY <1>1, ReadsFacts, Zenon
  <1>3. \A s, d \in Chiplets : \A k \in Nat : \A r \in DOMAIN up[s] :
          up[s][r].cmd = "send" /\ Holds(s, up[s][r].msg, d, k) =>
            \/ Holds(s, m, d, k) /\ d = e
            \/ \E q \in DOMAIN up'[s] : up'[s][q].cmd = "send" /\ Holds(s, up'[s][q].msg, d, k)
    BY <1>1, ReadsFacts, SMTT(20)
  <1>4. /\ \A d \in Chiplets : \A p \in DOMAIN delivered[d] :
             p \in DOMAIN delivered'[d] /\ delivered'[d][p] = delivered[d][p]
        /\ \A d \in Chiplets : \A p \in DOMAIN delivered'[d] :
             \/ p \in DOMAIN delivered[d] /\ delivered'[d][p] = delivered[d][p]
             \/ d = e /\ p = last /\ delivered'[d][p] = m
        /\ last \in DOMAIN delivered'[e] /\ delivered'[e][last] = m
        /\ \A p \in DOMAIN delivered[e] : p < last
    <2>1. delivered \in [Chiplets -> Seq(Message)] /\ delivered' = Pushed(delivered, e, m)
      BY ElementTypes DEF Passes
    <2>2. e \in Chiplets
      BY <1>2
    <2> HIDE DEF e
    <2> QED
      BY <2>1, <2>2, PushedElements
  <1>5. routerBuf[e] = <<>>
    BY <1>1, <1>2 DEF Travel, Suspended
  <1> HIDE DEF e
  <1>6. \A d \in Chiplets : \A p, q \in DOMAIN delivered'[d] :
          p < q => p \in DOMAIN delivered[d] /\ delivered'[d][p] = delivered[d][p]
    <2>1. \A d \in Chiplets : \A p \in DOMAIN delivered[d] : p \in Nat
      BY ElementTypes
    <2>2. last \in Nat
      BY <1>2, ElementTypes
    <2> HIDE DEF last
    <2> QED
      BY <1>4, <2>1, <2>2
  <1> HIDE DEF last
  <1>7. DeliveredAddressed'
    BY <1>1, <1>2, <1>4 DEF Travel, DeliveredAddressed, e
  <1>8. DeliveredOrdered'
    BY <1>2, <1>4, <1>6 DEF Travel, DeliveredOrdered
  <1>9. DeliveredBeforeUp'
    BY <1>2, <1>4 DEF Travel, DeliveredBeforeUp, SendsTo
  <1>10. BufBeforeUp'
    BY <1>1, <1>2, SMTT(20) DEF Travel, BufBeforeUp, SendsTo
  <1>11. DeliveredBeforeBuf'
    BY <1>1, <1>2, <1>4, <1>5, SMTT(20) DEF Travel, DeliveredBeforeBuf
  <1>12. BufAddressed' /\ BufOrdered'
    BY <1>1 DEF Travel, BufAddressed, BufOrdered
  <1>13. Suspended'
    <2>1. \A d \in Chiplets \ {e} : reading'[d] = reading[d]
      <3>1. reading \in [Chiplets -> Nat]
        BY ElementTypes
      <3> QED
        BY <3>1 DEF Passes, e
    <2> QED
      BY <1>1, <1>5, <2>1 DEF Travel, Suspended
  <1>14. NothingLost'
    <2> SUFFICES ASSUME NEW s \in Chiplets, NEW d \in Chiplets, NEW k \in 1 .. sent[s][d]
                 PROVE  \/ \E p \in DOMAIN up'[s] :
                             up'[s][p].cmd = "send" /\ Holds(s, up'[s][p].msg, d, k)
                        \/ \E p \in DOMAIN routerBuf[d] : Holds(s, routerBuf[d][p], d, k)
                        \/ \E p \in DOMAIN delivered'[d] : Holds(s, delivered'[d][p], d, k)
      BY <1>1 DEF NothingLost
    <2>1. CASE \E p \in DOMAIN up[s] : up[s][p].cmd = "send" /\ Holds(s, up[s][p].msg, d, k)
      BY <1>3, <1>4, <2>1
    <2>2. CASE \E p \in DOMAIN delivered[d] : Holds(s, delivered[d][p], d, k)
      BY <1>4, <2>2
    <2> QED
      BY <2>1, <2>2 DEF Travel, NothingLost
  <1> QED
    BY <1>2, <1>7, <1>8, <1>9, <1>10, <1>11, <1>12, <1>13, <1>14 DEF Travel

\* The router answers a "recv" of chiplet i from its queue.
LEMMA ServesTravel ==
  ASSUME TypeOK, Travel, NEW i \in Chiplets, Serves(i)
  PROVE  Travel'
  <1> DEFINE m == Head(routerBuf[i])
             last == Len(delivered[i]) + 1
  <1>1. up[i] # <<>> /\ up' = Popped(up, i) /\ UNCHANGED <<sent, reading>>
    BY DEF Serves
  <1>2. /\ 1 \in DOMAIN up[i] /\ Head(up[i]) = up[i][1]
        /\ \A s \in Chiplets : \A q \in DOMAIN up'[s] :
             \E r \in DOMAIN up[s] : up'[s][q] = up[s][r] /\ (s = i => 1 < r)
        /\ \A s \in Chiplets : \A r \in DOMAIN up[s] :
             \/ s = i /\ r = 1
             \/ \E q \in DOMAIN up'[s] : up'[s][q] = up[s][r]
        /\ UpAddressed' /\ UpOrdered'
    BY <1>1, UpPopped DEF Travel
  <1>3. /\ \A d \in Chiplets \ {i} : routerBuf'[d] = routerBuf[d]
        /\ \A p \in DOMAIN routerBuf'[i] :
             /\ p + 1 \in DOMAIN routerBuf[i] /\ p \in Nat /\ 1 < p + 1
             /\ routerBuf'[i][p] = routerBuf[i][p + 1]
        /\ \A p \in DOMAIN routerBuf[i] :
             p = 1 \/ (p - 1 \in DOMAIN routerBuf'[i] /\ routerBuf'[i][p - 1] = routerBuf[i][p])
        /\ 1 \in DOMAIN routerBuf[i] /\ m = routerBuf[i][1] /\ m \in Message
    <2>1. /\ routerBuf \in [Chiplets -> Seq(Message)] /\ routerBuf[i] # <<>>
          /\ routerBuf' = Popped(routerBuf, i)
      BY ElementTypes DEF Serves
    <2> QED
      BY <2>1, PoppedElements
  <1>4. /\ \A d \in Chiplets : \A p \in DOMAIN delivered[d] :
             p \in DOMAIN delivered'[d] /\ delivered'[d][p] = delivered[d][p]
        /\ \A d \in Chiplets : \A p \in DOMAIN delivered'[d] :
             \/ p \in DOMAIN delivered[d] /\ delivered'[d][p] = delivered[d][p]
             \/ d = i /\ p = last /\ delivered'[d][p] = m
        /\ last \in DOMAIN delivered'[i] /\ delivered'[i][last] = m
        /\ \A p \in DOMAIN delivered[i] : p < last
    <2>1. delivered \in [Chiplets -> Seq(Message)] /\ delivered' = Pushed(delivered, i, m)
      BY ElementTypes DEF Serves
    <2> QED
      BY <1>3, <2>1, PushedElements
  <1> HIDE DEF m
  <1>5. \A d \in Chiplets : \A p, q \in DOMAIN delivered'[d] :
          p < q => p \in DOMAIN delivered[d] /\ delivered'[d][p] = delivered[d][p]
    <2>1. \A d \in Chiplets : \A p \in DOMAIN delivered[d] : p \in Nat
      BY ElementTypes
    <2>2. last \in Nat
      BY ElementTypes
    <2> HIDE DEF last
    <2> QED
      BY <1>4, <2>1, <2>2
  <1> HIDE DEF last
  <1>6. \A d \in Chiplets : \A q \in DOMAIN routerBuf'[d] :
          \E r \in DOMAIN routerBuf[d] : routerBuf'[d][q] = routerBuf[d][r] /\ (d = i => 1 < r)
    BY <1>3
  <1>7. BufAddressed' /\ DeliveredAddressed'
    BY <1>1, <1>3, <1>4, <1>6 DEF Travel, BufAddressed, DeliveredAddressed
  <1>8. BufOrdered'
    <2> SUFFICES ASSUME NEW d \in Chiplets, NEW p \in DOMAIN routerBuf'[d],
                        NEW q \in DOMAIN routerBuf'[d], p < q
                 PROVE  Before(routerBuf'[d][p], routerBuf'[d][q])
      BY DEF BufOrdered
    <2>1. CASE d = i
      BY <1>3, <2>1 DEF Travel, BufOrdered
    <2>2. CASE d # i
      BY <1>3, <2>2 DEF Travel, BufOrdered
    <2> QED
      BY <2>1, <2>2
  <1>9. DeliveredOrdered'
    <2> SUFFICES ASSUME NEW d \in Chiplets, NEW p \in DOMAIN delivered'[d],
                        NEW q \in DOMAIN delivered'[d], p < q
                 PROVE  Before(delivered'[d][p], delivered'[d][q])
      BY DEF DeliveredOrdered
    <2>1. p \in DOMAIN delivered[d] /\ delivered'[d][p] = delivered[d][p]
      BY <1>5
    <2>2. CASE q \in DOMAIN delivered[d] /\ delivered'[d][q] = delivered[d][q]
      BY <2>1, <2>2 DEF Travel, DeliveredOrdered
    <2>3. CASE d = i /\ delivered'[d][q] = m
      <3>1. m = routerBuf[i][1] /\ 1 \in DOMAIN routerBuf[i]
        BY <1>3, Zenon
      <3> QED
        BY <2>1, <2>3, <3>1 DEF Travel, DeliveredBeforeBuf
    <2> QED
      BY <1>4, <2>2, <2>3
  <1>10. BufBeforeUp'
    BY <1>2, <1>6, SMTT(20) DEF Travel, BufBeforeUp, SendsTo
  <1>11. DeliveredBeforeUp'
    <2> SUFFICES ASSUME NEW s \in Chiplets, NEW d \in Chiplets,
                        NEW p \in DOMAIN delivered'[d], NEW q \in DOMAIN up'[s], SendsTo(s, q, d)'
                 PROVE  Before(delivered'[d][p], up'[s][q].msg)
      BY DEF DeliveredBeforeUp
    <2>1. PICK r \in DOMAIN up[s] : up'[s][q] = up[s][r]
      BY <1>2
    <2>2. SendsTo(s, r, d)
      BY <2>1 DEF SendsTo
    <2>3. CASE p \in DOMAIN delivered[d] /\ delivered'[d][p] = delivered[d][p]
      BY <2>1, <2>2, <2>3 DEF Travel, DeliveredBeforeUp
    <2>4. CASE d = i /\ delivered'[d][p] = m
      <3>1. m = routerBuf[i][1] /\ 1 \in DOMAIN routerBuf[i]
        BY <1>3, Zenon
      <3> QED
        BY <2>1, <2>2, <2>4, <3>1 DEF Travel, BufBeforeUp
    <2> QED
      BY <1>4, <2>3, <2>4
  <1>12. DeliveredBeforeBuf'
    <2> SUFFICES ASSUME NEW d \in Chiplets, NEW p \in DOMAIN delivered'[d],
                        NEW q \in DOMAIN routerBuf'[d]
                 PROVE  Before(delivered'[d][p], routerBuf'[d][q])
      BY DEF DeliveredBeforeBuf
    <2>1. PICK r \in DOMAIN routerBuf[d] : routerBuf'[d][q] = routerBuf[d][r] /\ (d = i => 1 < r)
      BY <1>6
    <2>2. CASE p \in DOMAIN delivered[d] /\ delivered'[d][p] = delivered[d][p]
      BY <2>1, <2>2 DEF Travel, DeliveredBeforeBuf
    <2>3. CASE d = i /\ delivered'[d][p] = m
      <3>1. m = routerBuf[i][1] /\ 1 \in DOMAIN routerBuf[i]
        BY <1>3, Zenon
      <3> QED
        BY <2>1, <2>3, <3>1 DEF Travel, BufOrdered
    <2> QED
      BY <1>4, <2>2, <2>3
  <1>13. Suspended'
    <2>1. routerBuf[i] # <<>>
      BY DEF Serves
    <2> QED
      BY <1>1, <1>3, <2>1 DEF Travel, Suspended
  <1>14. NothingLost'
    <2> SUFFICES ASSUME NEW s \in Chiplets, NEW d \in Chiplets, NEW k \in 1 .. sent[s][d]
                 PROVE  \/ \E p \in DOMAIN up'[s] :
                             up'[s][p].cmd = "send" /\ Holds(s, up'[s][p].msg, d, k)
                        \/ \E p \in DOMAIN routerBuf'[d] : Holds(s, routerBuf'[d][p], d, k)
                        \/ \E p \in DOMAIN delivered'[d] : Holds(s, delivered'[d][p], d, k)
      BY <1>1 DEF NothingLost
    <2>1. CASE \E p \in DOMAIN up[s] : up[s][p].cmd = "send" /\ Holds(s, up[s][p].msg, d, k)
      <3>1. up[i][1].cmd # "send"
        BY <1>2 DEF Serves
      <3> QED
        BY <1>2, <2>1, <3>1, SMTT(20)
    <2>2. CASE \E p \in DOMAIN routerBuf[d] : Holds(s, routerBuf[d][p], d, k)
      <3>1. PICK p \in DOMAIN routerBuf[d] : Holds(s, routerBuf[d][p], d, k)
        BY <2>2
      <3>2. CASE d = i /\ p = 1
        BY <1>3, <1>4, <3>1, <3>2, SMTT(20)
      <3>3. CASE d = i /\ p # 1
        BY <1>3, <3>1, <3>3
      <3>4. CASE d # i
        BY <1>3, <3>1, <3>4
      <3> QED
        BY <3>2, <3>3, <3>4
    <2>3. CASE \E p \in DOMAIN delivered[d] : Holds(s, delivered[d][p], d, k)
      BY <1>4, <2>3
    <2> QED
      BY <2>1, <2>2, <2>3, Zenon DEF Travel, NothingLost
  <1> QED
    BY <1>2, <1>7, <1>8, <1>9, <1>10, <1>11, <1>12, <1>13, <1>14 DEF Travel

-----------------------------------------------------------------------------
LEMMA TravelInvariant == Spec => []Travel
  <1>1. Init => Travel
    <2> SUFFICES ASSUME Init PROVE Travel
      OBVIOUS
    <2>1. \A i \in Chiplets : /\ up[i] = <<>> /\ routerBuf[i] = <<>> /\ delivered[i] = <<>>
                              /\ reading[i] = 0
      BY DEF Init
    <2>2. UpAddressed /\ BufAddressed /\ DeliveredAddressed /\ Suspended
      BY <2>1 DEF UpAddressed, BufAddressed, DeliveredAddressed, Suspended
    <2>3. UpOrdered /\ BufOrdered /\ DeliveredOrdered
      BY <2>1 DEF UpOrdered, BufOrdered, DeliveredOrdered
    <2>4. BufBeforeUp /\ DeliveredBeforeUp /\ DeliveredBeforeBuf
      BY <2>1 DEF BufBeforeUp, DeliveredBeforeUp, DeliveredBeforeBuf
    <2>5. NothingLost
      BY SubnetAssumption DEF Init, NothingLost, Chiplets, Dests
    <2> QED
      BY <2>2, <2>3, <2>4, <2>5 DEF Travel
  <1>2. TypeOK /\ Barrier /\ Travel /\ [Next]_vars => Travel'
    <2> SUFFICES ASSUME TypeOK, Barrier, Travel, [Next]_vars PROVE Travel'
      OBVIOUS
    <2>1. CASE Quiet
      <3>1. UpAddressed' /\ BufAddressed' /\ DeliveredAddressed' /\ Suspended'
        BY <2>1 DEF Quiet, Travel, UpAddressed, BufAddressed, DeliveredAddressed, Suspended
      <3>4. NothingLost'
        BY <2>1 DEF Quiet, Travel, NothingLost
      <3>2. UpOrdered' /\ BufOrdered' /\ DeliveredOrdered'
        BY <2>1 DEF Quiet, Travel, UpOrdered, BufOrdered, DeliveredOrdered, SendsTo
      <3>3. BufBeforeUp' /\ DeliveredBeforeUp' /\ DeliveredBeforeBuf'
        BY <2>1 DEF Quiet, Travel, BufBeforeUp, DeliveredBeforeUp, DeliveredBeforeBuf, SendsTo
      <3> QED
        BY <3>1, <3>2, <3>3, <3>4, Zenon DEF Travel
    <2> QED
      BY <2>1, StepKinds, SaysTravel, HearsTravel, ServesTravel, QueuesTravel, PassesTravel,
         SendTravel
  <1> QED
    BY <1>1, <1>2, TypeCorrect, BarrierInvariant, PTL DEF Spec

\* No message to an existing chiplet is lost between the sender's socket, the
\* queue of run() and the receiver.
THEOREM NoMessageLost == Spec => []NothingLost
  BY TravelInvariant, PTL DEF Travel

\* run() delivers the messages of one chiplet to another in the order they
\* were sent, each exactly once and none skipped, although some wait in
\* routerBuf and others bypass it.
THEOREM DeliveryInOrder == Spec => []InOrder
  <1>1. TypeOK /\ Travel => InOrder
    <2> SUFFICES ASSUME TypeOK, Travel, NEW d \in Chiplets, NEW q \in DOMAIN delivered[d]
                 PROVE  /\ delivered[d][q].des = d
                        /\ \A p \in 1 .. q - 1 :
                             delivered[d][p].src = delivered[d][q].src =>
                               delivered[d][p].seq < delivered[d][q].seq
                        /\ \A k \in 1 .. delivered[d][q].seq - 1 :
                             \E p \in 1 .. q - 1 : /\ delivered[d][p].src = delivered[d][q].src
                                                   /\ delivered[d][p].seq = k
      BY DEF InOrder
    <2>1. \A p \in 1 .. q - 1 : p \in DOMAIN delivered[d] /\ p < q
      BY ElementTypes
    <2>2. \A p \in DOMAIN delivered[d] : p < q => p \in 1 .. q - 1
      BY ElementTypes
    <2>3. ASSUME NEW k \in 1 .. delivered[d][q].seq - 1
          PROVE  \E p \in 1 .. q - 1 : /\ delivered[d][p].src = delivered[d][q].src
                                       /\ delivered[d][p].seq = k
      <3> DEFINE s == delivered[d][q].src
      <3>1. /\ s \in Chiplets /\ delivered[d][q].seq \in Nat
            /\ delivered[d][q].seq <= sent[s][d] /\ sent[s][d] \in Nat
        <4>1. d \in Dests
          BY SubnetAssumption DEF Chiplets, Dests
        <4>2. delivered[d][q] \in Message /\ s \in Chiplets /\ delivered[d][q].seq \in Nat
          BY ElementTypes
        <4>3. sent[s][d] \in Nat
          BY <4>1, <4>2, ElementTypes
        <4> QED
          BY <4>2, <4>3 DEF Travel, DeliveredAddressed
      <3>2. k \in 1 .. sent[s][d] /\ k < delivered[d][q].seq
        BY <3>1, SMTT(20)
      <3> HIDE DEF s
      <3>3. ~ \E p \in DOMAIN up[s] : up[s][p].cmd = "send" /\ Holds(s, up[s][p].msg, d, k)
        <4> SUFFICES ASSUME NEW p \in DOMAIN up[s], up[s][p].cmd = "send",
                            Holds(s, up[s][p].msg, d, k)
                     PROVE  FALSE
          OBVIOUS
        <4>1. Before(delivered[d][q], up[s][p].msg)
          BY <3>1 DEF Travel, DeliveredBeforeUp, SendsTo, Holds
        <4> QED
          BY <3>1, <3>2, <4>1 DEF Before, Holds, s
      <3>4. ~ \E p \in DOMAIN routerBuf[d] : Holds(s, routerBuf[d][p], d, k)
        <4> SUFFICES ASSUME NEW p \in DOMAIN routerBuf[d], Holds(s, routerBuf[d][p], d, k)
                     PROVE  FALSE
          OBVIOUS
        <4>1. Before(delivered[d][q], routerBuf[d][p])
          BY DEF Travel, DeliveredBeforeBuf
        <4> QED
          BY <3>1, <3>2, <4>1 DEF Before, Holds, s
      <3>5. PICK p \in DOMAIN delivered[d] : Holds(s, delivered[d][p], d, k)
        BY <3>1, <3>2, <3>3, <3>4 DEF Travel, NothingLost
      <3>6. p < q
        <4>1. p \in Nat /\ q \in Nat
          BY ElementTypes
        <4>2. ~ q < p
          BY <3>1, <3>2, <3>5 DEF Travel, DeliveredOrdered, Before, Holds, s
        <4>3. p # q
          BY <3>2, <3>5, <3>1 DEF Holds
        <4> QED
          BY <4>1, <4>2, <4>3
      <3> QED
        BY <2>2, <3>5, <3>6 DEF Holds, s
    <2> QED
      BY <2>1, <2>3 DEF Travel, DeliveredAddressed, DeliveredOrdered, Before
  <1> QED
    BY <1>1, TypeCorrect, TravelInvariant, PTL

=============================================================================
