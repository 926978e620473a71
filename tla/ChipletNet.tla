----------------------------- MODULE ChipletNet -----------------------------
(***************************************************************************)
(* Several simulated chiplets exchanging messages: the threads of each     *)
(* benchmark inside the SIFT recorder                                      *)
(* (sniper/sift/recorder/syscall_modeling.cc), the zmq_pro process beside  *)
(* each recorder (sniper/changes/zmq_pro.cpp), and the router.             *)
(*                                                                         *)
(*   thread --syscall--> recorder --TCP line--> zmq_pro --ZMQ--> router    *)
(*   thread <----------- recorder <--stdout---- zmq_pro <--ZMQ-- router    *)
(*                                                                         *)
(* A message's body is its <<source port, destination port>>.              *)
(***************************************************************************)
EXTENDS Interchiplet, MessageRecord, SequencesExt

CONSTANTS
  Threads,   \* the benchmark threads of all chiplets
  Home,      \* Home[t]: the chiplet thread t runs on
  Programs   \* the programs considered: each gives every thread its calls

ASSUME HomeAssumption == Home \in [Threads -> Chiplets]

Call ==
  [op : {"connect"}, port : Ports, addr : Dests, rport : Ports]
  \cup [op : {"disconnect", "read", "write"}, port : Ports]

ASSUME ProgramsAssumption == Programs \subseteq [Threads -> Seq(Call)]

VARIABLES
  tcp,           \* tcp[c]: lines sent by the recorder, not yet received
  lines,         \* lines[c]: the queue nsSniperConn::lines of zmq_pro
  bridge,        \* bridge[c]: where main() of zmq_pro is
  pipe,          \* pipe[c]: its stdout, read by the recorder with fscanf
  proc,          \* proc[c]: the recorder process of chiplet c
  mutex,         \* mutex[c]: the thread that holds socketMutex, or None
  bufMap,        \* bufMap[c][p]: the SConnection of an open port, or None
  notClassified, \* notClassifiedMsg
  pc, call, cnt, \* per thread: place, current system call, cnt of readMsgUntil
  moved,         \* per thread: the message the call read or wrote, or None
  program,       \* per thread: the calls still to be made
  returned,      \* returned[c]: history, messages readMsg has returned
  dropped        \* dropped[c]: history, messages lost by disconnectInter

bridgeVars == <<tcp, lines, bridge, pipe>>
threadVars == <<proc, mutex, bufMap, notClassified, pc, call, cnt, moved, program,
                returned, dropped>>
netVars == <<vars, bridgeVars, threadVars, recordVars>>

NetInit ==
  /\ Init
  /\ RecordInit(Chiplets)
  /\ tcp = [c \in Chiplets |-> <<>>]
  /\ lines = [c \in Chiplets |-> <<>>]
  /\ bridge = [c \in Chiplets |-> "connect"]
  /\ pipe = [c \in Chiplets |-> <<>>]
  /\ proc = [c \in Chiplets |-> "up"]
  /\ mutex = [c \in Chiplets |-> None]
  /\ bufMap = [c \in Chiplets |-> [p \in Ports |-> None]]
  /\ notClassified = [c \in Chiplets |-> <<>>]
  /\ pc = [t \in Threads |-> "run"]
  /\ call = [t \in Threads |-> None]
  /\ cnt = [t \in Threads |-> 0]
  /\ moved = [t \in Threads |-> None]
  /\ program \in Programs
  /\ returned = [c \in Chiplets |-> <<>>]
  /\ dropped = [c \in Chiplets |-> {}]

-----------------------------------------------------------------------------
(* zmq_pro                                                                 *)

RecvLine == [cmd |-> "recv"]
SendLineOf(d, b) == [cmd |-> "send", des |-> d, body |-> b]
SendRet == [tok |-> "send_ret"]
DataOf(m) == [tok |-> "data", msg |-> m]

\* main() up to its loop: connectZmq, then the port for the recorder, whose
\* openZmqProcess returns only after that.
BridgeConnect(c) ==
  /\ \/ ConnectZmq(c) /\ UNCHANGED bridge
     \/ StartZmq(c) /\ bridge' = [bridge EXCEPT ![c] = "line"]
  /\ UNCHANGED <<tcp, lines, pipe, threadVars, recordVars>>

\* receiveLine: everything one recv() call returns is split into lines; it
\* gives up if lines is not empty (it returns 0) or the recorder is gone.
BridgeReceive(c) ==
  /\ bridge[c] = "line"
  /\ IF lines[c] # <<>>
     THEN bridge' = [bridge EXCEPT ![c] = "leave"] /\ UNCHANGED <<tcp, lines>>
     ELSE \/ /\ tcp[c] = <<>> /\ proc[c] # "up"
             /\ bridge' = [bridge EXCEPT ![c] = "leave"]
             /\ UNCHANGED <<tcp, lines>>
          \/ \E k \in 1 .. Len(tcp[c]) :
             /\ lines' = [lines EXCEPT ![c] = SubSeq(tcp[c], 1, k)]
             /\ tcp' = [tcp EXCEPT ![c] = SubSeq(@, k + 1, Len(@))]
             /\ bridge' = [bridge EXCEPT ![c] = "exec"]
  /\ UNCHANGED <<vars, pipe, threadVars, recordVars>>

\* Mutant: the line is written to the router twice.
BridgeSendTwice(c) ==
  /\ bridge[c] = "exec"
  /\ Head(lines[c]).cmd = "send"
  /\ LET m == NextMessage(c, Head(lines[c]).des, Head(lines[c]).body)
     IN  up' = [up EXCEPT ![c] = @ \o <<SendOf(m), SendOf(m)>>]
  /\ sent' = [sent EXCEPT ![c][Head(lines[c]).des] = @ + 1]
  /\ bridge' = [bridge EXCEPT ![c] = "ret"]
  /\ UNCHANGED <<routerVars, down, client, tcp, lines, pipe, threadVars, recordVars>>

\* A "send" line: writeMsg, and after a millisecond of sleep the answer.
BridgeSend(c) ==
  /\ bridge[c] = "exec"
  /\ Head(lines[c]).cmd = "send"
  /\ SumFunction(sent[c]) < MaxSend
  /\ ClientSend(c, Head(lines[c]).des, Head(lines[c]).body)
  /\ bridge' = [bridge EXCEPT ![c] = "ret"]
  /\ UNCHANGED <<tcp, lines, pipe, threadVars, recordVars>>

BridgeRet(c) ==
  /\ bridge[c] = "ret"
  /\ pipe' = [pipe EXCEPT ![c] = Append(@, SendRet)]
  /\ lines' = [lines EXCEPT ![c] = Tail(@)]
  /\ bridge' = [bridge EXCEPT ![c] = "line"]
  /\ UNCHANGED <<vars, tcp, threadVars, recordVars>>

\* A "recv" line: writeMsg, then the blocking readMsg.
BridgeRecv(c) ==
  /\ bridge[c] = "exec"
  /\ Head(lines[c]).cmd = "recv"
  /\ ClientRecv(c)
  /\ bridge' = [bridge EXCEPT ![c] = "await"]
  /\ UNCHANGED <<tcp, lines, pipe, threadVars, recordVars>>

\* Mutant: the router's reply is printed as it came.
BridgeReplyRaw(c) ==
  /\ bridge[c] = "await"
  /\ ClientRead(c)
  /\ pipe' = [pipe EXCEPT ![c] = Append(@, Head(down[c]))]
  /\ lines' = [lines EXCEPT ![c] = Tail(@)]
  /\ bridge' = [bridge EXCEPT ![c] = "line"]
  /\ UNCHANGED <<tcp, threadVars, recordVars>>

BridgeReply(c) ==
  /\ bridge[c] = "await"
  /\ ClientRead(c)
  /\ IF Head(down[c]).cmd = "exit"
     THEN bridge' = [bridge EXCEPT ![c] = "leave"] /\ UNCHANGED <<lines, pipe>>
     ELSE /\ pipe' = [pipe EXCEPT ![c] = Append(@, DataOf(Head(down[c]).msg))]
          /\ lines' = [lines EXCEPT ![c] = Tail(@)]
          /\ bridge' = [bridge EXCEPT ![c] = "line"]
  /\ UNCHANGED <<tcp, threadVars, recordVars>>

\* disconnect() and closeZmq() at the end of main().
BridgeLeave(c) ==
  /\ bridge[c] = "leave"
  /\ CloseZmq(c)
  /\ bridge' = [bridge EXCEPT ![c] = "done"]
  /\ tcp' = [tcp EXCEPT ![c] = <<>>]
  /\ UNCHANGED <<lines, pipe, threadVars, recordVars>>

Bridge(c) ==
  BridgeConnect(c) \/ BridgeReceive(c) \/ BridgeSend(c) \/ BridgeRet(c)
  \/ BridgeRecv(c) \/ BridgeReply(c) \/ BridgeLeave(c)

-----------------------------------------------------------------------------
(* The recorder: emulateSyscallFunc for the inter-chiplet calls.           *)

Mates(c) == {t \in Threads : Home[t] = c}

\* sendLine: a zmq_pro that has closed the connection receives nothing.
SendLine(c, l) == tcp' = IF bridge[c] = "done" THEN tcp ELSE [tcp EXCEPT ![c] = Append(@, l)]

isCorrectMsg(c, p, m) ==
  /\ bufMap[c][p] # None
  /\ m.des = c /\ m.body = <<bufMap[c][p].port, p>> /\ m.src = bufMap[c][p].addr

\* The program enters a system call and goes for socketMutex.
EnterCall(t) ==
  /\ pc[t] = "run"
  /\ bridge[Home[t]] # "connect"
  /\ program[t] # <<>>
  /\ call' = [call EXCEPT ![t] = Head(program[t])]
  /\ program' = [program EXCEPT ![t] = Tail(@)]
  /\ pc' = [pc EXCEPT ![t] = "lock"]
  /\ UNCHANGED <<vars, bridgeVars, recordVars, proc, mutex, bufMap, notClassified,
                 cnt, moved, returned, dropped>>

\* Mutant: socketMutex is not taken.
LocksNothing(t, op) == pc[t] = "lock" /\ call[t].op = op

Locks(t, op) == pc[t] = "lock" /\ call[t].op = op /\ mutex[Home[t]] = None

\* Mutant: messages that came early stay where they are.
ConnectInterNoMove(t) ==
  LET c == Home[t]
      k == call[t]
  IN
  /\ Locks(t, "connect")
  /\ bufMap' = IF bufMap[c][k.port] # None THEN bufMap
               ELSE [bufMap EXCEPT ![c][k.port] =
                       [addr |-> k.addr, port |-> k.rport, msgs |-> <<>>]]
  /\ pc' = [pc EXCEPT ![t] = "report"]
  /\ UNCHANGED <<vars, bridgeVars, recordVars, proc, mutex, notClassified, call, cnt,
                 moved, program, returned, dropped>>

\* connectInter: refused if the port is taken; otherwise messages that came
\* before the port was opened are moved to it, in their order.
ConnectInter(t) ==
  LET c == Home[t]
      k == call[t]
      mine(m) == m.des = c /\ m.body = <<k.rport, k.port>> /\ m.src = k.addr
  IN
  /\ Locks(t, "connect")
  /\ IF bufMap[c][k.port] # None THEN UNCHANGED <<bufMap, notClassified>>
     ELSE /\ bufMap' = [bufMap EXCEPT ![c][k.port] =
                 [addr |-> k.addr, port |-> k.rport, msgs |-> SelectSeq(notClassified[c], mine)]]
          /\ notClassified' = [notClassified EXCEPT ![c] = SelectSeq(@, LAMBDA m : ~mine(m))]
  /\ pc' = [pc EXCEPT ![t] = "report"]
  /\ UNCHANGED <<vars, bridgeVars, recordVars, proc, mutex, call, cnt, moved, program,
                 returned, dropped>>

\* disconnectInter: the connection goes, with the messages it holds.
DisconnectInter(t) ==
  LET c == Home[t]
      p == call[t].port
  IN
  /\ Locks(t, "disconnect")
  /\ bufMap' = [bufMap EXCEPT ![c][p] = None]
  /\ dropped' = IF bufMap[c][p] = None THEN dropped
                ELSE [dropped EXCEPT ![c] = @ \cup ToSet(bufMap[c][p].msgs)]
  /\ pc' = [pc EXCEPT ![t] = "report"]
  /\ UNCHANGED <<vars, bridgeVars, recordVars, proc, mutex, notClassified, call, cnt,
                 moved, program, returned>>

\* Mutant: the message that was filed last is returned.
ReturnBack(t, c, p, buf) ==
  /\ buf[p].msgs # <<>>
  /\ bufMap' = [bufMap EXCEPT ![c] = [buf EXCEPT ![p].msgs = Front(@)]]
  /\ moved' = [moved EXCEPT ![t] = Last(buf[p].msgs)]
  /\ returned' = [returned EXCEPT ![c] = Append(@, Last(buf[p].msgs))]
  /\ pc' = [pc EXCEPT ![t] = "report"]
  /\ UNCHANGED proc

\* The end of readMsg, with buf for the buffers of chiplet c: the front
\* message of port p is returned.  front() and pop_front() of an empty list
\* are undefined; freeing the list's sentinel ends the process.
ReturnFront(t, c, p, buf) ==
  IF buf[p].msgs = <<>>
  THEN /\ proc' = [proc EXCEPT ![c] = "crashed"]
       /\ pc' = [u \in Threads |-> IF u \in Mates(c) THEN "dead" ELSE pc[u]]
       /\ bufMap' = [bufMap EXCEPT ![c] = buf]
       /\ UNCHANGED <<moved, returned>>
  ELSE /\ bufMap' = [bufMap EXCEPT ![c] = [buf EXCEPT ![p].msgs = Tail(@)]]
       /\ moved' = [moved EXCEPT ![t] = Head(buf[p].msgs)]
       /\ returned' = [returned EXCEPT ![c] = Append(@, Head(buf[p].msgs))]
       /\ pc' = [pc EXCEPT ![t] = "report"]
       /\ UNCHANGED proc

\* readMsg that needs nothing from the network: the port is not open (-1),
\* or it already has a message.
ReadLocal(t) ==
  LET c == Home[t]
      p == call[t].port
  IN
  /\ Locks(t, "read")
  /\ \/ /\ bufMap[c][p] = None
        /\ pc' = [pc EXCEPT ![t] = "report"]
        /\ UNCHANGED <<proc, bufMap, moved, returned>>
     \/ /\ bufMap[c][p] # None /\ bufMap[c][p].msgs # <<>>
        /\ ReturnFront(t, c, p, bufMap[c])
  /\ UNCHANGED <<vars, bridgeVars, recordVars, mutex, notClassified, call, cnt, program, dropped>>

\* readMsg on an empty port: readMsgUntil asks for a message and waits,
\* holding socketMutex.
ReadRemote(t) ==
  LET c == Home[t] IN
  /\ Locks(t, "read")
  /\ bufMap[c][call[t].port] # None
  /\ bufMap[c][call[t].port].msgs = <<>>
  /\ SendLine(c, RecvLine)
  /\ mutex' = [mutex EXCEPT ![c] = t]
  /\ pc' = [pc EXCEPT ![t] = "await"]
  /\ UNCHANGED <<vars, lines, bridge, pipe, recordVars, proc, bufMap, notClassified,
                 call, cnt, moved, program, returned, dropped>>

\* Mutants of that loop: it stops at the first message; it forgets to ask
\* again; a message that fits no open port is thrown away.
ReadReplyAs(t, stop, again, keep) ==
  LET c == Home[t]
      p == call[t].port
      m == Head(pipe[c]).msg
      q == m.body[2]
      fits == isCorrectMsg(c, q, m)
      buf == IF fits THEN [bufMap[c] EXCEPT ![q].msgs = Append(@, m)] ELSE bufMap[c]
  IN
  /\ pc[t] = "await"
  /\ pipe[c] # <<>> /\ Head(pipe[c]).tok = "data"
  /\ pipe' = [pipe EXCEPT ![c] = Tail(@)]
  /\ notClassified' = IF fits \/ ~keep THEN notClassified
                      ELSE [notClassified EXCEPT ![c] = Append(@, m)]
  /\ IF q = p \/ stop
     THEN /\ ReturnFront(t, c, p, buf)
          /\ mutex' = [mutex EXCEPT ![c] = None]
          /\ cnt' = [cnt EXCEPT ![t] = 0]
          /\ UNCHANGED tcp
     ELSE /\ IF again THEN SendLine(c, RecvLine) ELSE UNCHANGED tcp
          /\ bufMap' = [bufMap EXCEPT ![c] = buf]
          /\ cnt' = [cnt EXCEPT ![t] = @ + 1]
          /\ UNCHANGED <<proc, mutex, pc, moved, returned>>
  /\ UNCHANGED <<vars, lines, bridge, recordVars, call, program, dropped>>

ReadReplyFirst(t) == ReadReplyAs(t, TRUE, TRUE, TRUE)
ReadReplyOnce(t) == ReadReplyAs(t, FALSE, FALSE, TRUE)
ReadReplyDiscard(t) == ReadReplyAs(t, FALSE, TRUE, FALSE)

\* The loop of readMsgUntil: file the message under its port; stop if it was
\* for the port being read, else ask for the next one.
ReadReply(t) ==
  LET c == Home[t]
      p == call[t].port
      m == Head(pipe[c]).msg
      q == m.body[2]
      fits == isCorrectMsg(c, q, m)
      buf == IF fits THEN [bufMap[c] EXCEPT ![q].msgs = Append(@, m)] ELSE bufMap[c]
  IN
  /\ pc[t] = "await"
  /\ pipe[c] # <<>> /\ Head(pipe[c]).tok = "data"
  /\ pipe' = [pipe EXCEPT ![c] = Tail(@)]
  /\ IF m.des # c
     THEN UNCHANGED <<tcp, proc, mutex, bufMap, notClassified, pc, cnt, moved, returned>>
     ELSE /\ notClassified' = IF fits THEN notClassified
                              ELSE [notClassified EXCEPT ![c] = Append(@, m)]
          /\ IF q = p
             THEN /\ ReturnFront(t, c, p, buf)
                  /\ mutex' = [mutex EXCEPT ![c] = None]
                  /\ cnt' = [cnt EXCEPT ![t] = 0]
                  /\ UNCHANGED tcp
             ELSE /\ SendLine(c, RecvLine)
                  /\ bufMap' = [bufMap EXCEPT ![c] = buf]
                  /\ cnt' = [cnt EXCEPT ![t] = @ + 1]
                  /\ UNCHANGED <<proc, mutex, pc, moved, returned>>
  /\ UNCHANGED <<vars, lines, bridge, recordVars, call, program, dropped>>

\* zmq_pro is gone: fscanf returns EOF.  readMsgUntil returns cnt, and
\* readMsg takes a positive cnt for success.  (A sendLine that returns -1
\* makes readMsg fail in the same way as EOF with cnt = 0.)
ReadEof(t) ==
  LET c == Home[t] IN
  /\ pc[t] = "await"
  /\ pipe[c] = <<>> /\ bridge[c] = "done"
  /\ mutex' = [mutex EXCEPT ![c] = None]
  /\ cnt' = [cnt EXCEPT ![t] = 0]
  /\ IF cnt[t] = 0
     THEN pc' = [pc EXCEPT ![t] = "report"] /\ UNCHANGED <<proc, bufMap, moved, returned>>
     ELSE ReturnFront(t, c, call[t].port, bufMap[c])
  /\ UNCHANGED <<vars, bridgeVars, recordVars, notClassified, call, program, dropped>>

\* SYSCALL_REMOTE_WRITE: getMsgSentFromLocalPort fails if the port is not
\* open; else writeMsg sends the line and waits, holding socketMutex.
WriteRefused(t) ==
  /\ Locks(t, "write")
  /\ bufMap[Home[t]][call[t].port] = None
  /\ pc' = [pc EXCEPT ![t] = "report"]
  /\ UNCHANGED <<vars, bridgeVars, recordVars, proc, mutex, bufMap, notClassified, call,
                 cnt, moved, program, returned, dropped>>

\* Mutant: "send_ret" is not waited for.
WriteMessageNoWait(t) ==
  LET c == Home[t]
      p == call[t].port
  IN
  /\ Locks(t, "write")
  /\ bufMap[c][p] # None
  /\ SendLine(c, SendLineOf(bufMap[c][p].addr, <<p, bufMap[c][p].port>>))
  /\ pc' = [pc EXCEPT ![t] = "report"]
  /\ UNCHANGED <<vars, lines, bridge, pipe, recordVars, proc, mutex, bufMap, notClassified,
                 call, cnt, moved, program, returned, dropped>>

WriteMessage(t) ==
  LET c == Home[t]
      p == call[t].port
  IN
  /\ Locks(t, "write")
  /\ bufMap[c][p] # None
  /\ SendLine(c, SendLineOf(bufMap[c][p].addr, <<p, bufMap[c][p].port>>))
  /\ mutex' = [mutex EXCEPT ![c] = t]
  /\ pc' = [pc EXCEPT ![t] = "sendret"]
  /\ UNCHANGED <<vars, lines, bridge, pipe, recordVars, proc, bufMap, notClassified,
                 call, cnt, moved, program, returned, dropped>>

\* fscanf of "send_ret", or EOF: writeMsg returns what sendLine returned.
WriteReturn(t) ==
  LET c == Home[t]
      conn == bufMap[c][call[t].port]
  IN
  /\ pc[t] = "sendret"
  /\ \/ /\ pipe[c] # <<>>
        /\ pipe' = [pipe EXCEPT ![c] = Tail(@)]
        /\ moved' = [moved EXCEPT ![t] =
              [src |-> c, des |-> conn.addr, seq |-> sent[c][conn.addr],
               body |-> <<call[t].port, conn.port>>]]
     \/ pipe[c] = <<>> /\ bridge[c] = "done" /\ UNCHANGED <<pipe, moved>>
  /\ mutex' = [mutex EXCEPT ![c] = None]
  /\ pc' = [pc EXCEPT ![t] = "report"]
  /\ UNCHANGED <<vars, tcp, lines, bridge, recordVars, proc, bufMap, notClassified, call,
                 cnt, program, returned, dropped>>

\* output->Syscall after unlockInter: the timing model runs runEnter, in the
\* order in which the threads get there, and the program goes on.
Report(t) ==
  LET c == Home[t]
      k == call[t]
  IN
  /\ pc[t] = "report"
  /\ CASE k.op = "read" -> RecordMessage(c, "recv", k.port, t, moved[t])
       [] k.op = "write" -> RecordMessage(c, "send", k.port, t, moved[t])
       [] k.op = "connect" -> RecordConnect(c, k.port, k.addr, k.rport)
       [] k.op = "disconnect" -> RecordDisconnect(c, k.port)
  /\ pc' = [pc EXCEPT ![t] = "run"]
  /\ call' = [call EXCEPT ![t] = None]
  /\ moved' = [moved EXCEPT ![t] = None]
  /\ UNCHANGED <<vars, bridgeVars, proc, mutex, bufMap, notClassified, cnt, program,
                 returned, dropped>>

\* A thread ends the process; the other threads stop where they are.
ProgramExit(c) ==
  /\ \E t \in Mates(c) : pc[t] = "run"
  /\ bridge[c] # "connect"
  /\ proc' = [proc EXCEPT ![c] = "exited"]
  /\ pc' = [u \in Threads |-> IF u \in Mates(c) THEN "dead" ELSE pc[u]]
  /\ UNCHANGED <<vars, bridgeVars, recordVars, mutex, bufMap, notClassified, call, cnt,
                 moved, program, returned, dropped>>

Syscall(t) ==
  ConnectInter(t) \/ DisconnectInter(t) \/ ReadLocal(t) \/ ReadRemote(t) \/ ReadReply(t)
  \/ ReadEof(t) \/ WriteRefused(t) \/ WriteMessage(t) \/ WriteReturn(t) \/ Report(t)

RouterStep == (Router \/ KeyPressed) /\ UNCHANGED <<bridgeVars, threadVars, recordVars>>

NetNext ==
  \/ RouterStep
  \/ \E c \in Chiplets : Bridge(c) \/ ProgramExit(c)
  \/ \E t \in Threads : EnterCall(t) \/ Syscall(t)

NetSpec == NetInit /\ [][NetNext]_netVars

\* Each router, each zmq_pro and each thread inside a system call runs on;
\* programs and the key press owe nothing.
NetFairness ==
  /\ WF_netVars(Router /\ RouterStep)
  /\ \A c \in Chiplets : WF_netVars(Bridge(c))
  /\ \A t \in Threads : WF_netVars(Syscall(t))

FairNetSpec == NetSpec /\ NetFairness

-----------------------------------------------------------------------------
(* Properties.                                                             *)

Line == [cmd : {"recv"}] \cup [cmd : {"send"}, des : Dests, body : Bodies]
Token == [tok : {"send_ret"}] \cup [tok : {"data"}, msg : Message]
Connection == [addr : Dests, port : Ports, msgs : Seq(Message)]

NetTypeOK ==
  /\ TypeOK
  /\ tcp \in [Chiplets -> Seq(Line)] /\ lines \in [Chiplets -> Seq(Line)]
  /\ bridge \in [Chiplets -> {"connect", "line", "exec", "ret", "await", "leave", "done"}]
  /\ pipe \in [Chiplets -> Seq(Token)]
  /\ proc \in [Chiplets -> {"up", "exited", "crashed"}]
  /\ mutex \in [Chiplets -> Threads \cup {None}]
  /\ bufMap \in [Chiplets -> [Ports -> Connection \cup {None}]]
  /\ notClassified \in [Chiplets -> Seq(Message)]
  /\ pc \in [Threads -> {"run", "lock", "await", "sendret", "report", "dead"}]
  /\ call \in [Threads -> Call \cup {None}]
  /\ program \in [Threads -> Seq(Call)]
  /\ cnt \in [Threads -> Nat]
  /\ moved \in [Threads -> Message \cup {None}]
  /\ returned \in [Chiplets -> Seq(Message)]
  /\ dropped \in [Chiplets -> SUBSET Message]
  /\ des_addr_map \in [Chiplets -> [Ports -> [addr : Dests, port : Ports] \cup {None}]]

\* A chiplet as the router sees it behaves as an endpoint of Interchiplet,
\* whatever its threads do: connectZmq first, at most one "recv" outstanding,
\* nothing after "exit".  What is shown of the router there holds here.
ImplementsInterchiplet == Spec

\* zmq_pro leaves its loop only because the router said "exit" or the
\* recorder is gone.  receiveLine also makes it leave when lines is not
\* empty, which socketMutex, send_ret and the reply to "recv" must prevent:
\* the recorder never has two lines under way.
BridgeStays ==
  \A c \in Chiplets :
    /\ bridge[c] \in {"leave", "done"} => proc[c] # "up" \/ phase \in {"exit", "stopped"}
    /\ proc[c] = "up" => Len(tcp[c]) + Len(lines[c]) <= 1

\* A thread that waits for a message finds a message on zmq_pro's output and
\* a thread that waits for "send_ret" finds "send_ret": fscanf in
\* readMsgUntil and in writeMsg parse the same stream, and a token that meets
\* the wrong call is never taken back.
ReplyMatchesCall ==
  \A c \in Chiplets : proc[c] = "up" /\ pipe[c] # <<>> =>
    /\ Len(pipe[c]) = 1
    /\ mutex[c] # None
    /\ pc[mutex[c]] = IF Head(pipe[c]) = SendRet THEN "sendret" ELSE "await"

\* While a port is open no message for its connection is left among the
\* unclassified ones, where readMsg would not find it.
FiledWhenOpen ==
  \A c \in Chiplets, p \in Ports : \A k \in DOMAIN notClassified[c] :
    ~isCorrectMsg(c, p, notClassified[c][k])

SameSession(m, n) == m.src = n.src /\ m.body = n.body

\* The messages of one session (source, ports) are returned by readMsg in the
\* order they were sent, each at most once, and a message is passed over only
\* if disconnectInter has dropped it.
ReadsInOrder ==
  \A c \in Chiplets : \A j \in DOMAIN returned[c] :
    /\ \A i \in 1 .. j - 1 :
         SameSession(returned[c][i], returned[c][j]) => returned[c][i].seq < returned[c][j].seq
    /\ \A k \in DOMAIN delivered[c] :
         LET m == delivered[c][k] IN
         SameSession(m, returned[c][j]) /\ m.seq < returned[c][j].seq =>
           m \in dropped[c] \/ \E i \in 1 .. j - 1 : returned[c][i] = m

Buffered(c) == UNION {ToSet(bufMap[c][p].msgs) : p \in {q \in Ports : bufMap[c][q] # None}}

\* Every message the router has handed to a living chiplet is still on its
\* way to the recorder, filed, unclassified, returned, or dropped by
\* disconnectInter.
NothingVanishes ==
  \A c \in Chiplets : proc[c] = "up" => \A k \in DOMAIN delivered[c] :
    LET m == delivered[c][k] IN
    \/ MsgOf(m) \in ToSet(down[c])
    \/ DataOf(m) \in ToSet(pipe[c])
    \/ m \in Buffered(c) \cup ToSet(notClassified[c]) \cup ToSet(returned[c]) \cup dropped[c]

\* Until the router says "exit", readMsg never takes the front of an empty
\* list: readMsgUntil stops at the first message for the port, and between
\* chiplets whose connections agree that message fits the connection.
NeverPopsEmpty ==
  \A c \in Chiplets : proc[c] = "crashed" => phase \in {"exit", "stopped"}

\* A message for port p of chiplet c is somewhere between its sender and c.
Coming(c, p) ==
  LET for(m) == m.des = c /\ m.body[2] = p IN
  \/ \E k \in DOMAIN routerBuf[c] : for(routerBuf[c][k])
  \/ \E s \in Chiplets : \E k \in DOMAIN up[s] : up[s][k].cmd = "send" /\ for(up[s][k].msg)

\* A thread blocked in readMsgUntil comes back if a message for its port is
\* under way, however many messages for other ports are before it.
ReadServed ==
  \A t \in Threads :
    (pc[t] = "await" /\ Coming(Home[t], call[t].port)) ~> (pc[t] # "await")

=============================================================================
